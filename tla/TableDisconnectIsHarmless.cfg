SPECIFICATION Spec
CONSTANTS
    k1 = k1
    k2 = k2
    NoConn = NoConn
    Stdin = Stdin
    Conns <- TwoConns
    SIGINT = SIGINT
    Signals <- NoSignals
    MaxClients = 2
    MaxFd = 1
SYMMETRY ConnSymmetry
CHECK_DEADLOCK FALSE
INVARIANTS
    DisconnectIsHarmless
