SPECIFICATION FairSpec
CONSTANTS
    k1 = k1
    k2 = k2
    NoConn = NoConn
    Stdin = Stdin
    Conns <- OneConn
    SIGINT = SIGINT
    Signals <- OneSignal
    MaxClients = 2
    MaxFd = 2
CHECK_DEADLOCK FALSE
PROPERTIES
    IdleSlotReleased
    SilentHandlerEnds
    ShutdownCompletes
