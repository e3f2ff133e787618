SPECIFICATION Spec
CONSTANTS
    c1 = c1
    c2 = c2
    c3 = c3
    Ann = Ann
    Bob = Bob
    NoNick = NoNick
    System = System
    NoClient = NoClient
    Clients <- MCClients
    Nicks <- MCNicks
    MaxClients = 2
    MaxMessages = 1
SYMMETRY ClientSymmetry
CHECK_DEADLOCK FALSE
INVARIANTS
    EveryoneOnce
    StrangersAreNewcomers
    ReceivedIsStored
PROPERTY ImplementsMailbox
