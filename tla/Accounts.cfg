SPECIFICATION Spec
CONSTANTS
    c1 = c1
    c2 = c2
    h0 = h0
    h1 = h1
    Ann = Ann
    ann = ann
    bob = bob
    bad = bad
    NoNick = NoNick
    Clients <- MCClients
    Slots <- MCSlots
    Nicks <- MCNicks
    Valid <- MCValid
    Canon <- MCCanon
    Hex <- MCHex
    TokenLength = 2
    MaxPeers = 1
SYMMETRY Symmetry
INVARIANTS
    TypeOK
    OneOwner
    IssuedTokenLogsIn
    SessionHasAccount
PROPERTIES
    ImplementsRegistry
