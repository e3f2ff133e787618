CONSTANTS
  Conns = {c1, c2}
  NSlots = 2
  Nicks = {ann, bob, eve}
  Seeded = {ann, bob}
  None = None
SPECIFICATION FairSpec
CHECK_DEADLOCK FALSE
INVARIANTS SlotIsHandlers LookupStaysTrue FreedAfterHandlers PeerPerLogin
PROPERTIES ImplementsDirectory HandlersEnd StopReturns
