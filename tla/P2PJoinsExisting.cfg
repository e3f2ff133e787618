CONSTANTS
  Self = self
  Names = {self, other}
  Groups = {g1, g2, g3}
  PeerGroups = {g3}
  MaxUsers = 2
  Conns = {c1, c2}
  None = none
  MaxSent = 2
SPECIFICATION Spec
CHECK_DEADLOCK FALSE
INVARIANT JoinsExisting
