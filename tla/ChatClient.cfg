CONSTANTS
  Nicks = {ann, bob}
  None = none
  MaxBoxes = 4
  MaxLines = 2
SPECIFICATION FairSpec
CHECK_DEADLOCK FALSE
INVARIANTS ConnectingIsTimed WindowShowsUser
PROPERTIES ConnectingEnds
