CONSTANTS
    MaxStarts = 4
    NumTables = 3
    KeyAnswers = {"refused", "ignored"}
SPECIFICATION FairSpec
CHECK_DEADLOCK FALSE
INVARIANTS ServesAllTables
PROPERTIES RestartServes SignalStops
