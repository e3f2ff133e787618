CONSTANTS
    MaxStarts = 1
    NumTables = 7
    KeyAnswers = {"refused"}
SPECIFICATION FairSpec
CHECK_DEADLOCK FALSE
INVARIANT KeyIsSet
