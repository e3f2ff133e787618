SPECIFICATION ResourcesSpec
CONSTANTS
    t1 = t1
    t2 = t2
    t3 = t3
    Threads <- MCThreads
    RingSize = 2
    MaxEvents = 6
    Free = Free
    MaxRate = 2
    Window = 3
    MaxTime = 10
SYMMETRY ThreadSymmetry
INVARIANTS
    TypeOK
    EntryIntact
    PromptRowsAreTrue
    SlidingBound
    RefusedOnlyWhenBusy
    GivesBack
    FreesOnlyHeld
