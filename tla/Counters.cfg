SPECIFICATION CountFairSpec
CONSTANTS
    ThreadNum = 3
    N = 5
    IntMod = 4
    NoThread = NoThread
INVARIANTS
    WorkOnce
    FinalValue
PROPERTIES
    CountsDown
    CountEnds
CHECK_DEADLOCK FALSE
