SPECIFICATION SortFairSpec
CONSTANTS
    Num = 5
    Vals = {0, 1, 2, 3}
    MaxDepth = 6
INVARIANTS
    SortOk
PROPERTIES
    Ends
CHECK_DEADLOCK FALSE
