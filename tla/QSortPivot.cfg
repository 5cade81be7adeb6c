SPECIFICATION SortSpec
CONSTANTS
    Num = 5
    Vals = {0, 1, 2, 3}
    MaxDepth = 6
INVARIANTS
    PivotFound
CHECK_DEADLOCK FALSE
