SPECIFICATION FairSpec
CONSTANTS
    Size = 2
    ProduceNum = 2
    ConsumeNum = 2
    ProductNum = 4
    MaxSpurious = 1
    NULL = NULL
INVARIANTS
    Asserts
    FullEmptyExact
    Conserved
PROPERTIES
    Termination
    ImplementsFifo
CHECK_DEADLOCK FALSE
