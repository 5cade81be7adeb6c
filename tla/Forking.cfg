SPECIFICATION FairSpec
CONSTANTS
    ConnNum = 2
    MaxFds = 2
    MaxSend = 1
INVARIANTS
    HeldRight
    WaitsForAll
PROPERTIES
    Reaped
    MainGoesOn
    Served
CHECK_DEADLOCK FALSE
