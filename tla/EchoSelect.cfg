SPECIFICATION FairSpec
CONSTANTS
    ConnNum = 4
    SvrFd = 3
    MaxFd = 6
    MAXLINE = 2
    Window = 2
    MaxBytes = 2
    Resetters = {2}
    NULL = NULL
    MAXFDSIZE = 2
    HoleBit = 6
INVARIANTS
    TablesAgree
    NoReadySkipped
    ExitHasCause
PROPERTIES
    ImplementsEcho
    Served
CHECK_DEADLOCK FALSE
