SPECIFICATION Spec
CONSTANTS
    ConnNum = 3
    SvrFd = 3
    MaxFd = 6
    MAXLINE = 1
    Window = 1
    MaxBytes = 1
    Resetters = {}
    NULL = NULL
    MAXFDSIZE = 3
    HoleBit = 6
INVARIANTS
    ReadsClientsOnly
CHECK_DEADLOCK FALSE
