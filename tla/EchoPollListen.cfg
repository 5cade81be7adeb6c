SPECIFICATION Spec
CONSTANTS
    ConnNum = 2
    SvrFd = 3
    MaxFd = 6
    MAXLINE = 1
    Window = 1
    MaxBytes = 2
    Resetters = {}
    NULL = NULL
    MAXFDSIZE = 3
INVARIANTS
    ReadsClientsOnly
CHECK_DEADLOCK FALSE
