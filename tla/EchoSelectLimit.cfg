SPECIFICATION Spec
CONSTANTS
    ConnNum = 3
    SvrFd = 3
    MaxFd = 6
    MAXLINE = 1
    Window = 1
    MaxBytes = 0
    Resetters = {2}
    NULL = NULL
    MAXFDSIZE = 2
    HoleBit = 63
INVARIANTS
    OnlyMAXFDSIZEConnects
CHECK_DEADLOCK FALSE
