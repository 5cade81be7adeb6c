SPECIFICATION Spec
CONSTANTS
    ConnNum = 4
    SvrFd = 3
    MaxFd = 6
    MAXLINE = 2
    Window = 2
    MaxBytes = 2
    Resetters = {1, 2}
    NULL = NULL
    MAXFDSIZE = 3
INVARIANTS
    EntriesAgree
    ReadsNeverBlock
    ExitHasCause
PROPERTIES
    ImplementsEcho
CHECK_DEADLOCK FALSE
