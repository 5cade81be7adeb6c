SPECIFICATION FairSpec
CONSTANTS
    ConnNum = 3
    SvrFd = 3
    MaxFd = 5
    MAXLINE = 2
    Window = 2
    MaxBytes = 3
    Resetters = {2}
    NULL = NULL
    MAX_EVENTS = 2
    MaxWatch = 3
INVARIANTS
    EventsFresh
    ExitHasCause
PROPERTIES
    ImplementsEcho
    Served
CHECK_DEADLOCK FALSE
