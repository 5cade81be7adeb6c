SPECIFICATION FairSpec
CONSTANTS
    ConnNum = 3
    DayConns = 2
    ChildWrites = 1
    BothWrites = 1
    MAXDESCRIPTOR = 4
    MaxFd = 5
INVARIANTS
    DaemonReady
    OneAcceptor
    EofComplete
PROPERTIES
    Served
CHECK_DEADLOCK FALSE
