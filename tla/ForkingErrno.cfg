SPECIFICATION FairSpec
CONSTANTS
    ConnNum = 2
    MaxFds = 3
    MaxSend = 0
PROPERTIES
    InterruptRetried
CHECK_DEADLOCK FALSE
