SPECIFICATION FairSpec
CONSTANTS
    RcvBuf = 2
    MSG_NUM = 5
    MaxLines = 3
    MaxLen = 3
    MaxForeign = 2
    MaxKills = 2
INVARIANTS
    AnswersInOrder
    CountExact
PROPERTIES
    Answered
CHECK_DEADLOCK FALSE
