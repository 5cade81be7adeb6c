SPECIFICATION FairSpec
CONSTANTS
    Options <- MCOptions
    MsgLen = 2
    MaxTyped = 3
    MaxMsgs = 3
INVARIANTS
    EchoesRead
    Numbering
PROPERTIES
    Ends
    Printed
CHECK_DEADLOCK FALSE
