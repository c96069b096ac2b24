SPECIFICATION FairSpec
CONSTANTS
    HeaderLen = 2
    MaxLen = 3
    Sizes = {0, 1, 2, 3, 4}
    MaxMsgs = 3
    Word = 16
    ShortWrites = FALSE
INVARIANTS StreamInv
PROPERTIES QueueSpec SentIsReceived
CHECK_DEADLOCK FALSE
