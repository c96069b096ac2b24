SPECIFICATION Spec
CONSTANTS
    HeaderLen = 2
    MaxLen = 3
    Sizes = {0, 1, 2, 3, 4}
    MaxMsgs = 3
    Word = 16
    ShortWrites = TRUE
INVARIANT WriteSendsTheData
CHECK_DEADLOCK FALSE
