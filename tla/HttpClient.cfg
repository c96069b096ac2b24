SPECIFICATION FairSpec
CONSTANTS
    Radix = 2
    MaxInt = 7
    MaxLineBuf = 5
    Responses <- MCResponses
    HeadBuf = 5
    MaxRequests = 3
INVARIANTS GoodBody PiecesDontMatter
PROPERTY LengthReadReturns
CHECK_DEADLOCK FALSE
