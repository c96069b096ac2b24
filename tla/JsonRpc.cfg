SPECIFICATION FairSpec
CONSTANTS
    Peer = {p, q}
    Hex <- MCHex
    MaxCalls = 2
    MaxAgain = 1
    Params = {"none", "empty", "front", "quoted"}
    Results = {"empty", "null", "front"}
INVARIANTS ReadAsMeant RpcInv
PROPERTY RequestIsAnswered
CHECK_DEADLOCK FALSE
