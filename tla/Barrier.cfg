SPECIFICATION BarrierFairSpec
CONSTANTS
    Thread = {a, b, c, d}
    UIntMod = 5
    MaxRounds = 7
INVARIANTS BInv Rendezvous
PROPERTY AllGetThrough
CHECK_DEADLOCK FALSE
