SPECIFICATION EventFairSpec
CONSTANTS
    Waiter = {a, b, c}
    MaxSets = 3
INVARIANT EInv
PROPERTY SetIsSeen
