SPECIFICATION Spec
CONSTANTS
    Addr = {a1, a2, a3, a4, a5, a6}
    MaxNew = 4
    MaxContainers = 2
    Leaves <- MCLeaves
    Key = {k1, k2}
    Word = 4
    MaxIndex = 2
SYMMETRY Symmetry
INVARIANTS SingleOwner CopyIsFaithful
PROPERTY OnlyOverwriteLeaks
CHECK_DEADLOCK FALSE
