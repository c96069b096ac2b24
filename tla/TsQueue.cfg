SPECIFICATION FairSpec
CONSTANTS
    Consumer = {c1, c2, c3}
    Item = {i1, i2, i3}
INVARIANT QInv
PROPERTIES QueueSpec StopReleases
