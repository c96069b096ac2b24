SPECIFICATION FairSpec
CONSTANTS
    Func = {f1, f2}
    MaxTimers = 2
INVARIANT IInv
PROPERTIES NotifiedRuns StopEndsExec QueueSpec
CHECK_DEADLOCK FALSE
