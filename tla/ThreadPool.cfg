SPECIFICATION FairSpec
CONSTANTS
    MaxWorkers = 3
    Task = {t1, t2}
INVARIANTS IInv OneLateStart
PROPERTIES PostedIsStarted StopReturnsOrSleeper QueueSpec
CHECK_DEADLOCK FALSE
