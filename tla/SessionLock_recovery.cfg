SPECIFICATION FairSpec
CONSTANTS
    Procs = {p1, p2, p3}
    p1 = p1
    p2 = p2
    p3 = p3
    None = None
    ReusedPids = {}
    Refusals = FALSE
    SlowHolders = FALSE
    Abandon = TRUE
    GcSweep = TRUE
PROPERTIES DeadLockCleared
CHECK_DEADLOCK FALSE
