SPECIFICATION Spec
CONSTANTS
    Procs = {p1, p2, p3, p4}
    p1 = p1
    p2 = p2
    p3 = p3
    p4 = p4
    None = None
    ReusedPids = {p4}
    Refusals = TRUE
    SlowHolders = FALSE
    Abandon = FALSE
    GcSweep = FALSE
SYMMETRY Symmetry
INVARIANTS MutualExclusion LockIntact DeletesOnlyDeadLocks
PROPERTIES ImplementsMutex
CHECK_DEADLOCK FALSE
