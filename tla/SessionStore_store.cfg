SPECIFICATION Spec
CONSTANTS
    Procs = {p1, p2}
    p1 = p1
    p2 = p2
    Values = {v1, v2}
    v1 = v1
    v2 = v2
    Keys = {k1, k2}
    k1 = k1
    k2 = k2
    None = None
    MaxIndex = 2
    Ops = {"scrub", "rehydrate", "rm", "gc", "encrypt", "rekey"}
    Damage = {"corrupt", "malformed"}
    Calm = TRUE
SYMMETRY Symmetry
INVARIANTS TypeOK OneValuePerToken EmittedIsRestorable
PROPERTIES SaveExtendsDisk GcSparesFresh NoPlaintextDowngrade
