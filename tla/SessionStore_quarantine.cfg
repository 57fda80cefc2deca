SPECIFICATION Spec
CONSTANTS
    Procs = {p1, p2}
    p1 = p1
    p2 = p2
    Values = {v1, v2}
    v1 = v1
    v2 = v2
    Keys = {}
    None = None
    MaxIndex = 1
    Ops = {"scrub", "rehydrate", "rm"}
    Damage = {}
    Calm = FALSE
SYMMETRY Symmetry
INVARIANTS OneValuePerToken
