SPECIFICATION Spec
CONSTANTS
    Requests = {r1, r2, r3}
    r1 = r1
    r2 = r2
    r3 = r3
    Sids = {s1, s2}
    s1 = s1
    s2 = s2
    Values = {v1, v2}
    v1 = v1
    v2 = v2
    None = None
    MaxSessions = 1
    HighWater = 2
INVARIANTS TypeOK ExactlyOneResponse RestoresOwnValues StoreSound AuditAccountsForAll NoOrphanUpstream
SYMMETRY Symmetry
CHECK_DEADLOCK FALSE
