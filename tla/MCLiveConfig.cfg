CONSTANTS
    p1 = p1
    p2 = p2
    a1 = a1
    PoolIDs = {p1, p2}
    Admins = {a1}
    MaxRebuilds = 4
    Failures = {"list", "pool"}
SPECIFICATION Spec
SYMMETRY Symmetry
INVARIANTS
    LiveMatchesStore
CHECK_DEADLOCK FALSE
