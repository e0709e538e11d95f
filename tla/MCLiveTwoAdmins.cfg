CONSTANTS
    p1 = p1
    p2 = p2
    a1 = a1
    a2 = a2
    PoolIDs = {p1, p2}
    Admins = {a1, a2}
    MaxRebuilds = 3
    Failures = {}
SPECIFICATION Spec
SYMMETRY Symmetry
INVARIANTS
    RelaysMatchStore
CHECK_DEADLOCK FALSE
