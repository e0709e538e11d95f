CONSTANTS
    Names = {a}
    Rebuilders = {b1, b2}
    MaxRebuilds = 3
    MaxRefs = 3
    Keys = {k1, k2}
    Producers = {p1, p2}
    Closers = {c1, c2}
    QueueSize = 1
    BatchSize = 2
    MaxTouches = 3
SPECIFICATION ShutdownSpec
INVARIANTS
    OneRefresher
    StopJoins
    TouchesConserved
PROPERTIES
    NoAddDuringWait
    ShutdownEnds
CHECK_DEADLOCK FALSE
