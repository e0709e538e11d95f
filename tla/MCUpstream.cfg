CONSTANTS
    r1 = r1
    r2 = r2
    Requests = {r1, r2}
    NTiers = 3
    TTL = 1
    MaxTime = 2
    KeyCounts = {1, 2}
    Strategies = {"round-robin", "random", "none"}
SPECIFICATION UpstreamSpec
SYMMETRY Symmetry
INVARIANTS
    NeverFailsFast
    OnlyFaultsCool
    ResponsesAccounted
    StrictFailureIsFinal
    RotatesBeforeGivingUp
