CONSTANTS
    u1 = u1
    u2 = u2
    Requests = {r1, r2}
    Upstreams = {u1, u2}
    Chains <- SomeChains
    Items = {a, b, c}
    Zero = zero
    Requested = 4
SPECIFICATION ChatSpec
INVARIANTS
    ChatTypeOK
    BodiesClosed
    CountersExact
    FirstSuccessOrLastFailure
    GoneClientEndsChain
PROPERTIES
    ImplementsBoundedLog
    EveryRequestLogged
CHECK_DEADLOCK FALSE
