CONSTANTS
    s1 = s1
    IPs = {i1, i2}
    Shards = {s1, s2}
    ShardOf <- OneShard
    MaxPerShard = 1
    Limit = 2
    Minute = 1
    Idle = 2
    SweepPeriod = 3
    MaxClock = 5
    MaxAdmitted = 4
    AuthIPs = {j1, j2, j3}
    Requests = {r1, r2}
    Base = 1
    Cap = 3
    MaxEntries = 2
SPECIFICATION GateSpec
INVARIANTS
    GateTypeOK
    AtMostLimitPerMinute
    DenialEnds
    WaitHolds
PROPERTIES
    WaitsDouble
CHECK_DEADLOCK FALSE
