CONSTANTS
    Calls = {c1, c2, c3}
    NoToken = NoToken
    Lifetime = 4
    CacheTtl = 2
    MaxRetries = 1
    Latency = 1
    MaxTime = 6
SPECIFICATION FairSpec
INVARIANTS
    TypeOK
PROPERTIES
    ReturnedTokenIsHonoured
    EveryCallReturns
CHECK_DEADLOCK FALSE
