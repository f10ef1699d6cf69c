CONSTANTS
    Calls = {c1, c2, c3}
    NoToken = NoToken
    Lifetime = 3
    CacheTtl = 4
    MaxRetries = 1
    Latency = 1
    MaxTime = 12
SPECIFICATION Spec
PROPERTIES
    ReturnedTokenIsHonoured
CHECK_DEADLOCK FALSE
