CONSTANTS
    key1 = key1
    host1 = host1
    NoKey = NoKey
    NoRefusal = NoRefusal
    ApiKeys = {key1}
    Hosts = {host1}
    MaxRequests = 2
    WindowSeconds = 2
    Ticks = 2
    MaxTime = 9
SPECIFICATION LimiterSpec
INVARIANTS
    LimiterTypeOK
    WindowLimit
    RefusedWhenFull
    RetryIsNear
