SPECIFICATION TokensSpec
CONSTANTS
    Process = {p1, p2, p3}
    None = None
    Ttl = 2
    MaxCrashes = 1
    Replica = {r1, r2}
    MaxGrants = 1
    MaxTokens = 3
    MaxFaults = 1
    Browser = {b1, b2}
    Flow = {1, 2}
    Callback = {1, 2}
    MaxFailures = 1
    Caller = {c1, c2}
    Key = {k1, k2}
    CacheTtl = 2
    MinRefetch = 2
    Latency = 1
    MaxTime = 5
    MaxRotations = 1
    MaxBlips = 1
INVARIANT TokensHold
PROPERTIES PromiseKept HoldersReplaced
\* The user may have signed out for good.
CHECK_DEADLOCK FALSE
