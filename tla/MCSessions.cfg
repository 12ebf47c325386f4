SPECIFICATION PartsSpec
CONSTANTS
    Req = {q1, q2}
    MaxId = 3
    MaxTime = 3
    MaxFaults = 1
    IdleTtl = 1
    AbsoluteTtl = 3
    Overlap = 1
    RenewAfter = 1
    Caller = {r1, r2}
    Session = {s1, s2}
    IndexTtl = 2
    Ceiling = 2
    Client = {p1, p2}
    Threshold = 2
    LockTime = 1
    LinkTtl = 1
    MaxCalls = 4
    MaxClock = 2
SYMMETRY Requests
INVARIANTS AllTyped LifetimesHold PasswordsAgree
PROPERTIES SignOutIsTotal
\* The clock is bounded.
CHECK_DEADLOCK FALSE
