SPECIFICATION Spec
CONSTANTS
    Req = {q1, q2}
    MaxId = 2
    MaxTime = 2
    MaxFaults = 0
    IdleTtl = 2
    AbsoluteTtl = 3
    Overlap = 1
    RenewAfter = 1
INVARIANT DestroyedStaysDead
\* The clock is bounded.
CHECK_DEADLOCK FALSE
