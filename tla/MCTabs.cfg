SPECIFICATION TabsSpec
CONSTANTS
    Tab = {1, 2, 3}
    Value = {"a", "b", "c"}
    Initial = "a"
    Founders = {1, 2, 3}
    Reaction <- ClampInTab2
    MaxClock = 1
    MaxWrites = 2
    MaxSleeps = 1
    Early = {2}
    Latecomers = {1}
    CrowdTab = {1, 2, 3}
    CrowdHeartbeat = 1
    CrowdTimeout = 2
    CrowdCrashes = 1
    CrowdSplitCap = 3
    PairTab = {1, 2}
    PairHeartbeat = 2
    PairTimeout = 4
    PairDelay = 1
    PairInboxCap = 2
    PairCrashes = 1
    PairSuspends = 1
    PairSplitCap = 5
INVARIANTS AllTyped StampNamesWrite OpenedTogetherAgree LeadersGiveWay
PROPERTIES HoldsLater ElectsOne
\* Every tab may be disposed and every bound used up.
CHECK_DEADLOCK FALSE
