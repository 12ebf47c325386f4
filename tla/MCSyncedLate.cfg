\* Tab 1 opens after tab 2.
SPECIFICATION TabsSpec
CONSTANTS
    Tab = {1, 2}
    Value = {"a", "b", "c"}
    Initial = "a"
    Founders = {2}
    Reaction <- NoReaction
    MaxClock = 2
    MaxWrites = 1
    MaxSleeps = 1
    Early = {2}
    Latecomers = {1}
    CrowdTab = {1, 2, 3}
    CrowdHeartbeat = 1
    CrowdTimeout = 2
    CrowdCrashes = 1
    CrowdSplitCap = 3
    PairTab = {1, 2}
    PairHeartbeat = 2
    PairTimeout = 4
    PairDelay = 1
    PairInboxCap = 2
    PairCrashes = 1
    PairSuspends = 1
    PairSplitCap = 5
PROPERTIES WritesOutliveDefaults
\* Every tab may be disposed and every bound used up.
CHECK_DEADLOCK FALSE
