SPECIFICATION MCPageSpec
CONSTANTS
    Options <- AllOptions
    MaxWrites = 2
    MaxPauses = 1
    NLayers = 3
    Dependencies <- AllDependencies
    App = {"a1", "a2"}
    MaxMounts = 3
    Depth = 2
    Kids = 2
    Components = {4}
    MaxChanges = 2
    MaxResets = 2
    Resource = {"a", "b"}
    None = "none"
    MaxSwitches = 3
    MaxRefetches = 1
    Keys <- TheKeys
    Declared = {"a"}
    Signal = {"a", "b"}
    Cell = {"left", "right", "top"}
    Fx = {"seeTop", "copy"}
    Value = {0, 1}
    Default = 0
    Manners <- TheManners
    MaxCalls = 3
INVARIANTS GraphIsFresh AllTyped NothingStranded StateIsFresh LiveOnLive PageHolds PageIsRender
PROPERTIES ScreenCatchesUp
\* Sources stop changing, effects are stopped, pages are mounted and bounds used up.
CHECK_DEADLOCK FALSE
