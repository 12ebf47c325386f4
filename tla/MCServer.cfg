SPECIFICATION MCServerSpec
CONSTANTS
    Path = {"a", "b", "c", "r"}
    Reserved = {"r"}
    Method = {"GET", "POST"}
    Safe = {"GET"}
    Handled = {"a", "b", "r"}
    Cached = {"b"}
    Scopes <- RouteScopes
    Middlewares = 2
    MaxRewrites = 1
    Static = {"a"}
    Tables <- RouteTables
    Pathnames <- RoutePaths
    Base = {"p", "q"}
    Header = {"x", "y"}
    None = "none"
    TagsOf <- TwoTags
    MaxEntries = 2
    MaxRuns = 2
    Plugins = 3
    MaxStarts = 2
    Task = {"t1", "t2"}
    OnStart = {"t1"}
    MaxEpochs = 2
    Connection = {"c1", "c2", "c3"}
INVARIANTS AllTyped TrieIsScan IndexesAgree GuardsRan LeavesNothing
PROPERTIES HostsWindDown ServersAnswer
\* Requests are answered, hosts stopped, and bounds used up.
CHECK_DEADLOCK FALSE
