SPECIFICATION MCAnswersSpec
CONSTANTS
    Mutation <- Handles
    MaxMutations = 3
    MaxSources = 2
    MaxLoads = 3
    Before = 1
    After = 1
    MaxPages = 5
    Timed = TRUE
    Hook = {"hook"}
    MaxTasks = 4
    Path = {"a", "b", "c"}
    Home = "a"
    MaxNavigations = 2
    Stages = 1
    Records <- OneRedirects
    GuardsRedirect = TRUE
    RoutePage = {"a", "b"}
    None = "none"
    MaxChanges = 2
    MaxRetries = 1
    Reconciles = TRUE
    Effects = {"gentle", "meddling", "throwing"}
    Observer = {o1, o2}
    MaxRuns = 4
    Retries = 1
    MaxWrites = 1
    MaxFetches = 4
    Language = {"en", "fr", "de"}
    Default = "en"
    MaxCalls = 3
    MaxUpdates = 4
INVARIANTS AllTyped MutationsEndOnce LoadsAreCurrent FetchingIsTrue QueriesShowTruth WorkIsOrderly
PROPERTIES CancelledIsSilent AwaitIsNewest DerivedIsNewest LocaleIsNewest NavigationHolds CallersAreAnswered
\* Everything may be answered and disposed of, and bounds used up.
CHECK_DEADLOCK FALSE
