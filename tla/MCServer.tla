------------------------------- MODULE MCServer -------------------------------
(***************************************************************************)
(* What runs on a server, for TLC: the routes, caches and middleware a      *)
(* request meets, and the plugins, tasks and sockets of the host.  They share *)
(* no state, so a behaviour runs the one that part names and leaves the      *)
(* others as they were.                                                    *)
(***************************************************************************)
EXTENDS RequestPipeline

CONSTANTS
    Static, Tables, Pathnames,                       \* of RouteTable
    Base, Header, None, TagsOf, MaxEntries, MaxRuns,   \* of ServerCache
    Plugins, MaxStarts, Task, OnStart, MaxEpochs, Connection   \* of ServerHost

VARIABLES
    part,
    \* of RouteTable
    table, asked, winner,
    \* of ServerCache
    kind, age, lru, tagIndex, varyIndex, varyRefs, inflight, shared, last, crossed,
    \* of ServerHost
    running, started, up, starts, booting, tearing,
    scheduling, epoch, ticking, inFlight, bodies, stopping, patience,
    listening, closing, open, handling, refused, counted, drain, closed

routing == <<table, asked, winner>>
caching == <<kind, age, lru, tagIndex, varyIndex, varyRefs, inflight, shared, last, crossed>>
plugging == <<running, started, up, starts, booting, tearing>>
scheduled == <<scheduling, epoch, ticking, inFlight, bodies, stopping, patience>>
serving == <<listening, closing, open, handling, refused, counted, drain, closed>>

\* Every pair of patterns of two segments or less, and every triple of those a trie holds;
\* paths of up to three pieces.
Patterns(kinds) ==
    {[segments |-> s, slash |-> FALSE] :
        s \in {t \in UNION {[1..n -> kinds] : n \in 0..2} :
                \A k \in DOMAIN t : t[k] \in {"[...x]", "[[...x]]"} => k = Len(t)}}
RouteTables ==
    [1..2 -> Patterns({"a", "[x]", "[...x]", ":x?", "[[...x]]", "*"})]
        \cup [1..3 -> Patterns({"a", "[x]", "[...x]"})]
RoutePaths == {<<"">>} \cup UNION {[1..n -> {"a", "b"}] : n \in 1..3}

\* Two tags, of which one path has one.
TwoTags == [b \in Base |-> IF b = "p" THEN {"t"} ELSE {"t", "u"}]

\* Middleware for one route or every path, every method or one, routes or actions as well.
RouteScopes ==
    [paths : {Cached, Path}, methods : {Method, Safe}, targets : {{"api"}, Target}]

Routes == INSTANCE RouteTable WITH pathname <- asked
Cache == INSTANCE ServerCache
Host == INSTANCE ServerHost WITH Overlapping <- FALSE

ASSUME RoutesAssumption == Routes!RoutesKnown
ASSUME ServerCacheAssumption == Cache!CacheAssumption
ASSUME HostsAssumption == Host!HostAssumption
ASSUME RequestsAssumption == PipelineAssumption

Parts == {"request", "routes", "cache", "plugins", "tasks", "node"}

\* What a component that is not run begins with, where it could begin in several ways.
MCServerInit ==
    /\ part \in Parts
    /\ IF part = "request" THEN TRUE
       ELSE /\ covers = [m \in 1..Middlewares |-> CHOOSE s \in Scopes : TRUE]
            /\ piped = TRUE /\ defers = FALSE
            /\ current = CHOOSE p \in Handled : TRUE
            /\ method = CHOOSE v \in Method : TRUE
    /\ PipelineInit
    /\ IF part = "routes" THEN Routes!RoutesInit
       ELSE table = << >> /\ asked = <<"">> /\ winner = -1
    /\ IF part = "cache" THEN TRUE ELSE kind = "data"
    /\ Cache!CacheInit
    /\ Host!HostInit
    /\ Host!TasksInit
    /\ Host!ServerInit

OfRequest(step) ==
    part = "request" /\ step
    /\ UNCHANGED <<part, routing, caching, plugging, scheduled, serving>>
OfRoutes(step) ==
    part = "routes" /\ step
    /\ UNCHANGED <<part, pipelineVars, caching, plugging, scheduled, serving>>
OfCache(step) ==
    part = "cache" /\ step
    /\ UNCHANGED <<part, pipelineVars, routing, plugging, scheduled, serving>>
OfPlugins(step) ==
    part = "plugins" /\ step
    /\ UNCHANGED <<part, pipelineVars, routing, caching, scheduled, serving>>
OfTasks(step) ==
    part = "tasks" /\ step
    /\ UNCHANGED <<part, pipelineVars, routing, caching, plugging, serving>>
OfNode(step) ==
    part = "node" /\ step
    /\ UNCHANGED <<part, pipelineVars, routing, caching, plugging, scheduled>>

RequestNext ==
    \/ \E m \in 1..Middlewares :
        \/ OfRequest(Delegate(m))
        \/ OfRequest(CutShort(m))
        \/ OfRequest(Unwind(m))
    \/ OfRequest(NoChain)
    \/ OfRequest(Abort)
    \/ OfRequest(Terminal)
    \/ OfRequest(Handle)
    \/ OfRequest(DisposeScope)
    \/ OfRequest(DisposeRuntime)
    \/ OfRequest(EndPass)
    \/ OfRequest(Cleanup)
    \/ OfRequest(Settle)
    \/ OfRequest(Refuse)
    \/ OfRequest(Rematch)
    \/ OfRequest(RefreshBuilds)
    \/ OfRequest(RefreshHandles)
    \/ OfRequest(RefreshCleans)
    \/ OfRequest(RefreshDisposes)

CacheNext ==
    \/ \E b \in Base :
        \/ OfCache(Cache!Call(b))
        \/ \E h \in Header : OfCache(Cache!Request(b, h))
    \/ \E k \in Cache!Key :
        \/ OfCache(Cache!Respond(k))
        \/ OfCache(Cache!Return(k))
        \/ OfCache(Cache!Fail(k))
        \/ OfCache(Cache!Grow(k))
    \/ \E ts \in SUBSET Cache!Tag : ts # {} /\ OfCache(Cache!invalidateTags(ts))
    \/ OfCache(Cache!clear)

HostNext ==
    \/ OfPlugins(Host!Start)
    \/ OfPlugins(Host!Stop)
    \/ \E n \in 1..MaxStarts :
        \/ OfPlugins(Host!SetUp(n))
        \/ OfPlugins(Host!SetUpFails(n))
        \/ OfPlugins(Host!Started(n))
        \/ OfPlugins(Host!TearDown(n))
        \/ OfPlugins(Host!TornDown(n))
    \/ OfTasks(Host!StartTasks)
    \/ OfTasks(Host!StopTasks)
    \/ OfTasks(Host!StopAnswers)
    \/ OfTasks(Host!StopTimesOut)
    \/ \E t \in Task :
        \/ OfTasks(Host!Interval(t))
        \/ OfTasks(Host!RunEnds(t))
    \/ OfNode(Host!Listen)
    \/ OfNode(Host!Close)
    \/ OfNode(Host!TimeOut)
    \/ OfNode(Host!CloseAll)
    \/ \E c \in Connection :
        \/ OfNode(Host!Connect(c))
        \/ OfNode(Host!Accept(c))
        \/ OfNode(Host!Disconnect(c))
        \/ \E ok \in BOOLEAN : OfNode(Host!Settle(c, ok))

MCServerNext ==
    \/ RequestNext \/ OfRoutes(Routes!Dispatch) \/ CacheNext \/ HostNext

\* What the Fairness of each component asks: a request goes on, the scheduler times out
\* what it awaits, and a close drops what is left.
MCServerFairness ==
    /\ WF_pipelineVars(RequestNext)
    /\ WF_scheduled(OfTasks(Host!StopAnswers \/ Host!StopTimesOut))
    /\ WF_serving(OfNode(Host!TimeOut)) /\ WF_serving(OfNode(Host!CloseAll))

MCServerSpec ==
    /\ MCServerInit
    /\ [][MCServerNext]_<<part, pipelineVars, routing, caching, plugging, scheduled, serving>>
    /\ MCServerFairness

----------------------------------------------------------------------------
\* The component that runs keeps its types.
AllTyped ==
    CASE part = "request" -> PipelineTyped
      [] part = "routes" -> Routes!RoutesTyped
      [] part = "cache" -> Cache!CacheTyped
      [] part = "plugins" -> Host!HostTyped
      [] part = "tasks" -> Host!TasksTyped
      [] part = "node" -> Host!ServerTyped

\* The trie "selects the same winner the linear scan would" (server-routing.ts:208).
TrieIsScan == Routes!TrieIsScan

\* The list, the tags and the negotiation rules of a cache describe its entries, and what
\* was stored last for a path is what the next lookup for it finds.
IndexesAgree == Cache!IndexesAgree /\ Cache!StoredIsFound

\* No response is served for headers it was not negotiated with.
VariantsKept == Cache!VariantsKept

\* Plugins are set up all or none and torn down in strict reverse; a task never overlaps
\* itself, and runs no more after a stop() that was answered; a close that did not time
\* out cuts no handler off.
HostsWindDown ==
    /\ [](Host!AllOrNothing /\ Host!NoOverlap /\ Host!Quiet /\ Host!Graceful)
    /\ Host!StrictReverse

\* A request is answered however it is rewritten, and stop() and close() return whatever
\* tasks and clients do.
ServersAnswer ==
    []<>((part = "request" => Answered) /\ Host!StopReturned /\ Host!CloseReturned)
=============================================================================
