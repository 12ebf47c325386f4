------------------------------ MODULE ServerHost -----------------------------
(***************************************************************************)
(* What the host of a server starts and winds down, three parts that share   *)
(* no state.                                                                *)
(*                                                                         *)
(* Resources: packages/server/src/plugins.ts.  start() sets the plugins up   *)
(* one after the other and stop() tears them down in reverse; each awaits    *)
(* every plugin, so that calls of the host may overlap, which they do here   *)
(* when Overlapping.  up counts the set-ups of a plugin that have not been    *)
(* torn down.                                                              *)
(*                                                                         *)
(* Scheduled work: packages/server/src/tasks.ts.  A run of a task is asked   *)
(* to wind down by the abort signal of the start() it belongs to, which it   *)
(* may ignore; epoch counts those starts.  A stop() awaits the runs in        *)
(* flight for a while, and the scheduler may be started anew.                *)
(*                                                                         *)
(* The HTTP server on Node and its graceful close:                          *)
(* packages/server/src/node/index.ts, with the http.Server it drives, which  *)
(* is external: its close() stops accepting, and calls back when its last    *)
(* connection has ended.                                                   *)
(***************************************************************************)
EXTENDS Integers, Sequences, FiniteSets

CONSTANTS Plugins,       \* how many are registered
          MaxStarts,     \* bound on calls of start()
          Overlapping,   \* it is started while another call of it is under way
          Task,
          OnStart,       \* tasks with runOnStart
          MaxEpochs,     \* bound on starts of the scheduler
          Connection

HostAssumption ==
    /\ Plugins \in Nat \ {0} /\ MaxStarts \in Nat /\ Overlapping \in BOOLEAN
    /\ OnStart \subseteq Task /\ MaxEpochs \in Nat

----------------------------------------------------------------------------
\* The plugins.

VARIABLES
    running, started, up, starts,
    booting,     \* the plugins set up by each start() under way, in order of the calls
    tearing      \* teardowns under way: what each has left, and what it answers to

hostVars == <<running, started, up, starts, booting, tearing>>

HostInit ==
    /\ running = FALSE /\ started = << >> /\ up = [p \in 1..Plugins |-> 0] /\ starts = 0
    /\ booting = << >> /\ tearing = << >>

Idle == booting = << >> /\ tearing = << >>

Drop(s, i) == SubSeq(s, 1, i - 1) \o SubSeq(s, i + 1, Len(s))

Start ==
    /\ starts < MaxStarts /\ ~running /\ (Overlapping \/ Idle)
    /\ starts' = starts + 1 /\ booting' = Append(booting, 0)
    /\ UNCHANGED <<running, started, up, tearing>>

\* The setup of the next plugin succeeds...
SetUp(b) ==
    /\ b \in DOMAIN booting /\ booting[b] < Plugins
    /\ LET p == booting[b] + 1
       IN  /\ started' = Append(started, p)
           /\ up' = [up EXCEPT ![p] = @ + 1]
           /\ booting' = [booting EXCEPT ![b] = p]
    /\ UNCHANGED <<running, starts, tearing>>

\* Mutation: what the failed setup had registered is forgotten.
SetUpFailsForgotten(b) ==
    /\ b \in DOMAIN booting /\ booting[b] < Plugins
    /\ up' \in {up, [up EXCEPT ![booting[b] + 1] = @ + 1]}
    /\ tearing' = Append(tearing, Len(started))
    /\ booting' = Drop(booting, b)
    /\ UNCHANGED <<running, started, starts>>

\* ... or throws, before or after it has registered a teardown, and all is undone.
SetUpFails(b) ==
    /\ b \in DOMAIN booting /\ booting[b] < Plugins
    /\ LET p == booting[b] + 1
       IN  /\ up' \in {up, [up EXCEPT ![p] = @ + 1]}
           /\ started' = IF up' = up THEN started ELSE Append(started, p)
           /\ tearing' = Append(tearing, Len(started'))
    /\ booting' = Drop(booting, b)
    /\ UNCHANGED <<running, starts>>

Started(b) ==
    /\ b \in DOMAIN booting /\ booting[b] = Plugins
    /\ running' = TRUE /\ booting' = Drop(booting, b)
    /\ UNCHANGED <<started, up, starts, tearing>>

\* A call while nothing runs, a start() under way included, returns at once.
Stop ==
    /\ running /\ running' = FALSE
    /\ tearing' = Append(tearing, Len(started))
    /\ UNCHANGED <<started, up, starts, booting>>

Less(n) == IF n = 0 THEN 0 ELSE n - 1

\* Mutation: in the order of the set-ups.
TearDownForwards(t) ==
    /\ t \in DOMAIN tearing /\ tearing[t] > 0
    /\ LET i == Len(started) - tearing[t] + 1
       IN  up' = IF i \in DOMAIN started THEN [up EXCEPT ![started[i]] = Less(@)] ELSE up
    /\ tearing' = [tearing EXCEPT ![t] = @ - 1]
    /\ UNCHANGED <<running, started, starts, booting>>

\* The teardowns of one plugin; those that throw are collected and change nothing here.
TearDown(t) ==
    /\ t \in DOMAIN tearing /\ tearing[t] > 0
    /\ LET i == tearing[t]
       IN  up' = IF i \in DOMAIN started THEN [up EXCEPT ![started[i]] = Less(@)] ELSE up
    /\ tearing' = [tearing EXCEPT ![t] = @ - 1]
    /\ UNCHANGED <<running, started, starts, booting>>

\* All of them attempted.  A stop() that timed out returned before, and this goes on.
TornDown(t) ==
    /\ t \in DOMAIN tearing /\ tearing[t] = 0
    /\ started' = << >> /\ tearing' = Drop(tearing, t)
    /\ UNCHANGED <<running, up, starts, booting>>

HostNext ==
    \/ Start \/ Stop
    \/ \E n \in 1..MaxStarts :
        SetUp(n) \/ SetUpFails(n) \/ Started(n) \/ TearDown(n) \/ TornDown(n)

HostSpec == HostInit /\ [][HostNext]_hostVars

----------------------------------------------------------------------------
\* The tasks.

VARIABLES
    scheduling,   \* started
    epoch,        \* how many controllers there have been
    ticking,      \* tasks with a timer
    inFlight,     \* of each task: the epoch of the run in flight, 0 for none
    bodies,       \* of each task: how many of its bodies are running
    stopping,     \* the runs the latest stop() awaits, as <<task, epoch>>
    patience      \* of that stop(): "none", "waiting", "over", or "answered"

taskVars == <<scheduling, epoch, ticking, inFlight, bodies, stopping, patience>>

TasksInit ==
    /\ scheduling = FALSE /\ epoch = 0 /\ ticking = {}
    /\ inFlight = [t \in Task |-> 0] /\ bodies = [t \in Task |-> 0]
    /\ stopping = {} /\ patience = "none"

\* Mutation: no overlap guard.
runOnceAgain(ts) ==
    /\ inFlight' = [t \in Task |-> IF t \in ts THEN epoch' ELSE inFlight[t]]
    /\ bodies' = [t \in Task |-> IF t \in ts THEN bodies[t] + 1 ELSE bodies[t]]

\* runOnce(): the body follows in a microtask; a run in flight makes it a skip.
runOnce(ts) ==
    /\ inFlight' = [t \in Task |-> IF t \in ts /\ inFlight[t] = 0 THEN epoch' ELSE inFlight[t]]
    /\ bodies' = [t \in Task |-> IF t \in ts /\ inFlight[t] = 0 THEN bodies[t] + 1 ELSE bodies[t]]

StartTasks ==
    /\ ~scheduling /\ epoch < MaxEpochs
    /\ scheduling' = TRUE /\ epoch' = epoch + 1 /\ ticking' = Task
    /\ runOnce(OnStart)
    /\ UNCHANGED <<stopping, patience>>

Interval(t) ==
    /\ t \in ticking
    /\ UNCHANGED <<scheduling, epoch, ticking, stopping, patience>>
    /\ runOnce({t})

\* The body ends or throws, and the finally block clears the flag.
RunEnds(t) ==
    /\ inFlight[t] # 0
    /\ inFlight' = [inFlight EXCEPT ![t] = 0]
    /\ bodies' = [bodies EXCEPT ![t] = @ - 1]
    /\ stopping' = stopping \ {<<t, inFlight[t]>>}
    /\ UNCHANGED <<scheduling, epoch, ticking, patience>>

Pending == {<<t, inFlight[t]>> : t \in {u \in Task : inFlight[u] # 0}}

\* Mutation: timers go on.
StopTasksTicking ==
    /\ scheduling /\ scheduling' = FALSE
    /\ stopping' = Pending
    /\ patience' = IF Pending = {} THEN "answered" ELSE "waiting"
    /\ UNCHANGED <<epoch, ticking, inFlight, bodies>>

\* stop(): timers cleared, signal aborted, and the runs in flight awaited.
StopTasks ==
    /\ scheduling /\ scheduling' = FALSE
    /\ ticking' = {}
    /\ stopping' = Pending
    /\ patience' = IF Pending = {} THEN "answered" ELSE "waiting"
    /\ UNCHANGED <<epoch, inFlight, bodies>>

StopAnswers ==
    /\ patience = "waiting" /\ stopping = {} /\ patience' = "answered"
    /\ UNCHANGED <<scheduling, epoch, ticking, inFlight, bodies, stopping>>

StopTimesOut ==
    /\ patience = "waiting" /\ patience' = "over" /\ stopping' = {}
    /\ UNCHANGED <<scheduling, epoch, ticking, inFlight, bodies>>

TasksNext ==
    \/ StartTasks \/ StopTasks \/ StopAnswers \/ StopTimesOut
    \/ \E t \in Task : Interval(t) \/ RunEnds(t)

\* The budget of a stop() is over some time.
TasksFairness == WF_taskVars(StopAnswers \/ StopTimesOut)

TasksSpec == TasksInit /\ [][TasksNext]_taskVars /\ TasksFairness

----------------------------------------------------------------------------
\* The server on Node.

VARIABLES
    listening, closing,
    open,        \* connections
    handling,    \* those whose request a handler has
    refused,     \* those answered 503 after close()
    counted,     \* inFlight
    drain,       \* of close(): "none", "waiting", "drained" or "timed out"
    closed       \* close() has been answered

serverVars == <<listening, closing, open, handling, refused, counted, drain, closed>>

ServerInit ==
    /\ listening = FALSE /\ closing = FALSE /\ open = {} /\ handling = {} /\ refused = {}
    /\ counted = 0 /\ drain = "none" /\ closed = FALSE

Listen ==
    /\ ~listening /\ ~closing /\ listening' = TRUE
    /\ UNCHANGED <<closing, open, handling, refused, counted, drain, closed>>

Connect(c) ==
    /\ listening /\ c \notin open
    /\ open' = open \cup {c}
    /\ UNCHANGED <<listening, closing, handling, refused, counted, drain, closed>>

\* A request on an open connection: refused once closing, handled otherwise.
Accept(c) ==
    /\ c \in open \ handling
    /\ IF closing
       THEN refused' = refused \cup {c} /\ UNCHANGED <<handling, counted>>
       ELSE handling' = handling \cup {c} /\ counted' = counted + 1 /\ UNCHANGED refused
    /\ UNCHANGED <<listening, closing, open, drain, closed>>

Waiters(n) == IF n = 0 /\ drain = "waiting" THEN "drained" ELSE drain

\* Mutation: a request that fails is not counted out.
settleInFlightOnSuccess(c, ok) ==
    /\ counted' = IF ok THEN counted - 1 ELSE counted
    /\ drain' = Waiters(counted')

settleInFlight(c, ok) ==
    /\ counted' = counted - 1
    /\ drain' = Waiters(counted')

\* handleRequest() settles: answered, failed, or its connection gone.
Settle(c, ok) ==
    /\ c \in handling
    /\ handling' = handling \ {c}
    /\ settleInFlight(c, ok)
    /\ UNCHANGED <<listening, closing, open, refused, closed>>

\* The other end goes, and the signal of a handler is aborted, which it may ignore.
Disconnect(c) ==
    /\ c \in open
    /\ open' = open \ {c} /\ refused' = refused \ {c}
    /\ UNCHANGED <<listening, closing, handling, counted, drain, closed>>

Close ==
    /\ ~closing
    /\ closing' = TRUE /\ listening' = FALSE
    /\ drain' = IF counted > 0 THEN "waiting" ELSE "drained"
    /\ UNCHANGED <<open, handling, refused, counted, closed>>

TimeOut ==
    /\ drain = "waiting" /\ drain' = "timed out"
    /\ UNCHANGED <<listening, closing, open, handling, refused, counted, closed>>

\* Mutation: connections that idle are left to the other end.
CloseAllNone ==
    /\ drain \in {"drained", "timed out"} /\ ~closed /\ open = {}
    /\ closed' = TRUE
    /\ UNCHANGED <<listening, closing, open, handling, refused, counted, drain>>

\* closeAllConnections(), after which the server's close() calls back.
CloseAll ==
    /\ drain \in {"drained", "timed out"} /\ ~closed
    /\ open' = {} /\ refused' = {} /\ closed' = TRUE
    /\ UNCHANGED <<listening, closing, handling, counted, drain>>

ServerNext ==
    \/ Listen \/ Close \/ TimeOut \/ CloseAll
    \/ \E c \in Connection :
        Connect(c) \/ Accept(c) \/ Disconnect(c) \/ \E ok \in BOOLEAN : Settle(c, ok)

\* The timer of close() fires and Node goes on; handlers and clients need not.
ServerFairness == WF_serverVars(TimeOut) /\ WF_serverVars(CloseAll)

ServerSpec == ServerInit /\ [][ServerNext]_serverVars /\ ServerFairness

----------------------------------------------------------------------------
\* Every variable keeps its type.
HostTyped ==
    /\ running \in BOOLEAN /\ started \in Seq(1..Plugins)
    /\ up \in [1..Plugins -> 0..MaxStarts] /\ starts \in 0..MaxStarts
    /\ booting \in Seq(0..Plugins) /\ tearing \in Seq(Nat)

\* "a failed boot leaves no connections or timers running": a host that has settled
\* has all of its plugins up, once each, or none.
AllOrNothing ==
    Idle => up = [p \in 1..Plugins |-> IF running THEN 1 ELSE 0]

\* "Setup in registration order, teardown in strict reverse."
StrictReverse ==
    [][\A p \in 1..Plugins : up'[p] < up[p] => \A q \in p + 1..Plugins : up[q] = 0]_hostVars

\* Every variable keeps its type.
TasksTyped ==
    /\ scheduling \in BOOLEAN /\ epoch \in 0..MaxEpochs /\ ticking \subseteq Task
    /\ inFlight \in [Task -> 0..MaxEpochs] /\ bodies \in [Task -> Nat]
    /\ stopping \subseteq Task \X (1..MaxEpochs)
    /\ patience \in {"none", "waiting", "over", "answered"}

\* A task never overlaps itself, whatever stops and starts come in between.
NoOverlap == \A t \in Task : bodies[t] = (IF inFlight[t] = 0 THEN 0 ELSE 1)

\* A stop() that has answered in time, with nothing started since, leaves nothing
\* running; while stopped, no run begins.
Quiet ==
    /\ ~scheduling /\ patience = "answered" => \A t \in Task : inFlight[t] = 0
    /\ ~scheduling => ticking = {}

\* Every stop() returns.
StopReturned == patience # "waiting"
StopReturns == []<>StopReturned

\* Every variable keeps its type.
ServerTyped ==
    /\ listening \in BOOLEAN /\ closing \in BOOLEAN /\ closed \in BOOLEAN
    /\ open \subseteq Connection /\ handling \subseteq Connection /\ refused \subseteq open
    /\ counted \in Nat
    /\ drain \in {"none", "waiting", "drained", "timed out"}

\* A close that did not time out cuts no handler off: it drains "in-flight requests
\* before terminating" (contract.ts:106).
Graceful == counted = Cardinality(handling) /\ (drain = "drained" => handling = {})

\* close() is answered, whatever clients and handlers do.
CloseReturned == closing => closed
CloseReturns == []<>CloseReturned
=============================================================================
