------------------------------- MODULE MCAnswers -------------------------------
(***************************************************************************)
(* What waits for answers on a client, for TLC: optimistic mutations, loads   *)
(* and derived signals, queries and the hooks that change them, awaited       *)
(* promises, translations, wrapped actions, navigations and the router's       *)
(* outlet.  They share no state, so a behaviour runs the one that part names  *)
(* and leaves the others as they were.                                      *)
(***************************************************************************)
EXTENDS Optimistic, Query, AwaitedValues

CONSTANTS
    MaxMutations,
    MaxSources, MaxLoads,              \* of AsyncComputed, and runs of InfiniteQuery
    Before, After, MaxPages, Timed,    \* pages there are beside the first one
    Hook,
    MaxTasks,
    Path, Home, MaxNavigations, Stages, Records, GuardsRedirect,
    RoutePage, None, MaxChanges

VARIABLES
    part,
    \* of AsyncComputed
    options, source, generation, of, try, where, abandoned,
    value, loading, stale, loaded, error, tracked, watching, gone, caller,
    \* of InfiniteQuery
    overlap, pages, hasNext, pageStatus, fetching, fetches, kind, pageBase, param,
    fetchPhase, pageAttempt, stopped, controller, refetched,
    \* of MutationHook
    use, made, owner, callPhase, outcome, snapshot, active, newest, callStatus, hookDisposed,
    starting, finishing, success, entry, accepted,
    \* of Concurrency
    strategy, debounces, throttles, task, told, runningTask, debounceTimeout, throttled,
    workQueue, processingQueue, shut,
    \* of Navigation
    redirect, hashed, navigationId, hop, navOutcome, route, path, events,
    \* of RouterView
    pageKind, throws, activeRoute, changed, lastViewKey, matchedView, queuedUpdates,
    promises, cachedModule, renderings

loads == <<options, source, generation, of, try, where, abandoned,
           value, loading, stale, loaded, error, tracked, watching, gone, caller>>
lists == <<overlap, pages, hasNext, pageStatus, fetching, fetches, kind, pageBase, param,
           fetchPhase, pageAttempt, stopped, controller, refetched>>
changes == <<use, made, owner, callPhase, outcome, snapshot, active, newest, callStatus,
             hookDisposed, starting, finishing, success, entry, accepted>>
work == <<strategy, debounces, throttles, task, told, runningTask, debounceTimeout, throttled,
          workQueue, processingQueue, shut>>
navigations == <<redirect, hashed, navigationId, hop, navOutcome, route, path, events>>
outlet == <<pageKind, throws, activeRoute, changed, lastViewKey, matchedView,
            queuedUpdates, promises, cachedModule, renderings>>

Handles == 1..MaxMutations

\* Every way to start a load, with and without the previous value.
AllOptions == [start : {"immediate", "deferred", "hydrated"}, keepPrevious : BOOLEAN]

Load == INSTANCE AsyncComputed
    WITH Options <- AllOptions, MaxRuns <- MaxLoads, attempt <- try, aborted <- abandoned,
         settled <- loaded, disposed <- gone, waiter <- caller

List == INSTANCE InfiniteQuery
    WITH FirstParam <- -Before, LastParam <- After, MaxRuns <- MaxLoads,
         status <- pageStatus, made <- fetches, phase <- fetchPhase, aborted <- stopped, attempt <- pageAttempt, base <- pageBase

Change == INSTANCE MutationHook
    WITH phase <- callPhase, status <- callStatus, disposed <- hookDisposed

\* Calls that are not awaited are two.
MayCall == use = "calm" \/ made < 2

Wrapped == INSTANCE Concurrency WITH aborted <- told, queue <- workQueue

Router == INSTANCE Navigation WITH Start <- Home, outcome <- navOutcome

\* The record of one route redirects to another one.
OneRedirects == {[p \in Path |-> IF p = "b" THEN "c" ELSE p]}

Outlet == INSTANCE RouterView WITH Page <- RoutePage, Hasty <- FALSE

ASSUME LoadAssumption == Load!OptionsKnown /\ Load!BoundsNatural
ASSUME ListAssumption == List!ConstantsOK
ASSUME ChangeAssumption == Change!ConstantsOK
ASSUME WrappedAssumption == Wrapped!ConcurrencyAssumption
ASSUME RouterAssumption == Router!NavigationAssumption
ASSUME OutletAssumption == Outlet!RouterViewAssumption
ASSUME AwaitsAssumption == AwaitAssumption /\ DerivedAsyncAssumption /\ LocaleAssumption

Parts == {"queue", "load", "query", "pages", "change", "await", "locale", "derive",
          "work", "navigate", "outlet"}

\* What a component that is not run begins with, where it could begin in several ways.
MCAnswersInit ==
    /\ part \in Parts
    /\ IF part = "queue" THEN TRUE ELSE effects = "gentle"
    /\ Init
    /\ IF part = "load" THEN TRUE ELSE options = [start |-> "hydrated", keepPrevious |-> TRUE]
    /\ Load!Init
    /\ QueryInit
    /\ IF part = "pages" THEN TRUE ELSE overlap = FALSE /\ pages = << >>
    /\ List!Init
    /\ IF part = "change" THEN TRUE
       ELSE use = "calm" /\ entry = [there |-> FALSE, data |-> {}, invalid |-> FALSE]
    /\ Change!Init
    /\ IF part = "await" THEN TRUE ELSE ofSignal = FALSE /\ defer = FALSE
    /\ AwaitInit
    /\ LocaleInit
    /\ SelectInit
    /\ IF part = "work" THEN TRUE
       ELSE strategy = "merge" /\ debounces = FALSE /\ throttles = FALSE
    /\ Wrapped!WorkInit
    /\ IF part = "navigate" THEN TRUE ELSE hashed = FALSE
    /\ Router!NavigationInit
    /\ IF part = "outlet" THEN TRUE
       ELSE /\ pageKind = [p \in RoutePage |-> "none"] /\ throws = {}
            /\ activeRoute = CHOOSE p \in RoutePage : TRUE
    /\ Outlet!OutletInit

OfQueue(step) ==
    part = "queue" /\ step
    /\ UNCHANGED <<part, loads, queryVars, lists, changes, awaitVars, localeVars, selectVars,
                   work, navigations, outlet>>
OfLoad(step) ==
    part = "load" /\ step
    /\ UNCHANGED <<part, vars, queryVars, lists, changes, awaitVars, localeVars, selectVars,
                   work, navigations, outlet>>
OfQuery(step) ==
    part = "query" /\ step
    /\ UNCHANGED <<part, vars, loads, lists, changes, awaitVars, localeVars, selectVars,
                   work, navigations, outlet>>
OfPages(step) ==
    part = "pages" /\ step
    /\ UNCHANGED <<part, vars, loads, queryVars, changes, awaitVars, localeVars, selectVars,
                   work, navigations, outlet>>
OfChange(step) ==
    part = "change" /\ step
    /\ UNCHANGED <<part, vars, loads, queryVars, lists, awaitVars, localeVars, selectVars,
                   work, navigations, outlet>>
OfAwait(step) ==
    part = "await" /\ step
    /\ UNCHANGED <<part, vars, loads, queryVars, lists, changes, localeVars, selectVars,
                   work, navigations, outlet>>
OfLocale(step) ==
    part = "locale" /\ step
    /\ UNCHANGED <<part, vars, loads, queryVars, lists, changes, awaitVars, selectVars,
                   work, navigations, outlet>>
OfDerive(step) ==
    part = "derive" /\ step
    /\ UNCHANGED <<part, vars, loads, queryVars, lists, changes, awaitVars, localeVars,
                   work, navigations, outlet>>
OfWork(step) ==
    part = "work" /\ step
    /\ UNCHANGED <<part, vars, loads, queryVars, lists, changes, awaitVars, localeVars,
                   selectVars, navigations, outlet>>
OfRouter(step) ==
    part = "navigate" /\ step
    /\ UNCHANGED <<part, vars, loads, queryVars, lists, changes, awaitVars, localeVars,
                   selectVars, work, outlet>>
OfOutlet(step) ==
    part = "outlet" /\ step
    /\ UNCHANGED <<part, vars, loads, queryVars, lists, changes, awaitVars, localeVars,
                   selectVars, work, navigations>>

\* Where effects are rough, one mutation fewer is made.
MayMake(m) == Gentle \/ m < MaxMutations

QueueNext ==
    \/ \E m \in Mutation :
        \/ OfQueue(Mutate(m) /\ MayMake(m))
        \/ OfQueue(Commit(m))
        \/ OfQueue(CommitThrown(m))
        \/ OfQueue(Fail(m))
        \/ OfQueue(AnswerLate(m))
        \/ OfQueue(BackoffOver(m))
        \/ OfQueue(Rollback(m))
        \/ OfQueue(RollbackThrown(m))
    \/ OfQueue(RollbackAll)
    \/ OfQueue(Dispose)
    \/ OfQueue(WhenSettled)
    \/ OfQueue(WakeUp)

LoadNext ==
    \/ \E g \in Load!Run :
        \/ OfLoad(Load!Resolve(g))
        \/ OfLoad(Load!Reject(g))
        \/ OfLoad(Load!BackoffOver(g))
        \/ OfLoad(Load!Track(g))
    \/ OfLoad(Load!Changes)
    \/ OfLoad(Load!Refresh)
    \/ OfLoad(Load!Dispose)
    \/ OfLoad(Load!WhenSettled)

RunsNext ==
    \/ OfQuery(Write)
    \/ OfQuery(Invalidate)
    \/ OfQuery(Cancel)
    \/ OfQuery(Fetch)
    \/ OfQuery(Collect)
    \/ \E r \in Run :
        \/ OfQuery(Reads(r))
        \/ OfQuery(Succeed(r))
        \/ OfQuery(CallFails(r))
        \/ OfQuery(Retry(r))
        \/ OfQuery(Finally(r))
    \/ \E o \in Observer :
        \/ OfQuery(AddObserver(o))
        \/ OfQuery(RemoveObserver(o))

ListNext ==
    \/ OfPages(List!FetchNextPage)
    \/ OfPages(List!NoNextPage)
    \/ OfPages(List!FetchPreviousPage)
    \/ OfPages(List!Refetch)
    \/ OfPages(List!Cancel)
    \/ \E r \in List!Run :
        \/ OfPages(List!Answer(r))
        \/ OfPages(List!Throw(r))
        \/ OfPages(List!Wake(r))
        \/ OfPages(List!Publish(r))
        \/ OfPages(List!Fail(r))

ChangeNext ==
    \/ OfChange(Change!Refetch)
    \/ OfChange(Change!Evict)
    \/ \E c \in Change!Call :
        \/ OfChange(Change!Begin(c))
        \/ OfChange(Change!Proceed(c))
        \/ OfChange(Change!Answer(c))
        \/ OfChange(Change!Conclude(c))
        \/ OfChange(Change!Accept(c))
    \/ \E h \in Hook :
        \/ OfChange(Change!Mutate(h) /\ MayCall)
        \/ OfChange(Change!Reset(h))
        \/ OfChange(Change!Dispose(h))

NewestAnswersNext ==
    \/ OfAwait(Render)
    \/ OfAwait(Start)
    \/ OfAwait(PromiseChanges)
    \/ OfAwait(AwaitDispose)
    \/ \E p \in PromiseId :
        \/ OfAwait(PromiseSettles(p))
        \/ OfAwait(Deliver(p))
    \/ \E l \in Language :
        \/ OfLocale(setLocale(l))
        \/ OfLocale(LoadEnds(l))
        \/ OfLocale(Forget(l))
        \/ OfLocale(addTranslations(l))
    \/ \E c \in Transition : OfLocale(Resume(c))
    \/ OfDerive(update)
    \/ OfDerive(cleanupDerived)
    \/ \E u \in Update :
        \/ OfDerive(SelectorSettles(u))
        \/ OfDerive(TakeValue(u))
        \/ OfDerive(EndPending(u))

WorkNext ==
    \/ OfWork(Wrapped!TimerFires)
    \/ OfWork(Wrapped!ThrottleOver)
    \/ OfWork(Wrapped!disposeWork)
    \/ \E t \in Wrapped!Work :
        \/ OfWork(Wrapped!CallWrapped(t))
        \/ OfWork(Wrapped!ActionSettles(t))
        \/ OfWork(Wrapped!Finally(t))
        \/ OfWork(Wrapped!TaskOver(t))

RouterNext ==
    \/ OfRouter(Router!Traverse)
    \/ OfRouter(Router!syncRoute)
    \/ \E n \in Router!Nav :
        \/ OfRouter(Router!Allow(n))
        \/ OfRouter(Router!Refuse(n))
        \/ OfRouter(Router!Commit(n))
        \/ \E p \in Path :
            \/ OfRouter(Router!Push(n, p))
            \/ OfRouter(Router!Redirect(n, p))

OutletNext ==
    \/ \E p \in RoutePage : OfOutlet(Outlet!RouteChanges(p))
    \/ OfOutlet(Outlet!updateView)
    \/ \E q \in DOMAIN promises, how \in {"module", "other", "failed"} :
            OfOutlet(Outlet!PromiseSettles(q, how))
    \/ \E r \in Outlet!Rendering :
        \/ OfOutlet(Outlet!Resolved(r))
        \/ OfOutlet(Outlet!Rejected(r))

MCAnswersNext ==
    \/ QueueNext \/ LoadNext \/ RunsNext \/ ListNext \/ ChangeNext \/ NewestAnswersNext
    \/ WorkNext \/ RouterNext \/ OutletNext

\* What the Fairness of each component asks.
MCAnswersFairness ==
    /\ \A m \in Mutation : WF_vars(OfQueue(Answer(m))) /\ WF_vars(OfQueue(BackoffOver(m)))
    /\ WF_vars(OfQueue(WakeUp))
    /\ \A c \in Change!Call : WF_changes(OfChange(Change!Runs(c)))
    /\ WF_work(OfWork(Wrapped!TimerFires))
    /\ \A t \in Wrapped!Work :
        WF_work(OfWork(Wrapped!ActionSettles(t) \/ Wrapped!Finally(t) \/ Wrapped!TaskOver(t)))
    /\ \A n \in Router!Nav : WF_navigations(OfRouter(Router!Answers(n)))

MCAnswersSpec ==
    /\ MCAnswersInit
    /\ [][MCAnswersNext]_<<part, vars, loads, queryVars, lists, changes, awaitVars, localeVars,
                           selectVars, work, navigations, outlet>>
    /\ MCAnswersFairness

----------------------------------------------------------------------------
\* The component that runs keeps its types.
AllTyped ==
    CASE part = "queue" -> TypeOK
      [] part = "load" -> Load!TypeOK
      [] part = "query" -> QueryTyped
      [] part = "pages" -> List!TypeOK
      [] part = "change" -> Change!TypeOK
      [] part = "await" -> AwaitTyped
      [] part = "locale" -> LocaleTyped
      [] part = "derive" -> SelectTyped
      [] part = "work" -> Wrapped!WorkTyped
      [] part = "navigate" -> Router!NavigationTyped
      [] part = "outlet" -> Outlet!OutletTyped

\* loading tells the truth; at rest and without an error, what is shown was loaded for
\* the present source; and whatever still runs for nothing has been told so.
LoadsAreCurrent == part = "load" => Load!RestIsCurrent /\ Load!SupersededAreAborted

\* A mutation that was rolled back shows no more and is reported once, and a request that
\* outlives its mutation was told so.
MutationsEndOnce == RolledBackIsGone /\ AbandonedIsAborted

\* An invalidated query stays so until it is fetched anew; the pages shown follow one
\* another and none is older than the last refetch; and what the server did is what the
\* query shows, if calls are awaited.
QueriesShowTruth ==
    /\ InvalidationSticks
    /\ part = "pages" => List!PagesBelongTogether
    /\ part = "change" => Change!ShownIsTrue

\* At most one task runs that has not been told to stop, nothing starts once disposed of,
\* and pending tells of the newest run; what is active has translations and is what a
\* reload starts with; the route is where the history is; and the outlet, at rest, shows
\* what became of the route's component.
WorkIsOrderly ==
    /\ part = "work" => Wrapped!OneRuns /\ Wrapped!DisposedIsQuiet
    /\ PendingIsTrue /\ ActiveIsTranslated /\ Router!RouteIsPath
    /\ part = "outlet" => Outlet!ViewFollowsRoute

\* A navigation replaces none that began after it (router.ts navigate and syncRoute).
NavigationHolds == Router!NewestHopWins

\* Whoever waits is answered: for a queue to settle, for a mutation, for a wrapped call,
\* for a navigation.
CallersAreAnswered ==
    []<>(NobodyWaits /\ Change!PromisesSettled /\ Wrapped!NothingWaits /\ Router!NothingGuards)
=============================================================================
