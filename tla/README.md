# Effuse in TLA+

Effuse is a TypeScript framework for web applications: signals and effects, a
component renderer, a router, stores, queries, server rendering, sessions and
sign-in.  This directory holds TLA+ models of the parts whose correctness lies in
the order in which things happen, the TLC configurations that check them on small
instances, and proofs checked by TLAPS that some results hold for every instance.

Each module is translated from the source it names and says in its header comment
what it leaves out.  `PROJECT.json` maps every definition to the lines it stands
for, lists the runs with their properties, and gives for every property a mutation
of the model - a plausible bug of that code - that the run must detect.

To check a module or a proof:

    tlc -config MCAnswers.cfg MCAnswers.tla
    tlapm ClientProofs.tla

## Inventory

JavaScript runs one callback at a time, so within one program the hard behaviours
are not preemption but what happens at the seams: state read before an `await`, a
timer or a callback and used after it, code of the application that is called in
the middle of an operation and calls back, answers that arrive late, and requests
that were given up and go on.  Between programs (tabs of a browser, replicas of a
server) nothing but messages or a store is shared.

| Component | Source | State | Operations | Hard behaviours | Correct when |
| --- | --- | --- | --- | --- | --- |
| Leader election | core/src/sync/leader.ts | term, role, last sign of a leader, timers | join, heartbeat, election timeout, message handlers, dispose | concurrent candidates, delayed messages, suspended and dying tabs | one leader once things settle, a leader in the end |
| Synced signal | core/src/sync/synced-signal.ts, transport.ts | value with its stamp, highest stamp seen | write, adopt, reconcile on wake | concurrent writes, late tabs, lost messages, effects that write back | tabs agree, nothing newer is replaced by something older |
| Reactive graph | core/src/reactivity/dep.ts, signal.ts, computed.ts | subscribers, versions, dirty flags, pending effects | read, write, batch, subscribe, dispose | diamonds, effects that write, exceptions half way | what is read is what the getters would compute now |
| watchEffect | core/src/effects/effect.ts | schedule flags, cleanups, generation | run, trigger, debounce, pause, stop | late cleanups, bodies that stop their effect, throw or wait | each cleanup runs once, the last change is seen |
| Optimistic mutations | core/src/reactivity/optimistic.ts | base, queue of pending changes | mutate, commit with retries, roll back, dispose | answers after a rollback, effects inside a write | the value is the base with the pending changes over it |
| asyncComputed | core/src/reactivity/async-computed.ts | run number, abort signal, state | run, supersede, retry, refresh, dispose | late results, waiters | what rests is the result of the newest run |
| Query | query/src/core/query.ts | run, promise, controller, state, observers, collection timer | fetch, cancel, invalidate, observe, collect | shared runs, cancelled runs that go on, retries | one run, a true spinner, no word from cancelled runs |
| Infinite query | query/src/hooks/useInfiniteQuery.ts | pages, controller, fetch status | next, previous, refetch, cancel | overlapping runs over old pages | pages follow one another, a refetch shows fresh pages |
| Mutation hooks | query/src/hooks/useMutation.ts | generation, active request, snapshot | mutate, reset, dispose, roll back | late answers, calls from effects | one active call, no change of a failed call stays |
| Sign-in through a provider | auth/src/server/oauth/flow.ts | one record per flow in the store, a cookie in the browser | start, callback | callbacks that come twice or in another browser, several tabs with one cookie, answers that clear each other's cookie, failing requests | a code is presented once, whoever is signed in began in that browser, nobody is refused without a reason |
| Signing keys | auth/src/server/oauth/jwks.ts | cached set, its age, the last attempt, the fetch under way | get | keys that change during a fetch, shared and failing fetches, the interval between refetches | a retired key does not last, a published one is found |
| Token refresh | auth/src/server/oauth/refresh.ts | in-flight attempts, lock, grant and tombstone records | remember, getAccessToken, forget | replicas, lapsing locks, lost answers of the provider | a refresh token is used once, a healthy grant survives |
| Session engine | auth/src/server/session-engine.ts | session records with successor and overlap | issue, read, rotate, destroy | concurrent requests over whole records | ceilings hold, nobody is signed out by a race |
| Passwords | auth/src/server/credentials.ts, password-reset.ts | hash, failures, lock, link | sign in, change, redeem a link | requests between a read and its write | the open sessions are the current password's, a replaced one stays replaced |
| Session store | auth/src/server/storage-session-store.ts | lock record, records, subject index | acquire, release, write, destroy | a driver without transactions, an index that lapses by itself | no two holders but by an overtaken write, a sign-out misses only what was being written |
| Middleware pipeline | core/src/ssr/middleware-pipeline.ts, middleware-runtime.ts, server-routing.ts | request, chain, rewrites, runtimes, deferred cleanups | delegate, short-cut, rewrite, dispatch, clean up, dispose, refresh | rewrites that meet other guards, failures at any depth, refreshes that outlive their request | no handler without its guards while the kind and the method stay, every request answered and left clean |
| Route table | core/src/routing/route-pattern.ts, route-trie.ts | patterns, trie | register, match | overlapping static, parameter and catch-all branches | the trie finds what the scan finds |
| Response and data cache | core/src/ssr/response-cache.ts, data-cache.ts | entries, recency list, tag and variant indexes, runs in flight | handle, store, evict, invalidate, clear | concurrent fills, variants learnt late, entries replaced in place | the indexes describe the entries; no client gets another's variant |
| Plugins, tasks, Node host | server/src/plugins.ts, tasks.ts, node/index.ts | started plugins, runs in flight, open requests | start, stop, run, listen, close | failures half way, overlapping runs, clients that hang | strict reverse teardown, no overlap, a close that returns |
| Layers | core/src/layers/internal/topology.ts, builder.ts, runtime.ts | levels, built layers | validate, build, roll back, dispose | parallel failures, cycles | a layer is up only while all it needs is |
| App mounting | core/src/app/BaseEffuseApp.ts, layers/context.ts | runtime, canvas, mount id, global context | mount, unmount | several apps and remounts over one context | what is shown is the active mount's, the context is alive |
| DOM renderer | core/src/services/dom-renderer/mount.ts, hydration-cursor.ts | mounted nodes, positions, cursor | mount, patch, adopt | children of no, one or many nodes; merged texts | the page is what a fresh mount would make |
| Error boundaries | core/src/components/ErrorBoundary.ts, services/dom-renderer/mount.ts | the error, deferred mounts, notifications | capture, escalate, show the fallback, reset, dispose | errors while rendering fallbacks, cleanups that overtake mounts | what was thrown is shown somewhere, nothing is left behind |
| Suspense | core/src/suspense/Suspense.ts | tokens awaited, fallback flag, last content | render, catch a token, settle, unmount | resources that settle when the children need others | the fallback while something is missing, the children's own content otherwise |
| Keyed lists | core/src/components/For.ts, TransitionGroup.ts | nodes of the last pass with their keys | pass over the list, enter, move, exit | callbacks that throw half way | the children are the list's, a node lasts as long as its key |
| Stores | store/src/core/store.ts, handlers/operations.ts | two copies of the state, batch depth, tokens of actions | assign, batch, update, reset, act, restore | calls from effects and subscribers in the middle of an operation | all that follows the state has caught up in the end |
| Await | core/src/components/Await.ts | promise id, state | render, start, refresh, dispose | late promises | the newest promise is shown |
| Asynchronous derivations | store/src/reactivity/derived.ts, selectors.ts | token, pending | update, clean up | late selectors, synchronous stores | the newest update is shown |
| useConcurrency | store/src/actions/useConcurrency.ts | running task, queue, timers | call, switch, queue, dispose | calls that overlap, dispose in between | one task, nothing after disposal, the queue is served |
| Locales | i18n/src/i18n.ts | locale, translations, shared loads | setLocale, addTranslations | loads that fail or end late | the newest locale asked for, with its translations |
| Navigation | router/src/core/router.ts, navigation/guards.ts, core/history.ts | navigation id, route, history | push, guards, redirect, traverse, commit | overtaken navigations, redirect loops | the route is where the history is, the newest wins |
| Router view | router/src/components/RouterView.ts, core/route.ts | key shown, cached modules | follow the route, load a component | components that load late or fail | the page of the route, with what became of its component |

The remaining components - listed with their reasons in `PROJECT.json` - fall into
four groups: pure transformations (parsers, matchers, schema, validators, rendering
to strings, the compiler and the command line tools), types, test support, and
stateful parts no module models yet (see *Plan* and *Not modelled*).

How they interact: a component's effects and computed signals live in the reactive
graph; asyncComputed, optimistic mutations, synced signals and the query hooks
write signals and are called back by effects that run inside those writes; hooks
are disposed of by the component that owns them.  Query hooks go through a client
that owns the queries; optimistic mutation hooks write the client's own cache.
Token refresh and the session engine run in every replica and meet only in the
session store.  Where one module uses another part it takes that part's promise:
TokenRefresh and AuthSessions assume the atomic operations and the one-holder lock
of `contract.ts`, and StoreLock asks how far the store on a plain driver keeps it.
On a server a request is matched against the route table, runs the middleware
pipeline in a scope and a runtime of its own, and may be answered by the cache;
plugins and tasks live as long as the host.  On a page an app builds its layers,
mounts its components over them, or adopts what the server rendered, and patches
elements as signals change; keyed lists keep the nodes that stay, boundaries show what
failed or is awaited; Await, derivations, locales and the router show what was asked
for last.
## Modules

Constants are what a deployment or an application fixes; what a behaviour may do
differently from another one - which options, which kind of effects, whether calls
overlap, what the driver does - is a variable that `Init` chooses and no action
changes, so one run covers all the settings and a property can say under which of
them it holds.

**LeaderElection** - the heartbeat strategy of leader.ts. Time is kept as ages and
remainders: `silent[t]` is `now() - lastSeenLeaderAt`, timers hold what is left of
them. Messages are in flight for up to `Delay`; suspended tabs fire nothing and
lose what their inbox has no room for. Both timers, the three message handlers,
joining, closing, crashing and time itself are actions.

**SyncedSignal** - tabs with a value, its stamp and an inbox. A write with the
broadcasting effect and the application's own (`Reaction`), an adoption with the
effects it sets off, an answer, and the request of a waking tab are one action
each, as each is one callback.

**Reactivity** - the dependency graph as one record and the code's mutually
recursive functions as operators from graph to graph. Getters and effect bodies are
small programs (read, write, return, throw), so that a diamond with an effect that
writes one of its sources is an instance. *ReadsFresh* compares every read with a
direct evaluation of the getters.

**WatchEffect** - one effect in all its option combinations over one source.
`generation` is the code's counter; cleanups are numbered, so that "run once" and
"not stranded" can be said of each.

**Optimistic** - the queue of entries, runs with retries and backoff, `whenSettled`
round by round, and what effects do while the queue is being written: roll other
mutations back ("gentle"), roll back the one being settled ("meddling"), or throw.

**AsyncComputed** - runs by generation with the source they load, whether they were
told to stop, and what is shown; a loader may ignore its signal, fail, or track a
further dependency at any time.

**Query** - runs with phase, attempt and what they read of a server that changes;
the query's promise, controller, state, observers and collection timer. A run's
end and its `finally` are two steps.

**InfiniteQuery** - runs that keep the pages they found when they were called. A
page is its parameter and the run that fetched it, so that fresh and old pages
differ. `overlap` says whether runs are started under others.

**MutationHook** - the calls of a hook over one cached query. Effects run at two
places inside the hook's operations, where `use = "reacting"` lets them call back.
A "calm" application awaits its calls; a "restless" one does not.

**TokenRefresh** - replicas that go to the store at every await; the provider
rotates tokens or lets them stand, and refuses what it no longer knows; requests
are lost on their way or on the way back.

**SignIn** - browsers with one cookie each, flows and callbacks, each callback between
its awaits: the record read, deleted, the code presented, taken, the answer verified.
The address of a callback may be opened twice and in either browser.

**SigningKeys** - the cached set of keys with the clock, one fetch at a time that reads
the provider's set at some moment, and callers at one of the two awaits of `get()`.

**AuthSessions** - requests between their awaits, each with the record it read and
the time it came in; issue, sliding renewal, rotation with an overlap, sign-out.

**Passwords** - sign-ins, changes and redemptions of one user, one store call a step. A
password is the number of the call that set it. `apart` says that sign-ins do not
overlap what sets passwords, `upgrades` that the first hash is too weak.

**SubjectIndex** - the list of a subject's sessions, read, changed and written back,
one driver call a step; all calls overlap and any driver call may fail. The list has a
time of its own, which a session written again does not renew (storage-session-store.ts:94);
sessions leave by their time or when the driver makes room, at any moment. `usable` is
what a session has left before its ceiling. The histories `beside` and `loose` remember
which sessions were being written while a call held an older copy of the list: these, and
those whose write failed, are the ones `destroyForSubject()` may miss.

**StoreLock**, **Lease** - the lock record on a driver with get, set and delete, and
what the contract promises of it. Attempts overlap and any time may pass between two
driver calls, of an attempt or of a release. The history `robbed` names the processes
that were given the lock between the read and the write of another one, which then
replaced or deleted their record; nothing in the code's steps depends on it.

**RouteTable** - the two algorithms that pick the route of a path: the regular
expressions tried in order of specificity, and the descent of the trie. A run picks a
table of patterns and a path, and both are evaluated. Segments are small letters,
parameters and catch-alls; a path may end in a slash and have empty pieces.

**ServerCache** - entries with their key, base, tags and age, the recency list, the
tag index and the counted rules by which a base key is refined. A request computes
its key when it comes in, joins a run in flight, or starts one; its answer is stored
under the key the answer's own headers name. Time only makes entries stale or expired.

**RequestPipeline** - one request, pass by pass: the chain selected for its path, its
method and the target it came with, the onion of middleware going in and coming out, a
replaced request - a rewrite of the path restarts the selection, a replaced method does
not -, dispatch of what the request has become in its runtime, deferred cleanups and
disposal. What each middleware matches (`covers`) is chosen by `Init`. The cache may
answer instead of the handler, and refresh a stale response behind it: the four `Refresh`
steps run beside the request, which they outlive, and defer in its scope; what comes when
the disposers have begun to run is `missed`.

**ServerHost** - the host's life: plugins are set
up one by one and torn down in reverse, tasks fire on intervals without overlapping
themselves, and the Node server's `close()` races its drain against a timeout.

**LayerBuild** - `deps` is any graph over the layers and over names that do not
exist; validation and the cycle check come first, then levels are computed as the code
does, and the layers of a level are set up at the same time and fail as they like.

**AppMount** - the calls of `mount()` of several apps, each between its awaits, over
the one global context; a runtime remembers the context it replaced.

**DomChildren**, patched - an element with its DOM nodes as a sequence, its previous children and
its next ones; the walk with its two positions is a step per child. *PatchIsRender*
compares the DOM with what a fresh mount of the next children would give.

**DomChildren**, hydrated - the cursor over the children the server rendered, for a client render
that matches it or does not.

**Boundaries** that catch - nested boundaries over children that are functions or
components; the effects of lists run in microtasks, and a microtask may find its
mount gone. `Init` chooses which children, `onError` and fallbacks throw; what is
broken can be mended and broken again.

**Boundaries** that wait (Suspense) - a boundary whose children need one of several resources, each a promise
that may be kept, broken or asked for anew. Both reactions to a promise are steps. The
history `outcome` says what the children did when they were last called; `Returns`
lets them go back to a resource still awaited.

**KeyedList** - one pass of `For` over the list as a fold over its items, with the
function that throws and where; a node is told by its key and the change that made it.
`since` remembers how long a key has been in the list. In the last change nothing throws.

**Store** - the call stack of a store: `frames` holds the operations under way with
the step that comes next, and wherever the code calls the application - effects of a
signal, subscribers, bodies of batches, updates and actions - it may call the store
again. `Manners` says which of these an application does.

**AwaitedValues** - the promise an `Await` shows and the signal an asynchronous
derivation updates, and the locale of an i18n instance with the loads its calls share:
three things that ask again before they were answered; each is shown to implement
**Newest** (see *Refinement*).

**Navigation** - calls of `push()` with hops for redirects, guards that take their
time, the history and its events. A hop has the navigation id the code gives it.

**RouterView** - the outlet of one depth: changes of the route, the queued updates,
components that render, load once, or load at each call, and the answers of both.
`Hasty` lets the route change again before the view has followed.

**Concurrency** - tasks by the call that started them, the queue, the debounce timer
and the throttle, for the four strategies.

### Runs side by side

`MCTabs`, `MCSessions`, `MCTokens`, `MCServer`, `MCScreen` and `MCAnswers` put models
beside each other that share no state, and `MCPage` puts the graph beside `MCScreen`: the variable `part` names the one a
behaviour runs, the others stay as they began. Every step of such a run is an action
of a component's own `Next` (the module lists them one by one, so that each can be seen
to fire), fairness is what the component's `Fairness` asks, and a property of a
component is its own definition, restricted to its `part` where it would not hold of
one that does not run. Properties of the same kind are conjoined: `CallersAreAnswered`,
for instance, is the liveness of four components, and each conjunct has a mutation of
its own. Nothing is composed there: composition proper is `StoreLock` under `Lease`,
three components under `Newest`, and, as promises, the store under `TokenRefresh` and
`AuthSessions`. Where settings make the state space too large, the module that
combines them bounds one of them and says so: the rough effects see one mutation
fewer (`MayMake`), calls that are not awaited are two instead of three (`MayCall`), a
third session exists only where nobody signs out (`MayMint`, `MaySignOut`), one tab
of three opens late (`Latecomers`).

## Refinement

`Lease` states what `contract.ts` promises of a lock in three lines: it is free or
held by one process, it is given when free, and it may always be given back (a
lease ends by release, by lapse, with its holder or by the loss of its record).
`StoreLock` instantiates it with the processes that have a handle within its time and
whose record nobody took from them (`Holders`); `PromiseKept` says that each of the five
driver calls is a step of the lease or none at all, however attempts and releases
overlap.  TLC checks it for three processes, TLAPS proves it for any number.  It is as
much as a driver without compare-and-set gives: a process is `robbed` only by a write of
another one that had read the record before the lock was given, and then there may be two
handles within their time.

`Newest` states in two actions what everything promises that may be asked again before
it was answered: requests are numbered, an answer is shown only if it is the newest
one's, and nothing changes after closing.  `Await`, the derivations and the locale (`AwaitedValues`)
instantiate it - with the promise id, the update and the transition as the number of a
request - although they keep their word in three different ways: by comparing ids, by
cancelling a token, and by comparing the transition before and after a load they may
share with another call.  TLC checks `AwaitIsNewest`, `DerivedIsNewest` and
`LocaleIsNewest`, `ClientProofs` proves them for any number of requests.

## Fairness

Weak fairness is assumed only of what an event loop, a browser or a bounded request
does by itself: timers fire, queued messages and microtasks are delivered, a
suspended tab is woken again, a request ends by its answer or by its timeout.  No
action of the application or of a user is fair, with two exceptions, without which
nothing would be asked for: the application of TokenRefresh keeps asking for its
token, and a process of StoreLock that wants the lock tries again and releases
what it got.  No strong fairness is used.

## Runs

What each configuration checks, under which bounds, and what it shows.

| Run | Configuration | Bounds | Checks | Shows |
| --- | --- | --- | --- | --- |
| tabs | `MCTabs.cfg` | Tab={1, 2, 3}, Value={"a", "b", "c"}, Initial="a", Founders={1, 2, 3}, Reaction=ClampInTab2, MaxClock=1, MaxWrites=2, MaxSleeps=1, Early={2}, Latecomers={1}, CrowdTab={1, 2, 3}, CrowdHeartbeat=1, CrowdTimeout=2, CrowdCrashes=1, CrowdSplitCap=3, PairTab={1, 2}, PairHeartbeat=2, PairTimeout=4, PairDelay=1, PairInboxCap=2, PairCrashes=1, PairSuspends=1, PairSplitCap=5 | AllTyped, StampNamesWrite, OpenedTogetherAgree, LeadersGiveWay, HoldsLater, ElectsOne | Tabs that write, sleep, close and open late never reuse a stamp or go back to an older version, and those opened together end up with one value; tabs that join, leave, crash or sleep elect one leader, and two of them lead together no longer than a heartbeat and its delivery. |
| sessions | `MCSessions.cfg` | Req={q1, q2}, MaxId=3, MaxTime=3, MaxFaults=1, IdleTtl=1, AbsoluteTtl=3, Overlap=1, RenewAfter=1, Caller={r1, r2}, Session={s1, s2}, IndexTtl=2, Ceiling=2, Client={p1, p2}, Threshold=2, LockTime=1, LinkTtl=1, MaxCalls=4, MaxClock=2 | AllTyped, LifetimesHold, PasswordsAgree, SignOutIsTotal | Two requests at a time read, renew and rotate sessions while the user signs out and a write fails; sessions are written, written again, removed and signed out through an index with a time of its own, by calls that overlap and fail at any driver call; two requests at a time sign in, change the password and redeem links. |
| tokens | `MCTokens.cfg` | Process={p1, p2, p3}, None=None, Ttl=2, MaxCrashes=1, Replica={r1, r2}, MaxGrants=1, MaxTokens=3, MaxFaults=1, Browser={b1, b2}, Flow={1, 2}, Callback={1, 2}, MaxFailures=1, Caller={c1, c2}, Key={k1, k2}, CacheTtl=2, MinRefetch=2, Latency=1, MaxTime=5, MaxRotations=1, MaxBlips=1 | TokensHold, PromiseKept, HoldersReplaced | Two replicas refresh one session, with and without rotation, while its user forgets it or revokes consent, a request fails, a replica dies with the lock or an exchange outlasts it; three processes ask for a lock at once, confirm it, release it, die and let their time lapse between any two driver calls; but for those whose record a writer of an older read took from them, the lock is the one-holder lease of the contract. Two browsers sign in through a provider that keeps, publishes and retires its keys, with callbacks opened twice or elsewhere and requests that fail. |
| server | `MCServer.cfg` | Path={"a", "b", "c", "r"}, Reserved={"r"}, Method={"GET", "POST"}, Safe={"GET"}, Handled={"a", "b", "r"}, Cached={"b"}, Scopes=RouteScopes, Middlewares=2, MaxRewrites=1, Static={"a"}, Tables=RouteTables, Pathnames=RoutePaths, Base={"p", "q"}, Header={"x", "y"}, None="none", TagsOf=TwoTags, MaxEntries=2, MaxRuns=2, Plugins=3, MaxStarts=2, Task={"t1", "t2"}, OnStart={"t1"}, MaxEpochs=2, Connection={"c1", "c2", "c3"} | AllTyped, TrieIsScan, IndexesAgree, GuardsRan, LeavesNothing, HostsWindDown, ServersAnswer | Every table of three routes finds in the trie what the scan finds; entries with tags and variants come, age and go under concurrent requests; requests are rewritten, replaced by others of another method, aborted, guarded for paths, methods and targets, answered from the cache with a refresh behind them, and fail; plugins, tasks and a Node server start, fail and stop. |
| screen | `MCPage.cfg` | Options=AllOptions, MaxWrites=2, MaxPauses=1, NLayers=3, Dependencies=AllDependencies, App={"a1", "a2"}, MaxMounts=3, Depth=2, Kids=2, Components={4}, MaxChanges=2, MaxResets=2, Resource={"a", "b"}, None="none", MaxSwitches=3, MaxRefetches=1, Keys=TheKeys, Declared={"a"}, Signal={"a", "b"}, Cell={"left", "right", "top"}, Fx={"seeTop", "copy"}, Value={0, 1}, Default=0, Manners=TheManners, MaxCalls=3 | GraphIsFresh, AllTyped, NothingStranded, StateIsFresh, LiveOnLive, PageHolds, PageIsRender, ScreenCatchesUp | Computeds over a diamond with a conditional branch and an effect that writes a source, read, observed, stopped, disposed of and batched; every kind of effect against changes, pauses and stops; graphs of three layers built level by level, with failures; operations of a store nested in batches, subscribers and effects, and its actions; two apps mounted, remounted and unmounted over one layer context; elements patched in place and server markup adopted; two nested boundaries whose children and callbacks throw; a boundary that waits for resources which change, fail and are asked for anew; keyed lists whose functions throw. |
| answers | `MCAnswers.cfg` | Mutation=Handles, MaxMutations=3, MaxSources=2, MaxLoads=3, Before=1, After=1, MaxPages=5, Timed=TRUE, Hook={"hook"}, MaxTasks=4, Path={"a", "b", "c"}, Home="a", MaxNavigations=2, Stages=1, Records=OneRedirects, GuardsRedirect=TRUE, RoutePage={"a", "b"}, None="none", MaxChanges=2, MaxRetries=1, Reconciles=TRUE, Effects={"gentle", "meddling", "throwing"}, Observer={o1, o2}, MaxRuns=4, Retries=1, MaxWrites=1, MaxFetches=4, Language={"en", "fr", "de"}, Default="en", MaxCalls=3, MaxUpdates=4 | AllTyped, MutationsEndOnce, LoadsAreCurrent, FetchingIsTrue, QueriesShowTruth, WorkIsOrderly, CancelledIsSilent, AwaitIsNewest, DerivedIsNewest, LocaleIsNewest, NavigationHolds, CallersAreAnswered | What asks and is answered later: optimistic mutations, loads, queries, pages, mutation hooks, promises on the page, derivations, locales, navigations, the components of routes and concurrent actions, answered late, in any order, superseded, cancelled, retried and disposed of. |
| synced_late | `MCSyncedLate.cfg` (violated) | Tab={1, 2}, Value={"a", "b", "c"}, Initial="a", Founders={2}, Reaction=NoReaction, MaxClock=2, MaxWrites=1, MaxSleeps=1, Early={2}, Latecomers={1}, CrowdTab={1, 2, 3}, CrowdHeartbeat=1, CrowdTimeout=2, CrowdCrashes=1, CrowdSplitCap=3, PairTab={1, 2}, PairHeartbeat=2, PairTimeout=4, PairDelay=1, PairInboxCap=2, PairCrashes=1, PairSuspends=1, PairSplitCap=5 | WritesOutliveDefaults | A tab that opens after another one stamps its untouched initial value with the time it opened; its answer to a request replaces a written value. |
| reactive_throw | `MCReactiveThrow.cfg` (violated) | Signal={"a"}, Cell={"sum"}, Fx={}, Value=Bits, Initial=Zeros, Getter=FailingGetter, Body=NoBody, MaxWrites=2, MaxReads=2 | ReadsFresh | An unobserved computed whose getter throws while it is revalidated answers the next read with the value it had before. |
| guards_skipped | `MCGuardsSkipped.cfg` (violated) | Path={"a", "b", "c", "r"}, Reserved={"r"}, Method={"GET", "POST"}, Safe={"GET"}, Handled={"a", "b", "r"}, Cached={"b"}, Scopes=RouteScopes, Middlewares=2, MaxRewrites=1, Static={"a"}, Tables=RouteTables, Pathnames=RoutePaths, Base={"p", "q"}, Header={"x", "y"}, None="none", TagsOf=TwoTags, MaxEntries=2, MaxRuns=2, Plugins=3, MaxStarts=2, Task={"t1", "t2"}, OnStart={"t1"}, MaxEpochs=2, Connection={"c1", "c2", "c3"} | DestinationGuarded | A rewrite from an action to a route reaches the route's handler without the middleware that covers the route, as the chain is selected for the target the request came with. |
| sessions_destroyed | `MCSessionsDestroyed.cfg` (violated) | Req={q1, q2}, MaxId=2, MaxTime=2, MaxFaults=0, IdleTtl=2, AbsoluteTtl=3, Overlap=1, RenewAfter=1 | DestroyedStaysDead | A renewal or a rotation under way at sign-out writes the session's record back. |
| variant_shared | `MCVariantShared.cfg` (violated) | Path={"a", "b", "c", "r"}, Reserved={"r"}, Method={"GET", "POST"}, Safe={"GET"}, Handled={"a", "b", "r"}, Cached={"b"}, Scopes=RouteScopes, Middlewares=2, MaxRewrites=1, Static={"a"}, Tables=RouteTables, Pathnames=RoutePaths, Base={"p", "q"}, Header={"x", "y"}, None="none", TagsOf=TwoTags, MaxEntries=2, MaxRuns=2, Plugins=3, MaxStarts=2, Task={"t1", "t2"}, OnStart={"t1"}, MaxEpochs=2, Connection={"c1", "c2", "c3"} | VariantsKept | Two concurrent requests for a route whose answer varies by a header share the first one's answer, because the cache has not learned the header yet. |
| patched_wrong | `MCPatched.cfg` (violated) | Value={1, 2}, Kinds={"text", "p", "nested"}, MaxChildren=2, Letter={}, MaxRendered=0 | PatchIsRender | A re-render of a nested component and the text after it writes the text into a node of the component. |

## What breaks outside the assumptions

A property that names a setting fails outside it, because of what the code does.
The six runs that expect a violation keep the disagreements with the repository's
own words that weigh most; the following were met while modelling and can be seen
by changing the formula or the constant given.

- *Two leaders within an instant* (leader.ts:250): a tick that follows a smaller
  id's claim overwrites `known`, and both confirm. Check
  `Cardinality(AwakeLeaders) <= 1` as an invariant of `tabs`.
- *A reaction is not shared* (synced-signal.ts:284): what an effect writes while a
  peer's value is adopted is neither held nor sent. Check
  `source[t] = local[t].value`.
- *Two sleepers disagree* (synced-signal.ts:256): a request teaches the tab that
  asks, never the one that answers. `MaxSleeps = 2`, `Agreement`.
- *A read inside a batch is old* (computed.ts:75): `ReadsFresh` speaks of the times
  at which no batch is open and no flush is under way.
- *Effects that throw or settle what is being settled* (optimistic.ts:362, :372):
  drop the premise `Gentle` from `RolledBackIsGone` or `ReportedOnce`; an accepted
  mutation is rolled back and stays in the base, or reported both ways. A disposed
  queue never calls `onRollback` (:499), which is why `ReportedOnce` has no converse.
- *A late failure is not stale* (async-computed.ts:414): the value of the old source
  stays after a failed load, with `stale` false. *A loader tracks after disposal*
  (:339): check `disposed => ~watching`.
- *A slow exchange* (refresh.ts:395): drop `~slow` from `SingleFlight`. *A new
  sign-in's tokens are overwritten* (:369) by the exchange of the old grant.
- *A code presented twice* (flow.ts:384): the record is read and then deleted, so two
  callbacks of one address that overlap both send the code; drop `doubled` from
  `CodePresentedOnce`. The store's contract has an atomic `consume` for resets only.
- *Two sign-ins in one browser* (flow.ts:342): the second start replaces the cookie, the
  first callback is refused and its answer clears the cookie by name, so the second is
  refused too; drop `disturbed` from `RefusedForReason`.
- *A burst after a rotation* (jwks.ts:154): the first `get()` of an unknown key begins a
  fetch and sets `lastAttemptAt`; those that follow are refused at once instead of
  waiting for it, although the fetch is shared (:126). Drop `crowded` from
  `PublishedIsFound`. The flow makes a resolver for every callback (flow.ts:539), so
  cache and interval serve only who keeps one.
- *A request between the two writes of a rotation* (session-engine.ts:563) finds no
  successor; a renewal under way when a session is rotated removes its mark (:517)
  and the old id works on; use within `renewAfterMs` of the last recorded one is not
  recorded (:511), so that a session may expire early. `IdleHolds` is one-sided.
- *A refetch under a cancelled run* (query.ts:237) shares its promise, whose answer
  is ignored; *an invalidation under a run* (:261) is cleared by that run.
  `InvalidationSticks` leaves the latter out through `since`.
- *Runs of an infinite query that overlap* (useInfiniteQuery.ts:264, :321): old pages
  come back after a refetch, and pages fetched backwards are not counted.
- *Mutation hooks*: effects that call back leave a promise unsettled
  (useMutation.ts:247; drop `use # "reacting"`); a call that is cancelled keeps its
  optimistic change (:186) and a rollback restores its whole snapshot over others'
  changes (:474; drop `use = "calm"` from `ShownIsTrue`).
- *The lock on a plain driver* (storage-session-store.ts:146, :165): of two attempts that
  both found the lock free the slower one may write after the other has confirmed, and a
  release whose lock lapsed between its two calls deletes the record of the next holder
  (the comment at :161 says it must not): check `\A p, q \in InTime : p = q`. The comment
  at :150 admits the first.
- *The index of a subject* (:93) loses a session that is written between another call's
  read of it and its writing back, or whose own write fails half way: check `loose = {}`
  after `SignOutEnds`. Ids of sessions that expired stay in it as long as new ones come.
- *Guards and rewrites* (server-routing.ts:867): beside the change of kind that
  `guards_skipped` shows, a request replaced by one of another method for the same path is
  not matched again: drop `method # chosen` from `GuardsRan`.
- *A stale response is refreshed in the scope of its request* (server-routing.ts:853): when
  the refresh comes to its handler after the disposers of that request have begun
  (middleware-runtime.ts:155), what the handler defers is never called: drop `late` from
  `LeavesNothing`.
- *The end of a cancelled page request* (useInfiniteQuery.ts:394): a refetch cancels the run
  under way, whose `finally` then says 'idle' while the refetch is out, though
  useInfiniteQuery.test.ts:134 expects `isFetching` to last as long as the fetch: check
  `fetching <=> Quiet` of InfiniteQuery.
- *Patterns with a slash at the end and paths with empty pieces* (the comment at
  server-routing.ts:207 makes no exception): the regular expressions and the trie take
  them differently. Add `""` to the pieces of `RoutePaths`, or `slash |-> TRUE` to
  `Patterns`.
- *Cleanups of a piped request run without the runtime* (server-routing.ts:936 says
  disposers still reach scoped services): the pipeline calls them when the runtime is
  disposed of; check `turn = "cleanup" /\ owed # << >> => Own \in live`.
- *Overlapping calls of a host or an app* (plugins.ts:149, BaseEffuseApp.ts:122):
  with `Overlapping` TRUE, `start()` called while one is under way sets plugins up
  twice, and a mount whose cleanup is awaited is overtaken by the next one. A `start()`
  after a `stop()` that timed out, whose teardown goes on, is such a call.
- *The last to commit is not the last asked for* (router.ts:291): a redirect by a guard is a
  new hop, so that an older navigation that is redirected beats a newer one.
  `WinnerStays` is what guards.test.ts:321 leads one to expect; `NewestHopWins` is what
  holds.
- *Error boundaries* (ErrorBoundary.ts:97): an outer fallback disposes of the boundaries
  within it, and a reset of the outer one brings the same nodes back, which show nothing
  ever after: `ResetRestores` (error-boundary.test.ts:99). A child that throws again
  before its boundary has shown the fallback passes its error on to the outer boundary
  (mount.ts:134): `InnerStaysInner` (the same test, :143). The tests reset a single
  boundary, and their children throw once.
- *Stores* (operations.ts:76): an effect that assigns while selectors are computed leaves
  one computed from the state before (`SelectorsFollow`, manner `{"effects"}`); an effect
  that throws while an update writes leaves the batch open, as there is no `finally`
  (:200; `BatchesEnd`, manner `{"effects", "throws"}`). A reset forgets
  keys that were only assigned in one copy of the state; a superseded run that fails
  deletes its successor's token (store.ts:204).
- *Passwords* (credentials.ts:262): a sign-in that upgrades a weak hash writes the
  password it verified, although another was set meanwhile: drop `apart \/ ~upgrades`
  from `ReplacedForGood`. A session it opens then belongs to the old password: drop
  `apart` from `SessionsAreCurrent`.
- *The router view*: with `Hasty`, a route that changes and changes back before the
  queued update leaves the view at its fallback (RouterView.ts:336); a function that
  returns a new promise at each call may be answered by an older failure; a failed
  promise of a lazy component is kept for good (route.ts:80).
- *Suspense*: with `Returns`, children that go back to a resource still awaited keep
  showing what came in between, without the fallback (Suspense.ts:140). Content that is
  there waits for a resource nobody needs any more (:153), a broken promise shows what
  was rendered before and is told to nobody (:158), what the children read when called
  by a promise is not tracked (:155), and an error they throw in a run of the effect
  leaves it without subscriptions (effect.ts:117).
- *Keyed lists*: `exit` is not called when the list becomes empty (For.ts:166), and
  outside development it is called for every node of the last pass, since seen keys are
  recorded in the check alone (:190): drop `checked` from `EntersAndExits`. Nodes
  entered in a pass that throws are lost, and keys that come twice where nothing checks
  them share a node (TransitionGroup.ts:279).

## What is proved

`TokensProofs`, `SessionsProofs`, `ClientProofs`, `ServerProofs`, `TabsProofs` and
`ScreenProofs` prove what they say of the components and of the composed specification
their run checks, `StoreProofs` of the store; the proofs of the election stand
at the end of the model they are about. A theorem holds for every value of the constants that satisfies the named
assumptions of the models.

Where parts run side by side, each part has an invariant of its own, and a lemma per
part says that its steps keep it; a step of a composed specification is one part's
step and leaves the variables of the others alone (`StepOfParts`), so that the
conjunction of the invariants is inductive. An invariant was checked by TLC before its
proof was begun.

- **LeaderElection.** *The crowd*, any number of tabs under prompt delivery and without
  suspension (`Prompt`): `CrowdInv` says that of a leader and a tab that claims, either the
  leader is about to hear a claim made in this instant, or the other one is about to hear
  the leader (`ClaimsMeet`), and that of two leaders the larger is about to hear the smaller
  (`LeadersMeet`), so that none are two when the instant ends; `OneLeads` says so for every
  timing. *The pair*, two tabs with delayed messages and one suspension: before it, whoever
  waits beside a leader will have heard from it before it leads (`LeaderIsHeard`), or leads
  for no longer than a heartbeat takes to arrive (`SplitIsNew`); after it, the split is no
  older than the smaller leader's timer or that leader's heartbeat is under way
  (`SplitIsBounded`). The premise `Timely` - a message takes less than a heartbeat and than
  the timeout, one suspension - is tight: TLC finds splits that last longer with
  `Delay = Heartbeat`, and with two suspensions. That three tabs without suspension heal as
  fast was model-checked only.
- **TabsProofs, SyncedSignal.** Types by a lemma per message; `StampInv` adds to the two
  stamp invariants that a tab that has not opened yet has sent nothing under its
  name. It is needed because opening lowers the highest stamp to the clock: only
  then does a first write not repeat a stamp. `OnlyForward` follows for each step.
  *Agreement*: `AgreeInv` says that every version held or in flight is on its way to
  every other tab (`Coming`) - held or beaten there, in its queue, or with someone its
  own request, posted or due on waking, will reach -, that no version beats what its
  origin holds (`Owned`), and that what is shown is what is held
  (`Shown`). With empty queues and nobody asleep this leaves one version. The hypotheses:
  tabs are open from the start (a late one stamps its default, see `synced_late`), effects
  leave the initial value alone, and while a tab sleeps no other does, nor has an open
  request waiting there (`OneAsleep`), which one suspension gives (`SleepInv`). TLC shows the last one needed for two tabs already.
- **TabsProofs, the run.** The invariants of the two elections and of the signal, side by
  side; `Pair!Timely` is the hypothesis of `LeadersAlwaysGiveWay`, and the constants of
  `MCTabs` satisfy it and those of `TabsAgree`.
- **ScreenProofs, WatchEffect.** `CleanupInv` says that cleanups not yet run are those
  registered under the current generation, `SchedulingInv` that the scheduled flag
  has a microtask behind it. The synchronous run inside an action is a lemma of its
  own (`RunCleans`), shared by the actions that may run the body.
- **ClientProofs, Optimistic.** `RoughInv` holds whatever effects do and gives types and
  the abortion of abandoned requests. `SettledInv` - the queue is exactly the
  pending mutations - holds where effects are gentle.
- **ClientProofs, Query.** The key is `OneRun`: of all runs only the last may not be over, and
  the promise and the controller the query holds are its own. Shared runs, the
  spinner, and silence after cancellation follow from it.
- **TokensProofs.** The lock: `LockInv` is types and `RecordSays`: the record names whoever
  has a handle within its time and was not robbed of it, and holds at least that time; so
  a free record, or somebody else's, means that there is no such holder. A process that
  has read the record and not written yet remembers who was given the lock meanwhile
  (`given`), which is all its write can take (`WritesRob`). No assumption is made of the
  order or the speed of attempts and releases. Refreshing:
  `RefreshInv` says who may be at the provider while the lock holds (`LockedOut`), what
  the records name (`KnownRecords`, `StillGood`) and that a grant is given up only if it
  was revoked. Signing in: `SignInInv` relates a flow's record, the cookies and the
  codes (`Belong`, `PresentedInv`, `CodeTaken`); that nobody is refused without a reason
  needs to say who has disturbed whom (`Undisturbed`). Keys: `KeysInv` dates the cache
  and the fetch under way, so that what a caller is refused was not there when it asked.
- **SessionsProofs.** The index: a session with time before its ceiling that is not
  `loose` (`Sound`) is in the list, which has at least that time left, or is being written;
  and what a call read of the list holds all of them but those written beside it, so that
  writing the list back loses only what `loose` will name (`Indexed`). That the list lasts
  long enough needs `Ceiling <= Ttl`, as create-auth-server.ts:142 has it. The engine: `EngineInv` says which
  ids were minted and for whom (`Minted`, `Reserved`), that a record is never younger
  than its session (`Dates`) and that a rotation's successor is there before its mark
  (`Linked`). Passwords: `UserInv` keeps sign-ins and changes apart where `apart` says so
  (`KeptApart`), bounds what a wrong attempt has read of the count by who else is
  counting (`Counted`, which is where the number of requests in `LockComes` comes
  from), and orders passwords and links by the calls that made them (`Numbered`, `Links`).
- **ClientProofs, Newest.** One invariant per component, of what it remembers of a
  request and of when it drops it (`Await`: an answer that passed the id check is of
  the current promise), and each action is a step of `Newest` or a stutter.
- **ClientProofs.** The parts of `answers` that the three above leave, and all together.
  *Loads*: `loading` is true exactly while the latest run is under way (`LoadingIsTrue`),
  that run is for the present source (`ForSource`), and what is at rest is its answer
  (`Shown`). *Wrapped actions*: the running task that was not told to stop is the one
  remembered (`Foremost`), and where calls queue the flag stays up while one is busy
  (`InTurn`). *Locales*: whoever was loaded has translations, and what is stored is the
  active call. *Navigations*: ids come from the counter, each once (`Hops`), which is why
  only the newest hop commits. *Derived signals*: only the newest update may be
  uncancelled, and is until `cleanup()`. *Queries*: what an uncancelled run has read is
  not older than the last invalidation it must respect (`StaleInv`). *Infinite queries*:
  what a run will put beside the pages it found adjoins them (`Adjoins`), whatever other
  runs publish meanwhile; where runs do not overlap they are the pages shown
  (`OneAtATime`). *Mutation hooks*: `Awaited` says that awaited calls come one at a time
  and that the snapshot of the one under way shows what an answer must restore. *The
  outlet*: `RenderingsTrue` and `Followed` relate renderings, the promises they wait for
  and the view; they need that no component throws at once (`Mild`), which is the premise
  of `ViewFollowsRoute`.
- **ScreenProofs, LayerBuild.** `BuildInv` relates phases, levels and the roll-back: what is
  being built depends only on what is up, and results are listed in an order in which
  every layer comes after its dependencies, so that taking them down in reverse keeps
  `LiveOnLive`. It holds of every graph, cycles included, as those are refused.
- **ServerProofs, RequestPipeline.** `GuardInv` says how far in the chain a pass is and that
  only a request for the path the chain was selected for is resolved, when the whole chain
  has let it through; `GuardsRan` follows where kind and method are those of the selection
  too. `LeaveInv` says whose runtime is live while who acts, and what is still owed;
  `RefreshInv` the same of a refresh, which can only have been begun by the pass that
  resolved the request, so that no later one begins with what it left.
- **ServerProofs, ServerCache.** `CacheInv`: the indexes describe the entries (`CacheBooks`),
  the key stored last for a path is the one its Vary rule gives (`LastStored`), and a run
  of a response carries a header (`RunsCarry`), which is why a rule is learned exactly with
  a refined key. That eviction makes room needs that a finite order has a tail
  (`TailExists`: the least counterexample among its subsets, by `WFMin`), and the Vary
  counts are cardinalities that a store changes by one and a removal by what it removes.
- **ServerProofs, ServerHost.** `PluginsInv`: what is up is an initial part of the
  registration order - all that was started, or what a teardown has left of it - since at
  most one `start()` or teardown is under way. `TasksInv`: while the scheduler is stopped
  the runs in flight are among those its `stop()` awaits. `NodeInv`: no handler begins
  once a close has drained. The premise is that calls of a host do not overlap
  (`Overlapping` is FALSE in `server`; see above for what happens otherwise).
- **StoreProofs.** `StoreInv` is about the whole call stack, as an operation may be left in
  the middle by anything the application does. `StackInv`: whoever waits lower down waits
  for code the application has, or for the body it gave. `DepthInv`: `batchDepth` counts
  the frames that hold the followers up, unless what throws runs while an update does.
  From these `NoticeInv` and `FollowInv` say what a frame still owes: if the subscribers
  have not been told of the last change, or a selector or the storage is behind, then
  some operation further down will see to it. `CopyInv` says the same key by key of the
  two copies of the state, whose writes an update and a reset make one after the other.
  `SilenceInv` names the one run of the action whose token is alive.
- **ScreenProofs, AppMount.** `MountInv` says which call has what: whose runtime and canvas
  the fields of an app name in each phase of a mount (`MadeInv`, `FieldsInv`), and that
  the context is of a runtime that was built and is not marked (`ContextInv`). As for
  hosts, the premise is that calls of `mount()` for one app do not overlap.
- **ScreenProofs, Suspense.** `SuspenseInv`: whatever the fallback is shown for has a
  reaction to come that will find its token (`pendingTokens`), and while nothing has failed
  what the children did last (`outcome`) says which of the two is shown.
- **ScreenProofs, error boundaries.** `BoundsInv` says who is owed what in the microtask queue:
  what is mounted has its effect, or a microtask that will start it (`RenderingInv`); the
  boundaries around what is mounted have rendered it and are not disposed of, and one
  that has an error is yet to be told (`AroundInv`); so that a boundary or a value that
  does not show what it should has somebody around it who will be told and render it
  anew (`ShowingInv`). That the notifications of a capture are all queued is a lemma about
  ranks in a finite set (`Ranks`), since the model takes the captured boundaries one by
  one, innermost first.
- **ScreenProofs, the run.** The six invariants hold side by side whichever part runs
  (`ScreenInv`); the theorems say of which parts they speak.

Only model-checked: every liveness property (out of reach of the prover); of `server` the
route table (`TrieIsScan`), whose two algorithms are recursive functions of the table: what
they compute for every table is induction over data; and the graph of `screen`
(`GraphIsFresh`), as the operators of Reactivity are recursive. Recursive operators occur in
that module alone, which no proof module uses: `MCPage` adds it to `MCScreen`, and as each of
its behaviours is one of `MCScreen`, the theorems of ScreenProofs hold of them too. Of the
rest of `screen` what is
left to TLC is what patched and hydrated children and keyed lists come to (`PageIsRender`,
`EntersAndExits`), all of them folds over lists.

## Bounds

Bounds limit how often things happen, never which things: every model allows each
operation at any point its guard allows. They were chosen as the least that let
the interesting overlap happen, and one more where TLC finishes in time: two or
three participants (two overlap, the third watches or interferes), one retry (a
first failure and a last), three or four runs of a repeated operation (one cancelled,
one that overtakes it, one that follows). `MC*.tla` modules give values that a
configuration file cannot write. Symmetry is used in MCSessions alone, for the two
requests, where every property is a safety property that names none of them.
`CHECK_DEADLOCK FALSE` is set where all bounded calls may have been made and ended;
each configuration says why.

Sources, runs, pages, tasks, hops and changes of `answers` are constants of `MCAnswers`,
so that its theorems are about every number of them; the records of its router are
any set of functions from paths to paths, and redirect in circles if they like.

Some bounds deserve a word. `MaxSleeps = 1` in `tabs` is a premise of agreement, not
only a size: see *Two sleepers disagree*. `MaxGrants = 1` in `tokens` leaves out a second
sign-in while an exchange of the first is under way, whose tokens that exchange
would overwrite (above); forgetting and revoking the one grant happen at any point.
For the lock time is counted in two instants, so that it lapses before, between and after
any two calls of an attempt or a release, and the three processes contend at every call: one
to be given the lock, one that read before, one that takes it next; one death.
The index has two sessions and two requests: a third session was checked with symmetry
outside the run, and showed nothing else. Its time is two instants, so that it lapses
before, with and after the sessions it lists. Two browsers, two flows and
two callbacks let an address be opened twice, elsewhere, or while its browser signs in
again; the clock of the keys goes past `CacheTtl + Latency` from its first instant on,
with a key published or retired at any of them. `MaxChildren = 2` in `screen`
gives an element that follows or precedes each kind of child; nested components are
left to `patched_wrong`, which fails on them.

On the page, two nested boundaries with two children, one of them a component, are the
least in which an error is captured by either; a store has two keys, one of them
declared, three calls, and four manners; a boundary waits for two resources over three
changes and one refetch, so that each of them may be left and asked for again; lists
are six, of up to three keys, in two windows. Two requests and four calls set, prove and
redeem two passwords; the outlet sees two pages of every kind and two changes.

A request of `server` has two middlewares, which match one path or all, one method or all,
and routes or actions as well; four paths are a cached route, another route, an action and
nobody's; one rewrite brings it from any to any, and one more is refused.

The kinds of children in `screen`, the tables of three routes in `server`, all the
graphs over three layers and every option of an effect are enumerated, not sampled.

## Disagreements with the documentation

A run that expects a violation checks one sentence of a comment, a document or a
test against what the code does. `PROJECT.json` quotes each sentence with its line.

- **synced_late** (core/src/sync/synced-signal.ts:199): The initial value is stamped at: now() although nobody wrote it, so a tab opened later holds a default that beats every earlier write and sends it in answer to a request; the comment at core/src/sync/synced-signal.ts:253 says "Answering unconditionally is right: it resolves against every reply it gets, so more answers make its outcome more correct, not less." The run shows a written value replaced by a default.
- **reactive_throw** (core/src/reactivity/computed.ts:102): revalidate() records the global version before it recomputes, so a getter that throws leaves the cell clean and validated, and the next read returns the value of the old sources without throwing; the comment at core/src/reactivity/computed.ts:77 says unobserved cells "must pull, but a global version that has not moved rules that out in one comparison." The run shows the read.
- **guards_skipped** (core/src/ssr/server-routing.ts:867): The pipeline selects every pass's chain for the target the request came with, and dispatch() finds the handler of a rewritten request anew (:840), so a request for an action that is rewritten to a route runs the route's handler without the middleware scoped to routes (middleware-graph.ts:211); the same goes for the method, as a request replaced by one of another method for the same path is not matched again. The comment at core/src/ssr/middleware-pipeline.ts:104 says "a rewrite can never skip the guards protecting its destination." The run shows a route's handler run past a middleware that covers it.
- **sessions_destroyed** (auth/src/server/session-engine.ts:517): read() and rotate() write back a record that destroy() has deleted meanwhile; the test auth/src/__tests__/session-engine.test.ts:262 says "rejects a destroyed session immediately". The run shows a destroyed session in the store again.
- **variant_shared** (core/src/ssr/response-cache.ts:307): coalesce() shares one execution among all callers of a key, and before the first answer has named the headers it varies by, the key holds none of them; the comment at core/src/ssr/response-cache.ts:120 says they are folded into the key, "otherwise one client's response would be served to another with different negotiated headers." The run shows a client served the response negotiated by another one.
- **patched_wrong** (core/src/services/dom-renderer/mount.ts:410): getDynamicSpanLength() counts the anchor of a nested component and the nodes its own record holds, not those of components nested under it, so a template that re-renders a component followed by a text writes the text to another node; the test core/src/__tests__/render/blueprint-template-reactivity.test.ts:40 says "should rerender direct signal reads in define templates". The run shows a page that is not what the template renders.

## Theorems

| Module | Theorem | Establishes |
| --- | --- | --- |
| TabsProofs | TabsTyped | The signal's and the election's state and messages keep their types, for every set of tabs and values, every reaction, timing and bound. |
| TabsProofs | StampsUnique | A stamp with its origin names one write, and no version held or in flight is above what its origin has seen, although opening a tab lowers its own highest stamp to the clock. |
| TabsProofs | OnlyForward | No step of an open tab, adoption or write, replaces the version it holds by one that does not beat it. |
| TabsProofs | TabsStamped | The same two of the run's specification, in which some tabs open late. |
| TabsProofs | Agrees | Any number of tabs open from the start, whose effects keep the initial value, hold and show the same value once nothing is in flight, if never two of them sleep at a time: what a sleeper missed is with someone its request will reach. |
| TabsProofs | TabsAgree | With at most one suspension, which is what the run allows, nobody needs to be told that sleeps do not overlap. |
| LeaderElection | TypeCorrect | Phases, timers, what is known and what is in flight keep their types, for every timing. |
| LeaderElection | OneLeads | With prompt delivery and no suspension, any number of tabs that join, close and crash have at most one leader at the end of every instant, for every heartbeat and timeout. |
| LeaderElection | SplitsHeal | Of two tabs, with one suspension and messages that take less than a heartbeat and than the timeout, two leaders coexist for no more than a heartbeat and a delivery. |
| TabsProofs | LeadersAlwaysGiveWay | Both of these of the run's two elections. |
| ScreenProofs | TypeCorrect | Types of an effect, for every set of options and every number of changes and pauses. |
| ScreenProofs | CleanupsRunOnce | No cleanup runs twice, and one that has not run belongs to the current run of a live effect. |
| ScreenProofs | StoppedDetached | A stopped effect keeps no subscription and no cleanup, even when its own body stopped it. |
| ScreenProofs | FlagIsHonest | The flag that makes scheduleRun return early always has a microtask to clear it. |
| SessionsProofs | SessionsAreTyped | Every variable of the index, the engine and the passwords keeps its type, for every number of sessions, callers, requests and passwords. |
| SessionsProofs | LifetimesAreKept | However requests interleave with rotations, renewals, sign-outs and failed writes, no session outlives its ceiling or its idle window, a renewal does not move the ceiling, and a rotation leaves a live successor. |
| SessionsProofs | PasswordsAreKept | For any number of requests: sign-ins kept apart leave no session of an older password, a replaced password never comes back, of the calls that prove the same password or redeem the same link one wins, and counts read before others were written delay the lock by no more than the requests there are. |
| SessionsProofs | SignedOutEverywhere | However calls overlap, fail and let the index lapse: when destroyForSubject() returns, a session that is left and has time before its ceiling is one whose write failed, or was under way between some call's read of the index and its writing back. |
| ClientProofs | TypeCorrect | Types and the bound on attempts, whatever effects do. |
| ClientProofs | AbandonedForGood | Whatever effects do, no settled entry stays in the queue and a request that outlives its mutation has been aborted. |
| ClientProofs | ProjectionIsRight | If effects are gentle, the value is the base with exactly the pending changes over it, none shown twice. |
| ClientProofs | NeverResurrected | If effects are gentle, a late answer never brings back a mutation that was rolled back, and each ending is reported once. |
| ClientProofs | QueryTypeCorrect | Every variable of Query keeps its type, and a run that waits has an attempt left. |
| ClientProofs | SharesOneRun | No two runs that count are ever under way, and the one under way can be joined and aborted. |
| ClientProofs | SpinnerIsTrue | fetchStatus is 'fetching' exactly while an uncancelled run is under way. |
| ClientProofs | KeptWhileObserved | No collection is scheduled while a query has an observer. |
| ClientProofs | CancelledForGood | The end of a cancelled run changes nothing of the state. |
| ClientProofs | NoCallOnceCancelled | The query function is not called again for a cancelled run. |
| TokensProofs | AtMostOneHolder | For any number of processes that contend for the lock, deaths and delays between driver calls, and whether or not the driver drops what is over: of two processes with a handle within its time, one was given it between the read and the write of another one's attempt or release. |
| TokensProofs | LockIsLease | But for those, the read, write and confirm protocol refines the one-holder lease of the contract. |
| TokensProofs | ReplicasKeepTokens | For any number of replicas, processes, browsers, keys, exchanges and revocations: requests to the provider never overlap while no lock lapses, a grant nobody revoked is never given up, a forgotten session answers with no token; a sign-in comes from the browser that began it, and only once; a caller is refused only a key that was not published when it asked. |
| TokensProofs | LeaseIsKept | LockIsLease, of the run's specification. |
| ClientProofs | AwaitKeepsPromise | However many promises a component is given and however late each ends, it shows only the last one's, and nothing once disposed of: it refines the abstract Newest. |
| ClientProofs | LocaleKeepsPromise | However many locales are asked for, from storage or the application, the one shown is the last asked for: setLocale refines the abstract Newest. |
| ClientProofs | DerivedKeepsPromise | An asynchronous derivation shows only what its latest update returned: it refines the abstract Newest. |
| ClientProofs | AnswersAreTyped | Every variable of the component that runs keeps its type, for every number of mutations, loads, queries, pages, hooks, locales, updates, calls, hops and components. |
| ClientProofs | MutationsAlwaysEndOnce | AbandonedForGood and NeverResurrected, of the run's specification. |
| ClientProofs | LoadsStayCurrent | For any number of sources, runs and retries: at rest and without an error a load shows the value of its present source, and whatever still runs for nothing has been told to stop. |
| ClientProofs | QueriesStayTrue | A run that read before an invalidation does not undo it; the pages that runs fetch in both directions follow one another, and where runs do not overlap none is older than the last refetch; what calls that are awaited show of the data is what the server did. |
| ClientProofs | WorkStaysOrderly | For every strategy at most one task runs that was not told to stop, and nothing starts once disposed of; pending tells of the newest update; the active locale is translated; the route is where the history is; and the outlet at rest shows what became of the route's component. |
| ClientProofs | NewestNavigationWins | However records lead on and guards redirect, a navigation that commits began its last hop after every one committed before it, so that none is replaced by an older one. |
| ScreenProofs | DependenciesAreUp | For every graph of layers and every failure, a layer is up only while all it depends on is: levels go up in order and come down in reverse. |
| ScreenProofs | NothingStaysUp | A build that failed, or was disposed of, leaves no layer up. |
| StoreProofs | StoreFollows | For every set of keys and values, every number of calls and every application that calls back, throws or fails: subscribers, selectors, the storage and the second copy have caught up when an operation returns, and superseded actions are silent. |
| ScreenProofs | ScreenTyped | Effects, layers, mounts, boundaries, stores and Suspense keep their types on a page whatever runs there, for every value of the constants. |
| ScreenProofs | NothingOutlives | On a page whatever runs there: a cleanup that has not run belongs to the current run, and a layer is up only while all it depends on is. |
| ScreenProofs | StoresStayFresh | StoreFollows, of the run's specification. |
| ScreenProofs | PagesHold | For any number of apps, mounts and layers, however mounts, failures, unmounts and disposals interleave: the global context is alive, what is up is the active mount, whole; no layer outlives a build that failed; and no effect runs of what a boundary, nested to any depth, took down. Lists are left to TLC. |
| ScreenProofs | FailuresAreRender | For any number of resources, switches and refetches a Suspense shows what its children rendered, or the fallback for what is still to come; and for any depth of boundaries, number of children and mix of throwing callbacks, each boundary at rest shows its fallback or its children and no error is lost. The other parts of a page are left to TLC. |
| ServerProofs | GuardsAlwaysRan | For every graph of middleware with any paths, methods and targets, every rewrite and every replaced method: what is resolved for the kind the request came as, and the method its chain was selected for, was let through by every middleware that covers it. |
| ServerProofs | NothingIsLeft | A request that was answered, or failed, has run its disposers and disposed of its runtime, and so has the refresh of a stale response behind it, but for cleanups that refresh deferred when the disposers had begun. |
| ServerProofs | ServersAreTyped | Every variable of the server part that runs keeps its type, for every number of paths, entries, plugins, tasks and connections; the choice of a route is left to TLC. |
| ServerProofs | CachesAgree | For every set of paths, header values and tags and every maxEntries: list, tag index and Vary rules describe the entries, no more than maxEntries are kept, and what was stored last for a path is what its next lookup finds. |
| ServerProofs | HostsAlwaysWindDown | For every number of plugins, starts, tasks and connections: all plugins are up or none once a host has settled, teardown is in strict reverse, no task overlaps itself or outlives a stop() that was answered, and a drained close cut no handler off. |

## Plan

Order of work: first what other parts rest on (reactive graph, effects), then state
shared between programs (tabs, tokens, sessions), then caches and requests, then the
server, the layers, the page and the asynchronous hooks; those are on disk. Next:

1. **Models.** *QueryClient*: the collection of entries by the handlers' cache, what
   an observer reports of a query that changes under it, hydration. *Form*: overlapping
   submissions over the flag and the debounced validation. *Transition*, *KeepAlive*,
   *AsyncBoundary*: timers against toggles, caches of mounted nodes.
   `For.Dynamic` and the states of a TransitionGroup's animations, beside `KeyedList`. `whenLeader` and leadership by
   Web Locks, against the abstract leader.
2. **Composition.** Token refresh over *StoreLock* instead of its promise, so that
   the price of the driver's lock is seen; observers and hooks over *Query*; app
   mounting over *LayerBuild*.
3. **Proofs.** That elections of three tabs with delayed messages heal; agreement with late tabs, if the code stops stamping defaults.

## Not modelled

Parsers, formatters and generators say more to a test than to a model checker and are
left out, as are types, generated files, test support and everything whose state is a
table that is only written at start-up: the markdown parser, the compiler, the command
line tools, schema, JSX, rendering to strings, OpenAPI, error pages, and most of the
conversions of the server. They are the larger part of the repository's lines.
Cryptography, network formats and HTML are data.

Of the parts that are modelled, these steps are left out: observers that throw while
`query.ts` dispatches 'fetch', an `afterEach` hook or an error fallback that throws, a guard
that redirects to a location the router cannot resolve, and `localStorage.setItem` throwing in
`setLocale`.

Stateful parts that no module models are those of *Plan*, `watch` and `watchMultiple`
(callbacks over `watchEffect`), the small hooks over browser events, and the
persistence of stores. Within the modelled parts the header of each module and the
notes in `PROJECT.json` say what is abstracted; the larger omissions are the
properties and events of the DOM renderer, streams and composition of stores, the names of server actions,
access-token formats, and the request and response conversion of the Node server.
