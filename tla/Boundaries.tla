------------------------------ MODULE Boundaries -------------------------------
(***************************************************************************)
(* Components that stand for their children when these fail, or are not       *)
(* there yet: packages/core/src/components/ErrorBoundary.ts, with the List,   *)
(* the component and the dynamic value of services/dom-renderer/mount.ts, and *)
(* packages/core/src/suspense/Suspense.ts.  The two share no state.          *)
(*                                                                         *)
(* Error boundaries are nested, 1 the outermost; the children of the last are *)
(* functions or components.  A function throws whenever it is evaluated, a   *)
(* component only in its script, once for every mount.  Mounts are deferred   *)
(* to microtasks; a cleanup can come first.  Hydration, which defers         *)
(* nothing, and cleanups that throw are left out.                            *)
(***************************************************************************)
EXTENDS Integers, SequencesExt

CONSTANTS Depth, Kids,
          Components,              \* the children that are components
          MaxChanges, MaxResets

Boundary == 1..Depth
Kid == (Depth + 1)..(Depth + Kids)
Node == Boundary \cup Kid

BoundariesAssumption ==
    /\ Depth \in Nat \ {0} /\ Kids \in Nat /\ Components \subseteq Kid
    /\ MaxChanges \in Nat /\ MaxResets \in Nat

VARIABLES
    onErrorThrows, fallbackThrows,   \* the boundaries whose callbacks throw
    broken,                          \* the children that throw
    error, scheduled, disposed,      \* of each ErrorState
    offered,                         \* whose reset() the application has seen
    mounts, up,                      \* how often a node was mounted, and whether it still is
    live,                            \* the mounts whose effect runs
    shown,                           \* what each node has put on the page
    pending,                         \* pendingDynamicMounts
    microtasks, changes, resets

boundaryVars == <<onErrorThrows, fallbackThrows, broken, error, scheduled, disposed, offered,
                  mounts, up, live, shown, pending, microtasks, changes, resets>>

Notify(b) == [do |-> "notify", node |-> b, mount |-> 0]
Run(b, m) == [do |-> "run", node |-> b, mount |-> m]
Flush == [do |-> "flush", node |-> 0, mount |-> 0]

\* The root was just mounted.
BoundariesInit ==
    /\ onErrorThrows \in SUBSET Boundary /\ fallbackThrows \in SUBSET Boundary
    /\ broken \in SUBSET Kid
    /\ error = {} /\ scheduled = {} /\ disposed = {} /\ offered = {}
    /\ mounts = [n \in Node |-> IF n = 1 THEN 1 ELSE 0] /\ up = {1} /\ live = {}
    /\ shown = [n \in Node |-> "nothing"]
    /\ pending = << >> /\ microtasks = <<Run(1, 1)>>
    /\ changes = 0 /\ resets = 0

\* captureRenderError() of n errors one after the other, from boundary b upwards: each goes
\* to the nearest boundary that has none yet and whose onError returns.
captureRenderError(b, failed, n) ==
    LET ready == (1..b) \ (failed \cup onErrorThrows)
    IN  {c \in ready : Cardinality({d \in ready : d >= c}) <= n}

\* setError(): the notifications of boundaries that have none coming.
setError(capturing, due) ==
    LET told == capturing \ due
        Rank(c) == Cardinality({d \in told : d >= c})
    IN  [i \in 1..Cardinality(told) |-> Notify(CHOOSE c \in told : Rank(c) = i)]

\* What a List's effect does, the errors being failed and the notifications due those of
\* its boundary's operation: unmount the children, and mount what is to be shown, once
\* more if mounting them fails and it is this boundary's to show.
Render(b, failed, due, queue) ==
    LET gone == {n \in up : n > b}
        kept == failed \ gone
        tries == b \notin disposed \cup kept
        failing == IF tries /\ b = Depth THEN Components \cap broken ELSE {}
        first == captureRenderError(b, kept, IF failing = {} THEN 0 ELSE 1)
        recovers == b \in kept \cup first
        throws == recovers /\ b \in fallbackThrows
        second == captureRenderError(b - 1, kept \cup first, IF throws THEN 1 ELSE 0)
        children == IF ~tries THEN {} ELSE IF b < Depth THEN {b + 1}
                    ELSE {k \in Kid : \A f \in failing : k < f}
        number == [n \in Node |-> IF n \in children THEN mounts[n] + 1 ELSE mounts[n]]
        deferred == [i \in 1..Cardinality(children \cap Kid) |-> <<Depth + i, number[Depth + i]>>]
        \* A boundary that renders is shown its own error, not told of it.
        told == (first \cup second) \ {b}
        quiet == due \ gone
    IN  /\ disposed' = disposed \cup (gone \cap Boundary)
        /\ error' = kept \cup first \cup second
        /\ scheduled' = quiet \cup told
        /\ mounts' = number
        /\ up' = (up \ gone) \cup (IF failing = {} THEN children ELSE {})
        /\ live' = {x \in live : x[1] \notin gone} \cup {<<b, mounts[b]>>}
        /\ shown' = [n \in Node |->
              IF n > b THEN "nothing" ELSE IF n < b THEN shown[n]
              ELSE IF b \in disposed \/ (told # {}) THEN "nothing"
              ELSE IF throws \/ (failing # {} /\ ~recovers) THEN "diagnostic"
              ELSE IF recovers THEN "fallback" ELSE "children"]
        /\ offered' = offered \cup (IF recovers /\ ~throws THEN {b} ELSE {})
        /\ pending' = pending \o deferred
        /\ microtasks' = queue
              \o (IF children \cap Boundary = {} THEN << >> ELSE <<Run(b + 1, number[b + 1])>>)
              \o (IF deferred = << >> \/ Contains(queue, Flush) THEN << >> ELSE <<Flush>>)
              \o setError(told, quiet)

\* The effects of dynamic values ks, one after the other.
Evaluate(ks, now, queue) ==
    LET failing == {k \in ks : k \in now \ Components}
        capturing == captureRenderError(Depth, error, Cardinality(failing))
        Rank(k) == Cardinality({j \in failing : j <= k})
    IN  /\ error' = error \cup capturing
        /\ scheduled' = scheduled \cup capturing
        /\ microtasks' = queue \o setError(capturing, scheduled)
        /\ shown' = [n \in Node |->
              IF n \notin ks THEN shown[n] ELSE IF n \notin failing THEN "value"
              ELSE IF Rank(n) > Cardinality(capturing) THEN "diagnostic" ELSE "nothing"]

Due(do) == microtasks # << >> /\ Head(microtasks).do = do

Nothing == UNCHANGED <<error, scheduled, disposed, offered, mounts, up, live, shown, pending>>

\* Mutation: the deferred effect of a list starts although the list is gone.
RunListBlindly ==
    /\ Due("run")
    /\ Render(Head(microtasks).node, error, scheduled, Tail(microtasks))
    /\ UNCHANGED <<onErrorThrows, fallbackThrows, broken, changes, resets>>

\* The microtask that starts the effect of a list, if that is still mounted.
RunList ==
    /\ Due("run")
    /\ LET run == Head(microtasks) IN
       IF run.node \in up /\ run.mount = mounts[run.node]
       THEN Render(run.node, error, scheduled, Tail(microtasks))
       ELSE microtasks' = Tail(microtasks) /\ Nothing
    /\ UNCHANGED <<onErrorThrows, fallbackThrows, broken, changes, resets>>

\* Mutation: the deferred effects of dynamic values start although they are gone.
FlushMountsBlindly ==
    /\ Due("flush")
    /\ live' = live \cup ToSet(pending)
    /\ Evaluate({p[1] : p \in ToSet(pending)}, broken, Tail(microtasks))
    /\ pending' = << >>
    /\ UNCHANGED <<onErrorThrows, fallbackThrows, broken, disposed, offered, mounts, up,
                   changes, resets>>

\* The microtask that starts the effects of dynamic values.
FlushMounts ==
    /\ Due("flush")
    /\ LET started == {p \in ToSet(pending) : p[1] \in up /\ p[2] = mounts[p[1]]} IN
       /\ live' = live \cup started
       /\ Evaluate({p[1] : p \in started}, broken, Tail(microtasks))
    /\ pending' = << >>
    /\ UNCHANGED <<onErrorThrows, fallbackThrows, broken, disposed, offered, mounts, up,
                   changes, resets>>

\* Mutation: the notification leaves itself scheduled.
NotifiedStill ==
    /\ Due("notify")
    /\ LET b == Head(microtasks).node IN
       IF <<b, mounts[b]>> \in live
       THEN Render(b, error, scheduled, Tail(microtasks))
       ELSE microtasks' = Tail(microtasks) /\ Nothing
    /\ UNCHANGED <<onErrorThrows, fallbackThrows, broken, changes, resets>>

\* The microtask of setError(): the revision changes, and with it what the list shows.
Notified ==
    /\ Due("notify")
    /\ LET b == Head(microtasks).node
           due == IF b \in disposed THEN scheduled ELSE scheduled \ {b} IN
       IF b \notin disposed /\ <<b, mounts[b]>> \in live
       THEN Render(b, error, due, Tail(microtasks))
       ELSE /\ microtasks' = Tail(microtasks) /\ scheduled' = due
            /\ UNCHANGED <<error, disposed, offered, mounts, up, live, shown, pending>>
    /\ UNCHANGED <<onErrorThrows, fallbackThrows, broken, changes, resets>>

\* Signals change, and the functions that read them run again.
Change ==
    /\ changes < MaxChanges /\ changes' = changes + 1
    /\ broken' \in SUBSET Kid \ {broken}
    /\ Evaluate({k \in Kid \ Components : /\ <<k, mounts[k]>> \in live
                                          /\ (k \in broken) # (k \in broken')},
                broken', microtasks)
    /\ UNCHANGED <<onErrorThrows, fallbackThrows, disposed, offered, mounts, up, live, pending,
                   resets>>

\* reset(), from the fallback or kept from an earlier one.
Reset(b) ==
    /\ resets < MaxResets /\ resets' = resets + 1
    /\ b \in offered \ disposed
    /\ IF <<b, mounts[b]>> \in live
       THEN Render(b, error \ {b}, scheduled, microtasks)
       ELSE /\ error' = error \ {b}
            /\ UNCHANGED <<scheduled, disposed, offered, mounts, up, live, shown, pending,
                           microtasks>>
    /\ UNCHANGED <<onErrorThrows, fallbackThrows, broken, changes>>

\* The whole is unmounted: every list and dynamic value under the root cleans up, and every
\* boundary is disposed of.
Unmount ==
    /\ up # {}
    /\ up' = {} /\ live' = {x \in live : x[1] \notin up}
    /\ shown' = [n \in Node |-> "nothing"]
    /\ disposed' = disposed \cup (up \cap Boundary)
    /\ error' = error \ up /\ scheduled' = scheduled \ up
    /\ UNCHANGED <<onErrorThrows, fallbackThrows, broken, offered, mounts, pending, microtasks,
                   changes, resets>>

Microtask == RunList \/ FlushMounts \/ Notified

BoundariesNext == Microtask \/ Change \/ Unmount \/ \E b \in Boundary : Reset(b)

\* Microtasks run.
BoundariesSpec ==
    BoundariesInit /\ [][BoundariesNext]_boundaryVars /\ WF_boundaryVars(Microtask)

----------------------------------------------------------------------------
\* Every variable keeps its type.
BoundariesTyped ==
    /\ {onErrorThrows, fallbackThrows, error, scheduled, disposed, offered} \subseteq SUBSET Boundary
    /\ broken \subseteq Kid /\ up \subseteq Node
    /\ mounts \in [Node -> Nat] /\ live \subseteq Node \X Nat
    /\ shown \in [Node -> {"nothing", "children", "fallback", "value", "diagnostic"}]
    /\ pending \in Seq(Kid \X Nat)
    /\ microtasks \in Seq([do : {"run", "notify", "flush"}, node : 0..Depth, mount : Nat])

AtRest == microtasks = << >>

\* No effect of a list or a dynamic value runs but those of what is mounted, although they
\* start in microtasks that a cleanup does not take back.
NothingLeft == \A x \in live : x[1] \in up /\ x[2] = mounts[x[1]]

\* At rest each boundary shows its fallback if it has an error and else its children, and
\* whatever was thrown is seen: a function that throws is on the page only with a
\* diagnostic, and a diagnostic only where no boundary could take the error.
FailuresAreShown ==
    AtRest =>
        /\ \A n \in up : <<n, mounts[n]>> \in live
        /\ \A b \in up \cap Boundary :
              \/ shown[b] = CASE b \in disposed -> "nothing"
                              [] b \in (error \cap fallbackThrows) \ disposed -> "diagnostic"
                              [] b \in error \ (fallbackThrows \cup disposed) -> "fallback"
                              [] b \notin error \cup disposed -> "children"
              \/ shown[b] = "diagnostic" /\ 1..b \subseteq onErrorThrows
        /\ \A k \in up \cap Kid :
              IF k \in broken \ Components
              THEN shown[k] = "diagnostic" /\ Boundary \subseteq onErrorThrows
              ELSE shown[k] = "value"

\* "reset restores children after the failure condition clears"
\* (__tests__/components/error-boundary.test.ts:99): no boundary is mounted that will
\* never show anything again.
ResetRestores == up \cap disposed = {}

\* "does not let an inner failure escape to an outer boundary" (the same file, line 143):
\* a boundary has an error only if the callbacks of those within it threw.
InnerStaysInner ==
    \A b \in error : \A c \in Boundary : c > b => c \in onErrorThrows \cup fallbackThrows

\* Rendering comes to rest: fallbacks and notifications never go on for ever.
RendersEnd == []<>AtRest

----------------------------------------------------------------------------
\* A boundary that waits for what its children need.  They read one signal, wanted, and then
\* need the resource it names: they render if that is there, throw a token with its promise
\* if not, and an error if it could not be had.  Only what an effect run reads before it
\* throws is tracked, so wanted is.

CONSTANTS
    Resource, None,
    MaxSwitches,   \* bound on changes of wanted
    MaxRefetches,  \* bound on resources that are asked for anew
    Returns        \* the children go back to a resource they had left and still await

SuspenseAssumption ==
    MaxSwitches \in Nat /\ MaxRefetches \in Nat /\ Returns \in BOOLEAN /\ None \notin Resource

VARIABLES
    wanted, switched, resources, refetched,    \* of the application: the promise of a
    promises,                                  \* resource, 0 if it was never asked for
    subscribed,           \* the effect listens to wanted
    active,
    pendingTokens, pendingResources,
    reactions,            \* to the promises of tokens, that have not run
    isPending, shouldShowFallback, resolvedChildren,
    outcome               \* what the children did when last called

application == <<wanted, switched, resources, refetched, promises>>
boundary == <<pendingTokens, pendingResources, reactions, isPending>>
content == <<shouldShowFallback, resolvedChildren>>
suspenseVars == <<application, subscribed, active, boundary, content, outcome>>

SuspenseInit ==
    /\ wanted \in Resource /\ switched = 0 /\ refetched = 0
    /\ resources \in [Resource -> {0, 1}] /\ promises = <<"kept">>
    /\ subscribed = FALSE /\ active = TRUE
    /\ pendingTokens = {} /\ pendingResources = [r \in Resource |-> 0] /\ reactions = {}
    /\ isPending = TRUE /\ shouldShowFallback = TRUE /\ resolvedChildren = None
    /\ outcome = "none"

\* The boundary with these tokens, resources, reactions and flag.
Standing(tokens, registered, awaited, waits) ==
    [tokens |-> tokens, registered |-> registered, awaited |-> awaited, pending |-> waits]
Becomes(b) ==
    /\ pendingTokens' = b.tokens /\ pendingResources' = b.registered
    /\ reactions' = b.awaited /\ isPending' = b.pending
Now == Standing(pendingTokens, pendingResources, reactions, isPending)

\* What the children do that need r; a promise not yet asked for is asked for then.
Outcome(r) ==
    IF resources[r] = 0 THEN "suspends"
    ELSE CASE promises[resources[r]] = "pending" -> "suspends"
           [] promises[resources[r]] = "kept" -> "renders"
           [] promises[resources[r]] = "broken" -> "throws"

\* Boundary b is thrown a token of r: nothing, if one of that resource is awaited already.
handleSuspendToken(b, r) ==
    LET p == IF resources[r] = 0 THEN Len(promises) + 1 ELSE resources[r] IN
    /\ resources' = [resources EXCEPT ![r] = p]
    /\ promises' = IF resources[r] = 0 THEN Append(promises, "pending") ELSE promises
    /\ IF r \in b.tokens THEN Becomes(b) /\ UNCHANGED content
       ELSE /\ Becomes(Standing(b.tokens \cup {r}, [b.registered EXCEPT ![r] = p],
                          b.awaited \cup {[resource |-> r, promise |-> p, caught |-> FALSE]}, TRUE))
            /\ shouldShowFallback' = TRUE /\ UNCHANGED resolvedChildren

\* With boundary b, the children that need r are called; an error of theirs is thrown on,
\* with the boundary left as failed.
tryRenderChildren(b, r, failed) ==
    /\ outcome' = Outcome(r)
    /\ CASE Outcome(r) = "suspends" -> handleSuspendToken(b, r)
         [] Outcome(r) = "renders" ->
                /\ Becomes([b EXCEPT !.pending = FALSE])
                /\ shouldShowFallback' = FALSE /\ resolvedChildren' = r
                /\ UNCHANGED <<resources, promises>>
         [] Outcome(r) = "throws" -> Becomes(failed) /\ UNCHANGED <<content, resources, promises>>

\* The effect runs for the first time, in the script; if it throws there is no component.
Watched ==
    /\ outcome = "none" /\ Outcome(wanted) # "throws"
    /\ tryRenderChildren(Now, wanted, Now)
    /\ subscribed' = TRUE
    /\ UNCHANGED <<wanted, switched, refetched, active>>

\* The children are to render another resource; an effect that throws listens no more.
Switch(r) ==
    /\ outcome # "none" /\ r # wanted /\ switched < MaxSwitches
    /\ Returns \/ shouldShowFallback \/ r \notin pendingTokens
    /\ wanted' = r /\ switched' = switched + 1
    /\ IF subscribed
       THEN tryRenderChildren(Now, r, Now) /\ subscribed' = (Outcome(r) # "throws")
       ELSE UNCHANGED <<resources, promises, subscribed, boundary, content, outcome>>
    /\ UNCHANGED <<refetched, active>>

\* The application asks anew for a resource; the children read nothing that tells them.
Refetch(r) ==
    /\ refetched < MaxRefetches /\ refetched' = refetched + 1
    /\ promises' = Append(promises, "pending")
    /\ resources' = [resources EXCEPT ![r] = Len(promises) + 1]
    /\ UNCHANGED <<wanted, switched, subscribed, active, boundary, content, outcome>>

PromiseSettles(p, how) ==
    /\ promises[p] = "pending" /\ promises' = [promises EXCEPT ![p] = how]
    /\ UNCHANGED <<wanted, switched, resources, refetched, subscribed, active, boundary, content,
                   outcome>>

Awaits(t, how) == ~t.caught /\ promises[t.promise] = how
Caught(t) == [t EXCEPT !.caught = TRUE]

\* removeSettledResource(), the first reaction to a promise.
Removed(t) ==
    IF pendingResources[t.resource] = t.promise
    THEN [pendingResources EXCEPT ![t.resource] = 0] ELSE pendingResources

\* The boundary without what t stood for, its reaction having run.
Without(t) ==
    Standing(pendingTokens \ {t.resource}, [pendingResources EXCEPT ![t.resource] = 0],
             reactions \ {t}, isPending)
Unsaid(t) == Standing(pendingTokens, Removed(t), reactions \ {t}, isPending)

\* Mutation: the children are called whatever else is awaited.
ResolvedEagerly(t) ==
    /\ Awaits(t, "kept")
    /\ tryRenderChildren([Without(t) EXCEPT !.pending = FALSE], wanted,
           [Without(t) EXCEPT !.pending = FALSE, !.awaited = @ \cup {Caught(t)}])
    /\ UNCHANGED <<wanted, switched, refetched, subscribed, active>>

\* The promise was kept: once nothing else is awaited the children are called again, outside
\* the effect; an error of theirs is caught in a later microtask.
Resolved(t) ==
    /\ Awaits(t, "kept")
    /\ IF active /\ pendingTokens \subseteq {t.resource}
       THEN tryRenderChildren([Without(t) EXCEPT !.pending = FALSE], wanted,
                [Without(t) EXCEPT !.pending = FALSE, !.awaited = @ \cup {Caught(t)}])
       ELSE /\ Becomes(IF active THEN Without(t) ELSE Unsaid(t))
            /\ UNCHANGED <<resources, promises, content, outcome>>
    /\ UNCHANGED <<wanted, switched, refetched, subscribed, active>>

\* It was broken, which passes to the reaction after this one.
Rejected(t) ==
    /\ Awaits(t, "broken")
    /\ Becomes([Unsaid(t) EXCEPT !.awaited = @ \cup {Caught(t)}])
    /\ UNCHANGED <<application, subscribed, active, content, outcome>>

\* Mutation: the fallback is left as it is.
SettledForgetful(t) ==
    /\ t.caught /\ Becomes(IF active THEN Without(t) ELSE Unsaid(t))
    /\ UNCHANGED <<application, subscribed, active, content, outcome>>

\* The failure of a promise, or of the children called when it was kept: once nothing else
\* is awaited, what was rendered before is shown.
Settled(t) ==
    /\ t.caught
    /\ IF active /\ pendingTokens \subseteq {t.resource}
       THEN Becomes([Without(t) EXCEPT !.pending = FALSE]) /\ shouldShowFallback' = FALSE
       ELSE /\ Becomes(IF active THEN Without(t) ELSE Unsaid(t))
            /\ UNCHANGED shouldShowFallback
    /\ UNCHANGED <<application, subscribed, active, resolvedChildren, outcome>>

\* The component goes: its effect is stopped and its tables are cleared.
SuspenseUnmount ==
    /\ outcome # "none" /\ active /\ active' = FALSE /\ subscribed' = FALSE
    /\ pendingTokens' = {} /\ pendingResources' = [r \in Resource |-> 0]
    /\ UNCHANGED <<application, reactions, isPending, content, outcome>>

SuspenseNext ==
    \/ Watched \/ SuspenseUnmount
    \/ \E r \in Resource : Switch(r) \/ Refetch(r)
    \/ \E p \in DOMAIN promises, how \in {"kept", "broken"} : PromiseSettles(p, how)
    \/ \E t \in reactions : Resolved(t) \/ Rejected(t) \/ Settled(t)

SuspenseSpec == SuspenseInit /\ [][SuspenseNext]_suspenseVars

----------------------------------------------------------------------------
\* Every variable keeps its type.
SuspenseTyped ==
    /\ wanted \in Resource /\ switched \in 0..MaxSwitches /\ refetched \in 0..MaxRefetches
    /\ promises \in Seq({"pending", "kept", "broken"})
    /\ resources \in [Resource -> 0..Len(promises)]
    /\ subscribed \in BOOLEAN /\ active \in BOOLEAN
    /\ pendingTokens \subseteq Resource /\ pendingResources \in [Resource -> 0..Len(promises)]
    /\ reactions \subseteq [resource : Resource, promise : 1..Len(promises), caught : BOOLEAN]
    /\ isPending \in BOOLEAN /\ shouldShowFallback \in BOOLEAN
    /\ resolvedChildren \in Resource \cup {None}
    /\ outcome \in {"none", "suspends", "renders", "throws"}

NothingFailed == "broken" \notin {promises[p] : p \in DOMAIN promises}

\* However often what the children need changes, fails or is asked for anew: while they are
\* suspended the fallback is shown (unless a failure has ended it), what they rendered last
\* is shown otherwise, the fallback is shown for what is still to come only, and once
\* unmounted nothing is waited for (Suspense.ts handleSuspendToken, tryRenderChildren).
SuspenseShows ==
    /\ active /\ outcome = "suspends" /\ NothingFailed => shouldShowFallback /\ isPending
    /\ active /\ subscribed /\ outcome = "renders" =>
           ~shouldShowFallback /\ ~isPending /\ resolvedChildren = wanted
    /\ active /\ outcome # "none" /\ shouldShowFallback =>
           \E t \in reactions : t.caught \/ t.resource \in pendingTokens
    /\ ~active => pendingTokens = {} /\ \A r \in Resource : pendingResources[r] = 0
=============================================================================
