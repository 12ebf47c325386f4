------------------------------- MODULE MCScreen -------------------------------
(***************************************************************************)
(* What a page is made of, for TLC: effects, stores, the layers of an         *)
(* application and its mounts, the DOM patched or hydrated under it, keyed    *)
(* lists, and boundaries around what fails or waits.  They share no state, so *)
(* a behaviour runs the one that part names and leaves the others as they     *)
(* were.                                                                   *)
(***************************************************************************)
EXTENDS WatchEffect, LayerBuild, Store

CONSTANTS
    App, MaxMounts,                                     \* of AppMount
    Depth, Kids, Components, MaxChanges, MaxResets,     \* of error boundaries,
    Resource, None, MaxSwitches, MaxRefetches           \* and of Suspense

VARIABLES
    part,
    \* of AppMount
    app, call, runtime, canvas, awaits, layerRuntime, mountedCanvas, activeMountId, context,
    previous,
    \* of DomChildren, patched
    previousChildren, nextChildren, dom, index, domIndex, updating,
    \* and hydrated
    rendering, matching, nodes, next, claimed,
    \* of Boundaries that catch
    onErrorThrows, fallbackThrows, broken, error, scheduled, disposed, offered, mounted, up,
    live, shown, pending, queued, changes, resets,
    \* and that wait
    wanted, switched, resources, refetched, promises, listening, alive, pendingTokens,
    pendingResources, reactions, isPending, shouldShowFallback, resolvedChildren, outcome,
    \* of KeyedList
    checked, extracted, list, window, change, cachedChildren, entered, exited, forgone,
    listShown, thrown, since

mounts == <<app, call, runtime, canvas, awaits, layerRuntime, mountedCanvas, activeMountId,
            context, previous>>
patching == <<previousChildren, nextChildren, dom, index, domIndex, updating>>
hydrating == <<rendering, matching, nodes, next, claimed>>
bounding == <<onErrorThrows, fallbackThrows, broken, error, scheduled, disposed, offered,
              mounted, up, live, shown, pending, queued, changes, resets>>
suspending == <<wanted, switched, resources, refetched, promises, listening, alive, pendingTokens,
                pendingResources, reactions, isPending, shouldShowFallback, resolvedChildren,
                outcome>>
listing == <<checked, extracted, list, window, change, cachedChildren, entered, exited, forgone,
             listShown, thrown, since>>

\* Every combination of options of an effect that means something.
AllOptions ==
    [mode : {"sync", "post"}, leading : {FALSE}, trailing : {TRUE}, immediate : {TRUE}]
        \cup [mode : {"debounce"}, leading : BOOLEAN, trailing : BOOLEAN, immediate : {TRUE}]
        \cup [mode : {"sync"}, leading : {FALSE}, trailing : {TRUE}, immediate : {FALSE}]

AllDependencies == [1..NLayers -> SUBSET (0..NLayers)]

Mount == INSTANCE AppMount WITH Overlapping <- FALSE
Dom == INSTANCE DomChildren
    WITH Value <- {1, 2}, Kinds <- {"empty", "text", "p", "signal", "plain"}, MaxChildren <- 2,
         Letter <- {1, 2}, MaxRendered <- 2
Bounds == INSTANCE Boundaries
    WITH Returns <- FALSE, mounts <- mounted, microtasks <- queued, subscribed <- listening,
         active <- alive
Keyed == INSTANCE KeyedList
    WITH Lists <- {<< >>, <<2>>, <<1, 2>>, <<2, 1>>, <<3, 1, 2>>, <<1, 2, 1>>},
         Windows <- {[start |-> s, end |-> 3] : s \in {0, 1}}, MaxChanges <- 3,
         shown <- listShown

\* What the applications over a store do, and its keys.
TheManners == {{"subscribers", "throws"}, {"effects"}, {"subscribers", "actions"},
               {"actions", "failures"}}
TheKeys == <<"a", "b">>

ASSUME LayersKnown == LayersAssumption
ASSUME MountsKnown == Mount!MountAssumption /\ App # {}
ASSUME ChildrenKnown == Dom!PatchAssumption /\ Dom!HydrationAssumption
ASSUME BoundariesKnown == Bounds!BoundariesAssumption
ASSUME SuspenseKnown == Bounds!SuspenseAssumption /\ Resource # {}
ASSUME MannersKnown == Manners # {}
ASSUME ListsKnown == Keyed!KeyedListAssumption

Parts == {"effect", "layers", "mount", "patch", "hydration", "boundaries", "store", "suspense",
          "list"}

\* What a component that is not run begins with, where it could begin in several ways.
MCScreenInit ==
    /\ part \in Parts
    /\ IF part = "effect" THEN TRUE
       ELSE options = [mode |-> "sync", leading |-> FALSE, trailing |-> TRUE, immediate |-> TRUE]
    /\ Init
    /\ IF part = "layers" THEN TRUE ELSE deps = [l \in Layer |-> {}]
    /\ LayersInit
    /\ IF part = "mount" THEN TRUE ELSE app = [m \in 1..MaxMounts |-> CHOOSE a \in App : TRUE]
    /\ Mount!MountInit
    /\ IF part = "patch" THEN TRUE ELSE previousChildren = << >>
    /\ Dom!PatchInit
    /\ IF part = "hydration" THEN TRUE
       ELSE rendering = << >> /\ nodes = << >> /\ matching = TRUE
    /\ Dom!HydrationInit
    /\ IF part = "boundaries" THEN TRUE
       ELSE onErrorThrows = {} /\ fallbackThrows = {} /\ broken = {}
    /\ Bounds!BoundariesInit
    /\ IF part = "store" THEN TRUE ELSE manner = (CHOOSE m \in Manners : TRUE) /\ saved = Initial
    /\ StoreInit
    /\ IF part = "suspense" THEN TRUE
       ELSE wanted = (CHOOSE r \in Resource : TRUE) /\ resources = [r \in Resource |-> 1]
    /\ Bounds!SuspenseInit
    /\ IF part = "list" THEN TRUE
       ELSE checked = TRUE /\ extracted = TRUE /\ window = [start |-> 0, end |-> 3]
    /\ Keyed!ListInit

OfEffect(step) ==
    part = "effect" /\ step
    /\ UNCHANGED <<part, layerVars, mounts, patching, hydrating, bounding, storeVars,
                   suspending, listing>>
OfLayers(step) ==
    part = "layers" /\ step
    /\ UNCHANGED <<part, vars, mounts, patching, hydrating, bounding, storeVars, suspending,
                   listing>>
OfMount(step) ==
    part = "mount" /\ step
    /\ UNCHANGED <<part, vars, layerVars, patching, hydrating, bounding, storeVars,
                   suspending, listing>>
OfPatch(step) ==
    part = "patch" /\ step
    /\ UNCHANGED <<part, vars, layerVars, mounts, hydrating, bounding, storeVars, suspending,
                   listing>>
OfHydration(step) ==
    part = "hydration" /\ step
    /\ UNCHANGED <<part, vars, layerVars, mounts, patching, bounding, storeVars, suspending,
                   listing>>
OfBounds(step) ==
    part = "boundaries" /\ step
    /\ UNCHANGED <<part, vars, layerVars, mounts, patching, hydrating, storeVars, suspending,
                   listing>>
OfStore(step) ==
    part = "store" /\ step
    /\ UNCHANGED <<part, vars, layerVars, mounts, patching, hydrating, bounding,
                   suspending, listing>>

OfSuspense(step) ==
    part = "suspense" /\ step
    /\ UNCHANGED <<part, vars, layerVars, mounts, patching, hydrating, bounding, storeVars,
                   listing>>
OfList(step) ==
    part = "list" /\ step
    /\ UNCHANGED <<part, vars, layerVars, mounts, patching, hydrating, bounding, storeVars,
                   suspending>>

EffectNext ==
    \/ OfEffect(Start)
    \/ OfEffect(Unheard)
    \/ OfEffect(TriggerSync)
    \/ OfEffect(TriggerPost)
    \/ OfEffect(TriggerOpening)
    \/ OfEffect(TriggerWithin)
    \/ OfEffect(Microtask)
    \/ OfEffect(Timeout)
    \/ OfEffect(Stop)
    \/ OfEffect(Pause)
    \/ OfEffect(Resume)
    \/ \E n \in waiting : OfEffect(RegisterLate(n))

BuildNext ==
    \/ OfLayers(Check)
    \/ OfLayers(NextLevel)
    \/ OfLayers(appendLayerExits)
    \/ OfLayers(CallReady)
    \/ OfLayers(AllReady)
    \/ OfLayers(CleanedUp)
    \/ \E l \in Layer :
        \/ OfLayers(Provide(l))
        \/ OfLayers(Mounted(l))
        \/ OfLayers(SetUpDone(l))
        \/ OfLayers(ReadyReturns(l))
        \/ OfLayers(cleanupBuildResults(l))

PageNext ==
    \/ OfLayers(DisposeLayers)
    \/ \E m \in 1..MaxMounts :
        \/ OfMount(Mount!MountCalled(m))
        \/ OfMount(Mount!Cleaned(m))
        \/ OfMount(Mount!Built(m))
        \/ OfMount(Mount!BuildFails(m))
        \/ OfMount(Mount!Shown(m))
        \/ OfMount(Mount!ShowFails(m))
        \/ OfMount(Mount!Failed(m))
        \/ OfMount(Mount!Unmount(m))
        \/ OfMount(Mount!Disposed(m))
    \/ OfPatch(Dom!Rendered)
    \/ OfPatch(Dom!PatchChild)
    \/ OfPatch(Dom!PatchEnds)
    \/ OfPatch(Dom!PropsFlushed)
    \/ OfHydration(Dom!claimElement)
    \/ OfHydration(Dom!MountText)
    \/ OfHydration(Dom!dropUnclaimed)

BoundsNext ==
    \/ OfBounds(Bounds!RunList)
    \/ OfBounds(Bounds!FlushMounts)
    \/ OfBounds(Bounds!Notified)
    \/ OfBounds(Bounds!Change)
    \/ OfBounds(Bounds!Unmount)
    \/ \E b \in 1..Depth : OfBounds(Bounds!Reset(b))

StateNext ==
    \/ OfStore(Assigned)
    \/ OfStore(Persist)
    \/ OfStore(Select)
    \/ OfStore(End)
    \/ OfStore(batchUpdates)
    \/ OfStore(Close)
    \/ OfStore(updateState)
    \/ OfStore(Drafted)
    \/ OfStore(WriteNext)
    \/ OfStore(resetState)
    \/ OfStore(ActionCalled)
    \/ OfStore(ActionReturns)
    \/ OfStore(Throw)
    \/ \E k \in Key, v \in Value :
        \/ OfStore(setValue(k, v))
        \/ OfStore(DirectWrite(k, v))
    \/ \E r \in DOMAIN runs : OfStore(RunEnds(r))

SuspenseNext ==
    \/ OfSuspense(Bounds!Watched)
    \/ OfSuspense(Bounds!SuspenseUnmount)
    \/ \E r \in Resource :
        \/ OfSuspense(Bounds!Switch(r))
        \/ OfSuspense(Bounds!Refetch(r))
    \/ \E p \in DOMAIN promises, how \in {"kept", "broken"} :
            OfSuspense(Bounds!PromiseSettles(p, how))
    \/ \E t \in reactions :
        \/ OfSuspense(Bounds!Resolved(t))
        \/ OfSuspense(Bounds!Rejected(t))
        \/ OfSuspense(Bounds!Settled(t))

MCScreenNext ==
    \/ EffectNext \/ BuildNext \/ PageNext \/ BoundsNext \/ StateNext
    \/ SuspenseNext
    \/ OfList(Keyed!ListNext)

\* The event loop runs microtasks and timers; hooks of layers and cleanups settle.
MCScreenFairness ==
    /\ WF_vars(OfEffect(Microtask)) /\ WF_vars(OfEffect(Timeout))
    /\ WF_layerVars(BuildNext)
    /\ WF_bounding(OfBounds(Bounds!Microtask))

MCScreenSpec ==
    /\ MCScreenInit
    /\ [][MCScreenNext]_<<part, vars, layerVars, mounts, patching, hydrating, bounding,
                          storeVars, suspending, listing>>
    /\ MCScreenFairness

----------------------------------------------------------------------------
\* The component that runs keeps its types.
AllTyped ==
    CASE part = "effect" -> TypeOK
      [] part = "layers" -> LayersTyped
      [] part = "mount" -> Mount!MountTyped
      [] part = "patch" -> Dom!PatchTyped
      [] part = "hydration" -> Dom!HydrationTyped
      [] part = "boundaries" -> Bounds!BoundariesTyped
      [] part = "store" -> StoreTyped
      [] part = "suspense" -> Bounds!SuspenseTyped
      [] part = "list" -> Keyed!ListTyped

\* Subscribers, selectors, the storage and the second copy follow the state of a store, and
\* its superseded actions are silent.
StateIsFresh ==
    part = "store" => StoreIsFollowed /\ CopiesAgree /\ SupersededIsSilent

\* No layer outlives a build that failed or a disposal, the global layer context is alive,
\* the page shows what the app's active mount made, whole, no effect under a boundary runs
\* for what is not mounted, and a node of a keyed list exits once, when it leaves.
PageHolds ==
    /\ part = "layers" => NothingLeftUp
    /\ part = "mount" => Mount!ContextIsAlive /\ Mount!OnlyTheActiveIsUp
    /\ part = "boundaries" => Bounds!NothingLeft
    /\ part = "list" => Keyed!EntersAndExits

\* An element that was patched, or adopted from the server, is what a mount makes, a list
\* has the nodes of its keys, and a boundary shows its children, or the failure, or the
\* fallback, in its place.
PageIsRender ==
    /\ part = "patch" => Dom!PatchIsRender
    /\ part = "hydration" => Dom!HydratedIsMounted
    /\ part = "boundaries" => Bounds!FailuresAreShown
    /\ part = "suspense" => Bounds!SuspenseShows
    /\ part = "list" => Keyed!ChildrenFollow

\* Effects see the last change, builds and disposals end, and boundaries come to rest.
ScreenCatchesUp ==
    []<>(/\ LastChangeSeen
         /\ part = "layers" => BuildEnded
         /\ part = "boundaries" => Bounds!AtRest)
=============================================================================
