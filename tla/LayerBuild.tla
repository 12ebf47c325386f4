------------------------------ MODULE LayerBuild ------------------------------
(***************************************************************************)
(* Building the layers of an application and taking them down again:        *)
(* packages/core/src/layers/internal/topology.ts, builder.ts and the        *)
(* dispose() of runtime.ts.  Layers are numbered in the order they are       *)
(* listed in; the layers of one level are built at the same time.           *)
(***************************************************************************)
EXTENDS Integers, SequencesExt

CONSTANTS NLayers,
          Dependencies    \* the dependency functions a build may be given

Layer == 1..NLayers

Missing == 0              \* a dependency on a layer that is not listed

LayersAssumption ==
    /\ NLayers \in Nat
    /\ Dependencies \subseteq [Layer -> SUBSET (Layer \cup {Missing})]

VARIABLES
    deps,
    stage,       \* what the build is at
    levels,      \* levels made so far
    levelOf,     \* the level of a layer, 0 when it has none yet
    phase,       \* what each layer is at
    unready      \* layers whose onReady has not returned

layerVars == <<deps, stage, levels, levelOf, phase, unready>>

Live == {"mounting", "settingUp", "built"}

Remaining == {l \in Layer : levelOf[l] = 0}

validateDependencies == \A l \in Layer : Missing \notin deps[l]

\* Mutation: only the layer a search starts from is looked for.
detectCircularDependenciesNone == \E l \in Layer : l \in deps[l]

\* detectCycle: a depth-first search from every layer, in order; what is on the path is
\* being visited, what is done is never searched again.
detectCircularDependencies ==
    LET visit[at \in [node : Layer, path : SUBSET Layer, done : SUBSET Layer]] ==
            LET path == at.path \cup {at.node}
                edge(so, d) ==
                    IF so.cycle \/ d \in so.done THEN so
                    ELSE IF d \in path THEN [so EXCEPT !.cycle = TRUE]
                    ELSE visit[[node |-> d, path |-> path, done |-> so.done]]
                end == FoldLeft(edge, [cycle |-> FALSE, done |-> at.done],
                                SetToSeq(deps[at.node]))
            IN  IF end.cycle THEN end ELSE [end EXCEPT !.done = @ \cup {at.node}]
        start(so, l) ==
            IF so.cycle \/ l \in so.done THEN so
            ELSE visit[[node |-> l, path |-> {}, done |-> so.done]]
    IN  FoldLeft(start, [cycle |-> FALSE, done |-> {}], [l \in Layer |-> l]).cycle

LayersInit ==
    /\ deps \in Dependencies
    /\ stage = "checking" /\ levels = 0 /\ levelOf = [l \in Layer |-> 0]
    /\ phase = [l \in Layer |-> "idle"] /\ unready = {}

Check ==
    /\ stage = "checking"
    /\ stage' = IF validateDependencies /\ ~detectCircularDependencies
                THEN "levelling" ELSE "refused"
    /\ UNCHANGED <<deps, levels, levelOf, phase, unready>>

\* Mutation: a level takes whatever is left.
NextLevelEager ==
    /\ stage = "levelling" /\ Remaining # {}
    /\ levels' = levels + 1
    /\ levelOf' = [l \in Layer |-> IF l \in Remaining THEN levels + 1 ELSE levelOf[l]]
    /\ phase' = [l \in Layer |-> IF l \in Remaining THEN "forked" ELSE phase[l]]
    /\ stage' = "building"
    /\ UNCHANGED <<deps, unready>>

\* buildLevelsFromLayers: the next level is every layer whose dependencies all have a
\* level; its layers are forked.  As long as there is none the loop goes round.
NextLevel ==
    LET next == {l \in Remaining : deps[l] \cap Remaining = {}} IN
    /\ stage = "levelling" /\ next # {}
    /\ levels' = levels + 1
    /\ levelOf' = [l \in Layer |-> IF l \in next THEN levels + 1 ELSE levelOf[l]]
    /\ phase' = [l \in Layer |-> IF l \in next THEN "forked" ELSE phase[l]]
    /\ stage' = "building"
    /\ UNCHANGED <<deps, unready>>

\* buildLayerEffect in its three parts: the services are made and onMount is called,
\* onMount has settled and setup is called, setup has settled.  Any may fail.
Step(l, from, to) ==
    /\ stage = "building" /\ phase[l] = from
    /\ phase' \in {[phase EXCEPT ![l] = to], [phase EXCEPT ![l] = "failed"]}
    /\ UNCHANGED <<deps, stage, levels, levelOf, unready>>

Provide(l) == Step(l, "forked", "mounting")
Mounted(l) == Step(l, "mounting", "settingUp")
SetUpDone(l) == Step(l, "settingUp", "built")

\* Mutation: a level is over once one of its layers has failed.
appendLayerExitsEarly ==
    /\ stage = "building"
    /\ \/ /\ \E l \in Layer : phase[l] = "failed"
          /\ stage' = "rollback"
       \/ /\ \A l \in Layer : phase[l] \in {"idle", "built"}
          /\ stage' = "levelling"
    /\ UNCHANGED <<deps, levels, levelOf, phase, unready>>

\* Every fiber of the level is awaited before a failure is acted on.
appendLayerExits ==
    /\ stage = "building"
    /\ \A l \in Layer : phase[l] \in {"idle", "built", "failed"}
    /\ stage' = IF \E l \in Layer : phase[l] = "failed" THEN "rollback" ELSE "levelling"
    /\ UNCHANGED <<deps, levels, levelOf, phase, unready>>

\* All layers are built: their onReady callbacks are called, all at once.
CallReady ==
    /\ stage = "levelling" /\ Remaining = {}
    /\ stage' = "readying" /\ unready' = Layer
    /\ UNCHANGED <<deps, levels, levelOf, phase>>

\* One has returned; its failure is remembered until all have.
ReadyReturns(l) ==
    /\ stage \in {"readying", "unready"} /\ l \in unready
    /\ unready' = unready \ {l}
    /\ stage' \in {stage, "unready"}
    /\ UNCHANGED <<deps, levels, levelOf, phase>>

AllReady ==
    /\ stage \in {"readying", "unready"} /\ unready = {}
    /\ stage' = IF stage = "unready" THEN "rollback" ELSE "up"
    /\ UNCHANGED <<deps, levels, levelOf, phase, unready>>

\* dispose() of the runtime; later calls get the same promise.
DisposeLayers ==
    /\ stage = "up" /\ stage' = "disposing"
    /\ UNCHANGED <<deps, levels, levelOf, phase, unready>>

\* Where a layer stands in the results: by level, then as listed.
Before(m, l) == levelOf[m] < levelOf[l] \/ (levelOf[m] = levelOf[l] /\ m < l)

\* Mutation: the first one built is the first taken down.
cleanupBuildResultsForwards(l) ==
    /\ stage \in {"rollback", "disposing"} /\ phase[l] = "built"
    /\ \A m \in Layer \ {l} : phase[m] = "built" => Before(l, m)
    /\ phase' = [phase EXCEPT ![l] = "down"]
    /\ UNCHANGED <<deps, stage, levels, levelOf, unready>>

\* cleanupBuildResults, for the rollback of a build and for dispose(): the last one built
\* first; what a cleanup throws is collected.
cleanupBuildResults(l) ==
    /\ stage \in {"rollback", "disposing"} /\ phase[l] = "built"
    /\ \A m \in Layer \ {l} : phase[m] = "built" => Before(m, l)
    /\ phase' = [phase EXCEPT ![l] = "down"]
    /\ UNCHANGED <<deps, stage, levels, levelOf, unready>>

CleanedUp ==
    /\ stage \in {"rollback", "disposing"} /\ \A l \in Layer : phase[l] # "built"
    /\ stage' = IF stage = "rollback" THEN "failed" ELSE "disposed"
    /\ UNCHANGED <<deps, levels, levelOf, phase, unready>>

LayersNext ==
    \/ Check \/ NextLevel \/ appendLayerExits \/ CallReady \/ AllReady
    \/ DisposeLayers \/ CleanedUp
    \/ \E l \in Layer : \/ Provide(l) \/ Mounted(l) \/ SetUpDone(l) \/ ReadyReturns(l)
                        \/ cleanupBuildResults(l)

\* Hooks and cleanups settle; nobody has to dispose of anything.
LayersSpec ==
    LayersInit /\ [][LayersNext]_layerVars /\ WF_layerVars(LayersNext /\ ~DisposeLayers)

----------------------------------------------------------------------------
\* Every variable keeps its type.
LayersTyped ==
    /\ deps \in [Layer -> SUBSET (Layer \cup {Missing})]
    /\ stage \in {"checking", "refused", "levelling", "building", "readying", "unready",
                  "rollback", "failed", "up", "disposing", "disposed"}
    /\ levels \in Nat /\ levelOf \in [Layer -> Nat]
    /\ phase \in [Layer -> Live \cup {"idle", "forked", "failed", "down"}]
    /\ unready \subseteq Layer

\* While a layer runs any of its hooks, or is up, everything it depends on is up: in
\* building, in the rollback of a build that failed and in disposal.
LiveOnLive ==
    \A l \in Layer : phase[l] \in Live => \A d \in deps[l] : phase[d] = "built"

\* A build that was refused or failed, and a runtime disposed of, leave no layer up.
NothingLeftUp ==
    stage \in {"refused", "failed", "disposed"} => \A l \in Layer : phase[l] \notin Live

\* A build ends, whatever depends on what, and so does a disposal: levels are only made of
\* layers in which no cycle is.
BuildEnded == stage \in {"refused", "failed", "up", "disposed"}
BuildEnds == []<>BuildEnded

=============================================================================
