-------------------------------- MODULE MCPage ---------------------------------
(***************************************************************************)
(* MCScreen, and the graph of signals, computeds and effects it all reads,    *)
(* for TLC.  The graph's operators are recursive, which is why it is not in   *)
(* MCScreen itself.  A behaviour runs the graph, under a list that is never   *)
(* touched, or what MCScreen runs, over a graph that is never touched: it is   *)
(* a behaviour of MCScreen either way.                                       *)
(***************************************************************************)
EXTENDS MCScreen

CONSTANTS Signal, Cell, Fx    \* of Reactivity

VARIABLES computing, g, assignments, reads

graph == <<g, assignments, reads>>

\* The diamond's programs, and the graph that runs them.
Programs == INSTANCE Reactivity
    WITH MaxWrites <- 2, MaxReads <- 1, Getter <- << >>, Body <- << >>, Initial <- << >>,
         writes <- assignments
Graph == INSTANCE Reactivity
    WITH MaxWrites <- 2, MaxReads <- 1, Getter <- Programs!DiamondGetter,
         Body <- Programs!DiamondBody, Initial <- Programs!Zeros, writes <- assignments

MCPageInit ==
    /\ computing \in BOOLEAN
    /\ MCScreenInit
    /\ computing =>
          part = "list" /\ checked /\ extracted /\ window = [start |-> 0, end |-> 3]
    /\ Graph!Init

OfScreen(step) == ~computing /\ step /\ UNCHANGED <<computing, graph>>
OfGraph(step) ==
    computing /\ step
    /\ UNCHANGED <<computing, part, vars, layerVars, mounts, patching, hydrating, bounding,
                   storeVars, suspending, listing>>

GraphNext ==
    \/ \E s \in Signal, v \in Value : OfGraph(Graph!Write(s, v))
    \/ \E c \in Cell :
        \/ OfGraph(Graph!Read(c))
        \/ OfGraph(Graph!DisposeComputed(c))
    \/ \E e \in Fx :
        \/ OfGraph(Graph!Watch(e))
        \/ OfGraph(Graph!Stop(e))
    \/ OfGraph(Graph!StartBatch)
    \/ OfGraph(Graph!EndBatch)

MCPageNext == OfScreen(MCScreenNext) \/ GraphNext

MCPageSpec ==
    /\ MCPageInit
    /\ [][MCPageNext]_<<computing, graph, part, vars, layerVars, mounts, patching, hydrating,
                        bounding, storeVars, suspending, listing>>
    /\ MCScreenFairness

----------------------------------------------------------------------------
\* Whatever is read, written, observed, stopped, disposed of or batched, and in any order:
\* nothing is left to be called, a computed answers with what its sources give now, an effect
\* has seen what is current, and a computed holds its sources exactly while something depends
\* on it (dep.ts, computed.ts, effect.ts).
GraphIsFresh ==
    computing =>
        Graph!TypeOK /\ Graph!ReadsFresh /\ Graph!EffectsCurrent /\ Graph!HeldWhileObserved
=============================================================================
