----------------------------- MODULE ServerProofs -----------------------------
(***************************************************************************)
(* Proofs about what runs on a server, for every instance of MCServer's     *)
(* constants: RequestPipeline, ServerCache and ServerHost.  Each component    *)
(* has an inductive invariant of its own (PipelineInv, CacheInv, PluginsInv, *)
(* TasksInv, NodeInv), and ServerInv is all of them.                        *)
(***************************************************************************)
EXTENDS MCServer, FiniteSetTheorems, SequenceTheorems, WellFoundedInduction, TLAPS

\* A request.

\* On its way in, a request has passed what it has entered; past the chain, that is the
\* whole chain for the path and the method it is matched against.  What is resolved is a
\* request for that path, and a request that goes back has not been resolved.
GuardInv ==
    /\ turn \in {"in", "terminal"} =>
          ~resolved /\ rewritten = Unset /\ (piped => passed = entered)
    /\ turn = "terminal" /\ piped => Chain \subseteq passed
    /\ resolved /\ piped => current = pathname /\ Chain \subseteq passed
    /\ turn = "handler" => resolved
    /\ rewritten # Unset => ~resolved
    /\ turn \in {"cleanup", "over"} => entered = {}

\* Who acts tells what there is to leave behind: a runtime from the handler until it is
\* disposed of, cleanups without middleware only until their scope is.
LeaveInv ==
    /\ piped \in BOOLEAN
    /\ ~piped => turn \notin {"in", "cleanup"} /\ entered = {}
    /\ Own \in live => turn \in {"handler", "scope", "runtime"}
    /\ turn \in {"scope", "runtime", "out", "cleanup", "over"} => result # Unset
    /\ ~piped /\ turn # "scope" => owed = << >>
    /\ turn = "over" => owed = << >>

\* The same of the run behind a stale response, which comes to defer too late only when it
\* has not been through its handler as the disposers begin.
RefreshInv ==
    /\ refresh # Unset => resolved
    /\ Behind \in live => refresh \in {"handler", "scope", "runtime"}
    /\ scoped # {} => refresh = "scope"
    /\ piped /\ turn \in {"cleanup", "over"} /\ refresh \in {"build", "handler"} => late
    /\ missed # {} => piped /\ late /\ resolved /\ turn \in {"cleanup", "over"}

PipelineInv == GuardInv /\ LeaveInv /\ RefreshInv

\* A request enters through its chain, or meets dispatch() at once.
LEMMA PipelineStart == PipelineInit => PipelineInv
  BY DEF PipelineInit, PipelineInv, GuardInv, LeaveInv, RefreshInv, Unset

\* The way in.
LEMMA InStep ==
    ASSUME PipelineInv,
           \/ NoChain \/ Abort \/ Terminal
           \/ \E m \in 1..Middlewares : Delegate(m) \/ CutShort(m)
    PROVE  PipelineInv'
  <1> USE DEF PipelineInv, LeaveInv, GuardInv, RefreshInv, Chain, Covers, fixed, onward, behind,
              Unset, Own, Behind
  <1>1. ASSUME NEW m \in 1..Middlewares, MayDefer(m), turn = "in"
        PROVE  UNCHANGED missed
    BY <1>1 DEF MayDefer, Defer, NothingDeferred
  <1>2. ASSUME NEW m \in 1..Middlewares, Delegate(m) PROVE PipelineInv'
    <2>1. /\ turn = "in" /\ piped /\ passed = entered
          /\ entered' = entered \cup {m} /\ passed' = passed \cup {m}
          /\ turn' \in {"in", "terminal"}
          /\ turn' = "terminal" => Chain \subseteq entered'
          /\ UNCHANGED <<covers, target, piped, pathname, chosen, rewritten, result, resolved,
                         live, missed, late, refresh, scoped>>
      BY <1>1, <1>2 DEF Delegate
    <2>2. QED
      BY <2>1
  <1>3. ASSUME NEW m \in 1..Middlewares, CutShort(m) PROVE PipelineInv'
    <2>1. /\ turn = "in" /\ turn' = "out" /\ piped /\ result' # Unset
          /\ UNCHANGED <<covers, target, piped, current, method, pathname, chosen, rewritten,
                         entered, passed, resolved, live, missed, late, refresh, scoped>>
      BY <1>1, <1>3 DEF CutShort
    <2>2. QED
      BY <2>1
  <1>4. CASE NoChain
    BY <1>4 DEF NoChain, cleanups
  <1>5. CASE Abort
    BY <1>5 DEF Abort, cleanups
  <1>6. CASE Terminal
    <2>1. /\ turn = "terminal"
          /\ UNCHANGED <<covers, target, piped, defers, current, method, pathname, chosen, seen,
                         pass, entered, passed, owed, missed, late>>
      BY <1>6 DEF Terminal, cleanups
    <2>2. CASE GoBack
      BY <2>1, <2>2 DEF GoBack
    <2>3. CASE current = pathname /\ Resolve /\ Invoke
      BY <2>1, <2>3 DEF Resolve, Invoke
    <2>4. CASE current = pathname /\ Resolve /\ AnswerWithout
      BY <2>1, <2>4 DEF Resolve, AnswerWithout
    <2>5. QED
      BY <1>6, <2>2, <2>3, <2>4 DEF Terminal, Resolve
  <1>7. QED
    BY <1>2, <1>3, <1>4, <1>5, <1>6

\* The handler, and what is taken down behind it.
LEMMA HandleStep ==
    ASSUME PipelineInv, Handle \/ DisposeScope \/ DisposeRuntime
    PROVE  PipelineInv'
  <1> USE DEF PipelineInv, LeaveInv, GuardInv, RefreshInv, Chain, Covers, fixed, onward, behind,
              Unset, Own, Behind
  <1>1. CASE Handle
    <2>1. /\ turn = "handler" /\ turn' = (IF piped THEN "runtime" ELSE "scope")
          /\ result' \in {"response", "error"}
          /\ UNCHANGED <<covers, target, piped, current, method, pathname, chosen, rewritten,
                         entered, passed, resolved, live, missed, late, refresh, scoped>>
      BY <1>1 DEF Handle, Defer, NothingDeferred
    <2>2. QED
      BY <2>1
  <1>2. CASE DisposeScope
    <2>1. /\ turn = "scope" /\ turn' \in {"scope", "runtime"}
          /\ turn' = "runtime" => owed' = << >>
          /\ UNCHANGED <<covers, target, piped, current, method, pathname, chosen, rewritten,
                         entered, result, passed, resolved, live, missed, late, refresh, scoped>>
      BY <1>2 DEF DisposeScope, RunDisposer
    <2>2. QED
      BY <2>1
  <1>3. CASE DisposeRuntime
    <2>1. /\ turn = "runtime" /\ turn' = (IF piped THEN "out" ELSE "over")
          /\ live' = live \ {Own} /\ result' # Unset
          /\ UNCHANGED <<covers, target, piped, current, method, pathname, chosen, rewritten,
                         entered, passed, resolved, owed, missed, late, refresh, scoped>>
      BY <1>3 DEF DisposeRuntime, cleanups
    <2>2. QED
      BY <2>1
  <1>4. QED
    BY <1>1, <1>2, <1>3

\* The way out, and another pass.
LEMMA OutStep ==
    ASSUME PipelineInv,
           \/ EndPass \/ Cleanup \/ Settle \/ Refuse \/ Rematch
           \/ \E m \in 1..Middlewares : Unwind(m)
    PROVE  PipelineInv'
  <1> USE DEF PipelineInv, LeaveInv, GuardInv, RefreshInv, Chain, Covers, fixed, onward, behind,
              cleanups, Unset, Own, Behind
  <1>1. ASSUME NEW m \in 1..Middlewares, Unwind(m) PROVE PipelineInv'
    BY <1>1 DEF Unwind
  <1>2. CASE EndPass
    BY <1>2 DEF EndPass
  <1>3. CASE Cleanup
    <2>1. /\ turn = "cleanup" /\ piped
          /\ UNCHANGED <<covers, target, piped, current, method, pathname, chosen, rewritten,
                         turn, entered, result, passed, resolved, live, missed, late, refresh,
                         scoped>>
      BY <1>3 DEF Cleanup
    <2>2. QED
      BY <2>1
  <1>4. CASE Settle
    BY <1>4 DEF Settle
  <1>5. CASE Refuse
    BY <1>5 DEF Refuse, Again
  <1>6. CASE Rematch
    BY <1>6 DEF Rematch, Again
  <1>7. QED
    BY <1>1, <1>2, <1>3, <1>4, <1>5, <1>6

\* The run behind a stale response.
LEMMA RefreshStep ==
    ASSUME PipelineInv, Refresh
    PROVE  PipelineInv'
  <1> USE DEF PipelineInv, LeaveInv, GuardInv, RefreshInv, Chain, Covers, request, fixed, onward,
              Unset, Own, Behind
  <1>1. CASE RefreshBuilds
    BY <1>1 DEF RefreshBuilds
  <1>2. CASE RefreshHandles
    <2>1. /\ refresh = "handler" /\ refresh' = (IF piped THEN "runtime" ELSE "scope")
          /\ scoped' # {} => ~piped \/ scoped # {}
          /\ UNCHANGED <<covers, target, piped, current, method, pathname, chosen, rewritten,
                         turn, entered, result, passed, resolved, live, late>>
      BY <1>2 DEF RefreshHandles
    <2>2. /\ missed' = missed \/ (piped /\ turn \in {"cleanup", "over"})
          /\ owed' = owed \/ (piped /\ turn \notin {"cleanup", "over"})
      BY <1>2 DEF RefreshHandles, Defer, NothingDeferred
    <2>3. QED
      BY <2>1, <2>2
  <1>3. CASE RefreshCleans
    BY <1>3 DEF RefreshCleans
  <1>4. CASE RefreshDisposes
    BY <1>4 DEF RefreshDisposes
  <1>5. QED
    BY <1>1, <1>2, <1>3, <1>4 DEF Refresh

\* The constants of a request.
LEMMA RequestsConstants ==
    /\ Handled \subseteq Path /\ Scopes \subseteq Scope
    /\ Middlewares \in Nat /\ MaxRewrites \in Nat
  BY RequestsAssumption DEF PipelineAssumption

\* Every variable keeps its type.
LEMMA RequestStartTyped == PipelineInit => PipelineTyped
  <1> SUFFICES ASSUME PipelineInit PROVE PipelineTyped
    OBVIOUS
  <1>1. covers \in [1..Middlewares -> Scope] /\ target \in Target
    BY RequestsConstants DEF PipelineInit, Kind, Target
  <1>2. owed \in Seq(Behind..Middlewares) /\ pass \in 0..MaxRewrites
    BY RequestsConstants DEF PipelineInit
  <1>3. turn \in {"in", "terminal", "handler", "scope", "runtime", "out", "cleanup", "over"}
    BY DEF PipelineInit
  <1>. QED BY <1>1, <1>2, <1>3, RequestsConstants DEF PipelineInit, PipelineTyped

\* A cleanup more, or the last one less.
LEMMA OwedStays ==
    ASSUME owed \in Seq(Behind..Middlewares)
    PROVE  /\ \A m \in Behind..Middlewares : Append(owed, m) \in Seq(Behind..Middlewares)
           /\ owed # << >> => SubSeq(owed, 1, Len(owed) - 1) \in Seq(Behind..Middlewares)
  <1> DEFINE D == Behind..Middlewares
  <1>1. \A m \in D : Append(owed, m) \in Seq(D)
    <2> HIDE DEF D
    <2>. QED BY AppendProperties DEF D
  <1>2. ASSUME owed # << >> PROVE SubSeq(owed, 1, Len(owed) - 1) \in Seq(D)
    <2>1. Len(owed) \in Nat
      OBVIOUS
    <2>2. \A i \in 1..Len(owed) - 1 : owed[i] \in D
      <3>1. owed \in Seq(D) /\ \A i \in 1..Len(owed) - 1 : i \in 1..Len(owed)
        BY <2>1
      <3> HIDE DEF D
      <3>. QED BY <3>1, ElementOfSeq
    <2> HIDE DEF D
    <2>. QED BY <2>1, <2>2, SubSeqProperties
  <1>. QED BY <1>1, <1>2

\* What is deferred is somebody's.
LEMMA DeferredTyped ==
    ASSUME PipelineTyped, NEW who \in Behind..Middlewares, Defer(who) \/ NothingDeferred
    PROVE  owed' \in Seq(Behind..Middlewares) /\ missed' \subseteq Behind..Middlewares
  <1>1. CASE Defer(who) /\ turn \in {"cleanup", "over"}
    BY <1>1, Zenon DEF Defer, PipelineTyped
  <1>2. CASE Defer(who) /\ turn \notin {"cleanup", "over"}
    <2>1. owed' = Append(owed, who) /\ missed' = missed
      BY <1>2, Zenon DEF Defer
    <2>2. Append(owed, who) \in Seq(Behind..Middlewares)
      BY OwedStays DEF PipelineTyped
    <2>3. owed' \in Seq(Behind..Middlewares)
      BY <2>1, <2>2, Zenon
    <2>. QED BY <2>1, <2>3, Zenon DEF PipelineTyped
  <1>3. CASE NothingDeferred
    BY <1>3, Zenon DEF NothingDeferred, PipelineTyped
  <1>. QED BY <1>1, <1>2, <1>3

\* Every step of a request keeps the types.
LEMMA RequestStepTyped ==
    ASSUME PipelineTyped,
           \/ \E m \in 1..Middlewares : Delegate(m) \/ CutShort(m) \/ Unwind(m)
           \/ NoChain \/ Abort \/ Terminal \/ Handle \/ DisposeScope \/ DisposeRuntime
           \/ EndPass \/ Cleanup \/ Settle \/ Refuse \/ Rematch \/ Refresh
    PROVE  PipelineTyped'
  <1> USE RequestsConstants DEF fixed, onward, behind, cleanups, Unset
  <1>1. owed # << >> => SubSeq(owed, 1, Len(owed) - 1) \in Seq(Behind..Middlewares)
    BY OwedStays DEF PipelineTyped
  <1>2. /\ Own \in Behind..Middlewares /\ Behind \in Behind..Middlewares
        /\ \A m \in 1..Middlewares : m \in Behind..Middlewares
    BY DEF Own, Behind
  <1>3. ASSUME NEW m \in 1..Middlewares, Delegate(m) PROVE PipelineTyped'
    <2>1. owed' \in Seq(Behind..Middlewares) /\ missed' \subseteq Behind..Middlewares
      BY <1>2, <1>3, DeferredTyped, Zenon DEF Delegate, MayDefer
    <2>. QED BY <1>3, <2>1 DEF PipelineTyped, Delegate
  <1>4. ASSUME NEW m \in 1..Middlewares, CutShort(m) PROVE PipelineTyped'
    <2>1. owed' \in Seq(Behind..Middlewares) /\ missed' \subseteq Behind..Middlewares
      BY <1>2, <1>4, DeferredTyped, Zenon DEF CutShort, MayDefer
    <2>. QED BY <1>4, <2>1 DEF PipelineTyped, CutShort
  <1>5. ASSUME NEW m \in 1..Middlewares, Unwind(m) PROVE PipelineTyped'
    BY <1>5 DEF PipelineTyped, Unwind
  <1>6. CASE NoChain
    BY <1>6 DEF PipelineTyped, NoChain
  <1>7. CASE Abort
    BY <1>7 DEF PipelineTyped, Abort
  <1>8. CASE Terminal
    <2>1. UNCHANGED <<covers, target, piped, defers, current, method, pathname, chosen, seen,
                      pass, entered, passed, owed, missed, late>>
      BY <1>8 DEF Terminal
    <2>2. CASE GoBack
      BY <2>1, <2>2 DEF GoBack, PipelineTyped
    <2>3. CASE Resolve /\ Invoke
      BY <2>1, <2>3 DEF Resolve, Invoke, PipelineTyped
    <2>4. CASE Resolve /\ AnswerWithout
      BY <2>1, <2>4 DEF Resolve, AnswerWithout, PipelineTyped
    <2>. QED BY <1>8, <2>2, <2>3, <2>4 DEF Terminal, Resolve
  <1>9. CASE Handle
    <2>1. owed' \in Seq(Behind..Middlewares) /\ missed' \subseteq Behind..Middlewares
      BY <1>2, <1>9, DeferredTyped, Zenon DEF Handle
    <2>2. result' \in {"response", "error"} /\ turn' \in {"runtime", "scope"}
          /\ UNCHANGED <<fixed, onward, entered, passed, resolved, live, late, behind>>
      BY <1>9, Zenon DEF Handle
    <2>. QED BY <2>1, <2>2 DEF PipelineTyped
  <1>10. CASE DisposeScope
    <2>1. owed' \in Seq(Behind..Middlewares)
      BY <1>1, <1>10 DEF PipelineTyped, DisposeScope, RunDisposer
    <2>2. turn' \in {"scope", "runtime"}
          /\ UNCHANGED <<fixed, onward, entered, result, passed, resolved, live, missed, late,
                         behind>>
      BY <1>10, Zenon DEF DisposeScope
    <2>. QED BY <2>1, <2>2 DEF PipelineTyped
  <1>11. CASE DisposeRuntime
    BY <1>11 DEF PipelineTyped, DisposeRuntime
  <1>12. CASE EndPass
    BY <1>12 DEF PipelineTyped, EndPass
  <1>13. CASE Cleanup
    <2>1. owed' \in Seq(Behind..Middlewares)
      BY <1>1, <1>13 DEF PipelineTyped, Cleanup, RunDisposer
    <2>2. UNCHANGED <<fixed, onward, turn, entered, result, passed, resolved, live, missed, late,
                      behind>>
      BY <1>13, Zenon DEF Cleanup
    <2>. QED BY <2>1, <2>2 DEF PipelineTyped
  <1>14. CASE Settle
    BY <1>14 DEF PipelineTyped, Settle
  <1>15. CASE Refuse
    BY <1>15 DEF PipelineTyped, Refuse, Again
  <1>16. CASE Rematch
    <2>1. /\ rewritten \in Path
          /\ UNCHANGED <<covers, target, piped, defers, method, entered, resolved, live, owed,
                         missed, late, refresh, scoped>>
      BY <1>16 DEF PipelineTyped, Rematch, Again
    <2>2. pass' \in 0..MaxRewrites
      BY <1>16 DEF PipelineTyped, Rematch, Refused
    <2>. QED BY <1>16, <2>1, <2>2 DEF PipelineTyped, Rematch
  <1>17. CASE Refresh
    <2> USE DEF request
    <2>1. CASE RefreshBuilds
      BY <2>1 DEF PipelineTyped, RefreshBuilds
    <2>2. CASE RefreshHandles
      <3>1. owed' \in Seq(Behind..Middlewares) /\ missed' \subseteq Behind..Middlewares
        BY <1>2, <2>2, DeferredTyped, Zenon DEF RefreshHandles
      <3>2. /\ refresh' \in {"runtime", "scope"} /\ (scoped' = {Behind} \/ scoped' = scoped)
            /\ UNCHANGED <<fixed, onward, turn, entered, result, passed, resolved, late, live>>
        BY <2>2, Zenon DEF RefreshHandles
      <3>. QED BY <3>1, <3>2 DEF PipelineTyped
    <2>3. CASE RefreshCleans
      BY <2>3 DEF PipelineTyped, RefreshCleans
    <2>4. CASE RefreshDisposes
      BY <2>4 DEF PipelineTyped, RefreshDisposes
    <2>. QED BY <1>17, <2>1, <2>2, <2>3, <2>4 DEF Refresh
  <1>. QED BY <1>3, <1>4, <1>5, <1>6, <1>7, <1>8, <1>9, <1>10, <1>11, <1>12, <1>13, <1>14, <1>15,
              <1>16, <1>17

\* The invariant holds of every request.
LEMMA PipelineInvariant == PipelineSpec => []PipelineInv
  <1>1. PipelineInv /\ UNCHANGED pipelineVars => PipelineInv'
    BY DEF pipelineVars, PipelineInv, GuardInv, LeaveInv, RefreshInv, Chain, Covers
  <1>2. PipelineInv /\ [PipelineNext]_pipelineVars => PipelineInv'
    BY <1>1, InStep, HandleStep, OutStep, RefreshStep DEF PipelineNext
  <1>3. QED
    BY PipelineStart, <1>2, PTL DEF PipelineSpec

\* What the chain of a request covers is what let it through.
LEMMA PipelineGuards == PipelineInv => GuardsRan
  BY DEF PipelineInv, GuardInv, GuardsRan, LetThrough, Chain, Covers

\* However many middlewares there are and whatever paths, methods and targets they match: no
\* rewrite of the path brings a request past a middleware that covers its destination, while
\* it keeps the kind it came as and the method its chain was selected for
\* (server-routing.ts dispatch, middleware-pipeline.ts, middleware-graph.ts).
THEOREM GuardsAlwaysRan == PipelineSpec => []GuardsRan
  BY PipelineInvariant, PipelineGuards, PTL

\* What is over has left what it should.
LEMMA PipelineLeaves == PipelineInv => LeavesNothing
  BY DEF PipelineInv, LeaveInv, RefreshInv, LeavesNothing, Unset

\* A request that is over has an outcome, no runtime and no disposer left, whether it was
\* answered, refused, aborted, rewritten or failed; so has the refresh of a stale response,
\* but for what it came to defer when the disposers of its request had begun to run.
THEOREM NothingIsLeft == PipelineSpec => []LeavesNothing
  BY PipelineInvariant, PipelineLeaves, PTL

----------------------------------------------------------------------------
\* Lists.

\* A finite list has a tail: what a total order puts last.
LEMMA TailExists ==
    ASSUME NEW S, IsFiniteSet(S), S # {}, NEW order,
           \A j, k \in S : j # k => <<j, k>> \in order \/ <<k, j>> \in order,
           \A i, j, k \in S : <<i, j>> \in order /\ <<j, k>> \in order => <<i, k>> \in order
    PROVE  \E m \in S : \A j \in S \ {m} : <<j, m>> \in order
  <1> DEFINE Tailed(T) == \E m \in T : \A j \in T \ {m} : <<j, m>> \in order
             Bad == {T \in FiniteSubsetsOf(S) : T # {} /\ ~Tailed(T)}
  <1>1. SUFFICES ASSUME Bad # {} PROVE FALSE
    <2>1. S \in FiniteSubsetsOf(S)
      BY DEF FiniteSubsetsOf
    <2>. QED BY <2>1
  <1>2. PICK T \in Bad : \A U \in Bad : ~(<<U, T>> \in StrictSubsetOrdering(S))
    <2>1. Bad \subseteq FiniteSubsetsOf(S)
      OBVIOUS
    <2>2. IsWellFoundedOn(StrictSubsetOrdering(S), FiniteSubsetsOf(S))
      BY FS_StrictSubsetOrderingWellFounded
    <2> HIDE DEF Bad
    <2>3. \E T \in Bad : \A U \in Bad : ~(<<U, T>> \in StrictSubsetOrdering(S))
      BY <1>1, <2>1, <2>2, WFMin
    <2>. QED BY <2>3
  <1>3. T \subseteq S /\ T # {} /\ IsFiniteSet(T)
    BY DEF FiniteSubsetsOf
  <1>4. PICK x \in T : TRUE
    BY <1>3
  <1>5. CASE T \ {x} = {}
    <2>1. Tailed(T)
      BY <1>5
    <2>. QED BY <2>1
  <1>6. CASE T \ {x} # {}
    <2>1. T \ {x} \notin Bad
      <3>1. <<T \ {x}, T>> \in StrictSubsetOrdering(S)
        BY <1>3, <1>4 DEF StrictSubsetOrdering
      <3> HIDE DEF Bad
      <3>. QED BY <1>2, <3>1
    <2>2. T \ {x} \in FiniteSubsetsOf(S)
      BY <1>3, FS_RemoveElement DEF FiniteSubsetsOf
    <2>3. PICK m \in T \ {x} : \A j \in (T \ {x}) \ {m} : <<j, m>> \in order
      BY <1>6, <2>1, <2>2
    <2>4. CASE <<x, m>> \in order
      <3>1. Tailed(T)
        BY <2>3, <2>4
      <3>. QED BY <3>1
    <2>5. CASE <<m, x>> \in order
      <3>1. \A j \in T \ {x} : <<j, x>> \in order
        BY <1>3, <2>3, <2>5
      <3>2. Tailed(T)
        BY <3>1
      <3>. QED BY <3>2
    <2>. QED BY <1>3, <2>3, <2>4, <2>5
  <1>. QED BY <1>5, <1>6

----------------------------------------------------------------------------
\* The caches.

\* What the order of a list is of, and how many of some entries a base key has.
IsListOf(order, E) ==
    /\ order \subseteq E \X E
    /\ \A k \in E : <<k, k>> \notin order
    /\ \A j, k \in E : j # k => <<j, k>> \in order \/ <<k, j>> \in order
    /\ \A i, j, k \in E : <<i, j>> \in order /\ <<j, k>> \in order => <<i, k>> \in order
OfBase(E, b) == {k \in E : k[1] = b}

\* The indexes describe the entries, of which there are finitely many.
CacheBooks ==
    /\ age \in [Cache!Key -> {"absent", "fresh", "stale", "over"}]
    /\ IsFiniteSet(Cache!Entries) /\ varyIndex \subseteq Base /\ varyRefs \in [Base -> Nat]
    /\ Cache!IndexesAgree

\* What was stored last for a path is where its rule says.
LastStored ==
    \A b \in Base :
        last[b] \in Cache!Entries => (last[b][2] = None <=> b \notin varyIndex)

\* Runs of responses carry a header, runs of data none.
RunsCarry ==
    /\ kind \in {"response", "data"} /\ shared \subseteq Cache!Key /\ crossed \in BOOLEAN
    /\ inflight \in [Cache!Key -> Header \cup {None, Cache!NoRun}]
    /\ kind = "response" => \A k \in Cache!Key : inflight[k] # None
    /\ last \in [Base -> Base \X (Header \cup {None, Cache!NoRun})]
    /\ \A b \in Base : last[b][1] = b

CacheInv == CacheBooks /\ LastStored /\ RunsCarry

\* A list without some of its entries is a list of the others.
LEMMA ListWithout ==
    ASSUME NEW order, NEW E, NEW ks, IsListOf(order, E)
    PROVE  IsListOf({e \in order : e[1] \notin ks /\ e[2] \notin ks}, E \ ks)
  BY DEF IsListOf

\* So is one with an entry pushed to its front.
LEMMA ListAtFront ==
    ASSUME NEW order, NEW E, NEW k, IsListOf(order, E), k \notin E
    PROVE  IsListOf(({k} \X E) \cup order, E \cup {k})
  BY DEF IsListOf

\* Some entries less of a base key.
LEMMA CountWithout ==
    ASSUME NEW E, IsFiniteSet(E), NEW ks \in SUBSET E, NEW b
    PROVE  /\ Cardinality(OfBase(E \ ks, b))
                = Cardinality(OfBase(E, b)) - Cardinality(OfBase(ks, b))
           /\ Cardinality(OfBase(ks, b)) \in Nat
           /\ Cardinality(OfBase(E \ ks, b)) \in Nat
  <1>1. /\ IsFiniteSet(OfBase(E, b)) /\ IsFiniteSet(OfBase(ks, b))
        /\ IsFiniteSet(OfBase(E \ ks, b))
    <2>1. /\ OfBase(E, b) \in SUBSET E /\ OfBase(ks, b) \in SUBSET E
          /\ OfBase(E \ ks, b) \in SUBSET E
      BY DEF OfBase
    <2>. QED BY <2>1, FS_Subset
  <1>2. /\ OfBase(E \ ks, b) = OfBase(E, b) \ OfBase(ks, b)
        /\ OfBase(E, b) \cap OfBase(ks, b) = OfBase(ks, b)
    BY DEF OfBase
  <1>3. Cardinality(OfBase(E, b) \ OfBase(ks, b))
            = Cardinality(OfBase(E, b)) - Cardinality(OfBase(E, b) \cap OfBase(ks, b))
    BY <1>1, FS_Difference
  <1>. QED BY <1>1, <1>2, <1>3, FS_CardinalityType

\* One entry more of a base key.
LEMMA CountWith ==
    ASSUME NEW E, IsFiniteSet(E), NEW k, k \notin E, NEW b
    PROVE  /\ Cardinality(OfBase(E \cup {k}, b))
                = Cardinality(OfBase(E, b)) + (IF k[1] = b THEN 1 ELSE 0)
           /\ Cardinality(OfBase(E, b)) \in Nat
  <1>1. IsFiniteSet(OfBase(E, b)) /\ k \notin OfBase(E, b)
    BY FS_Subset DEF OfBase
  <1>2. OfBase(E \cup {k}, b) = IF k[1] = b THEN OfBase(E, b) \cup {k} ELSE OfBase(E, b)
    BY DEF OfBase
  <1>3. Cardinality(OfBase(E, b) \cup {k}) = Cardinality(OfBase(E, b)) + 1
    BY <1>1, FS_AddElement
  <1>4. Cardinality(OfBase(E, b)) \in Nat
    BY <1>1, FS_CardinalityType
  <1>. QED BY <1>2, <1>3, <1>4

\* With no entry left, or one there.
LEMMA CountsTell ==
    ASSUME NEW E, IsFiniteSet(E), NEW b
    PROVE  /\ Cardinality(OfBase(E, b)) \in Nat
           /\ Cardinality(OfBase(E, b)) <= 0 <=> \A k \in E : k[1] # b
  <1>1. IsFiniteSet(OfBase(E, b))
    BY FS_Subset DEF OfBase
  <1>2. /\ Cardinality(OfBase(E, b)) \in Nat
        /\ Cardinality(OfBase(E, b)) = 0 <=> OfBase(E, b) = {}
    BY <1>1, FS_CardinalityType, FS_EmptySet
  <1>3. OfBase(E, b) = {} <=> \A k \in E : k[1] # b
    BY DEF OfBase
  <1>. QED BY <1>2, <1>3

\* The caches count as this module does.
LEMMA SameCount == \A S : Cache!Cardinality(S) = Cardinality(S)
  BY DEF Cache!Cardinality, Cardinality

\* The books in the terms of the lemmas.
LEMMA BooksAre ==
    Cache!IndexesAgree <=>
        /\ IsListOf(lru, Cache!Entries) /\ Cardinality(Cache!Entries) <= MaxEntries
        /\ tagIndex = UNION {TagsOf[k[1]] \X {k} : k \in Cache!Entries}
        /\ \A b \in Base : varyRefs[b] = Cardinality(OfBase(Cache!Entries, b))
        /\ \A b \in varyIndex : varyRefs[b] > 0
  <1>1. Cache!ListOfEntries <=> IsListOf(lru, Cache!Entries)
    BY Zenon DEF Cache!ListOfEntries, IsListOf
  <1>. QED BY <1>1, SameCount, Zenon DEF Cache!IndexesAgree, OfBase

\* Entries are keys, and keys of a base.
LEMMA KeysAre ==
    /\ Cache!Entries \subseteq Cache!Key
    /\ \A k \in Cache!Key : k[1] \in Base /\ k = <<k[1], k[2]>>
    /\ \A b \in Base, h \in Header \cup {None, Cache!NoRun} : <<b, h>>[1] = b /\ <<b, h>>[2] = h
    /\ \A b \in Base, h \in Header \cup {None} : <<b, h>> \in Cache!Key
  BY DEF Cache!Entries, Cache!Key

\* Detaching entries, with their tags and their references.
LEMMA RemoveStep ==
    ASSUME CacheBooks, LastStored, \A b \in Base : last[b][1] = b,
           NEW ks \in SUBSET Cache!Entries, Cache!remove(ks), UNCHANGED last
    PROVE  CacheBooks' /\ LastStored'
  <1> DEFINE E == Cache!Entries
  <1>1. /\ age' = [k \in Cache!Key |-> IF k \in ks THEN "absent" ELSE age[k]]
        /\ lru' = {e \in lru : e[1] \notin ks /\ e[2] \notin ks}
        /\ tagIndex' = {e \in tagIndex : e[2] \notin ks}
        /\ \A b \in Base : varyRefs'[b] = varyRefs[b] - Cardinality(OfBase(ks, b))
        /\ varyRefs' = [b \in Base |-> varyRefs'[b]]
        /\ varyIndex' = {b \in varyIndex : ~ \E k \in ks : k[1] = b
                /\ varyRefs[b] - Cardinality(OfBase(ks, b)) <= 0}
    <2>1. /\ age' = [k \in Cache!Key |-> IF k \in ks THEN "absent" ELSE age[k]]
          /\ lru' = {e \in lru : e[1] \notin ks /\ e[2] \notin ks}
          /\ tagIndex' = {e \in tagIndex : e[2] \notin ks}
      BY Zenon DEF Cache!remove, Cache!Without
    <2>2. varyRefs' = [b \in Base |-> varyRefs[b] - Cardinality(OfBase(ks, b))]
      BY SameCount, Zenon DEF Cache!remove, Cache!References, OfBase
    <2>3. varyIndex' = {b \in varyIndex : ~ \E k \in ks : k[1] = b
                /\ varyRefs[b] - Cardinality(OfBase(ks, b)) <= 0}
      BY SameCount, Zenon DEF Cache!remove, Cache!References, Cache!Released, OfBase
    <2>. QED BY <2>1, <2>2, <2>3, Zenon
  <1>2. E' = E \ ks
    BY <1>1 DEF Cache!Entries, CacheBooks
  <1>3. IsFiniteSet(E) /\ IsFiniteSet(E') /\ Cardinality(E') <= Cardinality(E)
        /\ Cardinality(E) \in Nat /\ Cardinality(E') \in Nat
    BY <1>2, FS_Subset, FS_CardinalityType DEF CacheBooks
  <1>4. IsListOf(lru', E')
    BY <1>1, <1>2, BooksAre, ListWithout DEF CacheBooks
  <1>5. \A b \in Base : varyRefs'[b] = Cardinality(OfBase(E', b))
    <2> SUFFICES ASSUME NEW b \in Base PROVE varyRefs'[b] = Cardinality(OfBase(E', b))
      OBVIOUS
    <2>1. varyRefs[b] = Cardinality(OfBase(E, b))
      BY BooksAre DEF CacheBooks
    <2>2. Cardinality(OfBase(E \ ks, b)) = Cardinality(OfBase(E, b)) - Cardinality(OfBase(ks, b))
      BY <1>3, CountWithout
    <2>. QED BY <1>1, <1>2, <2>1, <2>2
  <1>6. tagIndex' = UNION {TagsOf[k[1]] \X {k} : k \in E'}
    <2>1. tagIndex = UNION {TagsOf[k[1]] \X {k} : k \in E}
      BY BooksAre DEF CacheBooks
    <2>. QED BY <1>1, <1>2, <2>1
  <1>7. \A b \in varyIndex' : varyRefs'[b] > 0
    <2> SUFFICES ASSUME NEW b \in varyIndex' PROVE varyRefs'[b] > 0
      OBVIOUS
    <2>1. b \in varyIndex /\ b \in Base /\ varyRefs[b] > 0
      BY <1>1, BooksAre DEF CacheBooks
    <2>2. varyRefs'[b] \in Nat
      BY <1>5, <1>3, <2>1, CountsTell
    <2>3. CASE \E k \in ks : k[1] = b
      BY <1>1, <2>1, <2>2, <2>3
    <2>4. CASE ~ \E k \in ks : k[1] = b
      <3>1. OfBase(E', b) = OfBase(E, b)
        BY <1>2, <2>4 DEF OfBase
      <3>. QED BY <1>5, <2>1, <3>1, BooksAre DEF CacheBooks
    <2>. QED BY <2>3, <2>4
  <1>8. varyRefs' \in [Base -> Nat] /\ varyIndex' \subseteq Base
    BY <1>1, <1>3, <1>5, CountsTell DEF CacheBooks
  <1>9. CacheBooks'
    <2>1. Cardinality(E') <= MaxEntries
      BY <1>3, BooksAre, ServerCacheAssumption DEF CacheBooks, Cache!CacheAssumption
    <2>2. Cache!ListOfEntries'
      BY <1>4, Zenon DEF Cache!ListOfEntries, IsListOf
    <2>3. Cache!IndexesAgree'
      BY <1>5, <1>6, <1>7, <2>1, <2>2, SameCount, Zenon DEF Cache!IndexesAgree, OfBase
    <2>. QED BY <1>1, <1>3, <1>8, <2>3 DEF CacheBooks
  <1>10. LastStored'
    <2> SUFFICES ASSUME NEW b \in Base, last[b] \in E'
                 PROVE  last[b][2] = None <=> b \notin varyIndex'
      BY DEF LastStored
    <2>1. last[b] \in E /\ last[b][1] = b
      BY <1>2
    <2>2. ~(Cardinality(OfBase(E', b)) <= 0)
      BY <1>3, <2>1, CountsTell
    <2>3. b \in varyIndex <=> b \in varyIndex'
      <3>1. ~(varyRefs[b] - Cardinality(OfBase(ks, b)) <= 0)
        BY <1>1, <1>5, <2>2
      <3>. QED BY <1>1, <3>1
    <2>. QED BY <2>1, <2>3 DEF LastStored
  <1>. QED BY <1>9, <1>10

\* Using an entry.
LEMMA TouchStep ==
    ASSUME CacheBooks, LastStored, NEW k \in Cache!Entries, Cache!touch(k),
           UNCHANGED <<age, tagIndex, varyIndex, varyRefs, last>>
    PROVE  CacheBooks' /\ LastStored'
  <1> DEFINE E == Cache!Entries
  <1>1. E' = E
    BY DEF Cache!Entries
  <1>2. lru' = ({k} \X (E \ {k})) \cup {e \in lru : e[1] \notin {k} /\ e[2] \notin {k}}
    BY DEF Cache!touch, Cache!AtFront, Cache!Without
  <1>3. IsListOf({e \in lru : e[1] \notin {k} /\ e[2] \notin {k}}, E \ {k})
    BY BooksAre, ListWithout DEF CacheBooks
  <1>4. IsListOf(lru', (E \ {k}) \cup {k})
    BY <1>2, <1>3, ListAtFront
  <1>5. (E \ {k}) \cup {k} = E'
    BY <1>1
  <1>6. IsListOf(lru', E')
    BY <1>4, <1>5
  <1>7. Cache!ListOfEntries'
    BY <1>6, Zenon DEF Cache!ListOfEntries, IsListOf
  <1>8. Cache!IndexesAgree'
    <2>1. \A b \in Base : Cardinality(OfBase(E', b)) = Cardinality(OfBase(E, b))
      BY <1>1
    <2>. QED BY <1>1, <1>7, <2>1, BooksAre, SameCount, Zenon
                DEF CacheBooks, Cache!IndexesAgree, OfBase
  <1>. QED BY <1>1, <1>8 DEF CacheBooks, LastStored

\* Eviction keeps room for what is stored.
LEMMA EvictedMakesRoom ==
    ASSUME CacheBooks, NEW k \in Cache!Key
    PROVE  /\ Cache!Evicted(k) \subseteq Cache!Entries \ {k}
           /\ Cardinality((Cache!Entries \ (Cache!Evicted(k) \cup {k})) \cup {k}) <= MaxEntries
  <1> DEFINE E == Cache!Entries
             others == E \ {k}
             gone == Cache!Evicted(k)
             left == E \ (gone \cup {k})
  <1>1. MaxEntries \in Nat \ {0} /\ IsFiniteSet(E) /\ Cardinality(E) <= MaxEntries
        /\ IsListOf(lru, E)
    BY ServerCacheAssumption, BooksAre DEF Cache!CacheAssumption, CacheBooks
  <1>2. gone = IF Cardinality(others) < MaxEntries THEN {}
               ELSE {e \in others : \A j \in others \ {e} : <<j, e>> \in lru}
    BY SameCount, Zenon DEF Cache!Evicted
  <1>3. /\ IsFiniteSet(others)
        /\ k \in E => Cardinality(others) = Cardinality(E) - 1
        /\ k \notin E => Cardinality(others) = Cardinality(E)
    <2>1. k \notin E => others = E
      OBVIOUS
    <2> HIDE DEF E
    <2>. QED BY <1>1, <2>1, FS_RemoveElement
  <1>8. Cardinality(others) \in Nat /\ Cardinality(E) \in Nat
    <2> HIDE DEF E, others
    <2>. QED BY <1>1, <1>3, FS_CardinalityType
  <1>4. left \in SUBSET others /\ k \notin left
    OBVIOUS
  <1>5. IsFiniteSet(left) /\ Cardinality(left) \in Nat /\ Cardinality(left) <= Cardinality(others)
    BY <1>3, <1>4, <1>8, FS_Subset, FS_CardinalityType
  <1>6. Cardinality(left \cup {k}) = Cardinality(left) + 1
    BY <1>4, <1>5, FS_AddElement
  <1>7. Cardinality(left) < MaxEntries
    <2>1. CASE Cardinality(others) < MaxEntries
      BY <1>1, <1>3, <1>5, <1>8, <2>1
    <2>2. CASE ~(Cardinality(others) < MaxEntries)
      <3>1. Cardinality(others) = MaxEntries /\ others # {}
        <4>1. Cardinality(others) = MaxEntries
          <5> HIDE DEF others, E
          <5>. QED BY <1>1, <1>3, <1>8, <2>2
        <4>2. Cardinality({}) = 0
          BY FS_EmptySet
        <4>. QED BY <1>1, <4>1, <4>2
      <3>2. PICK m \in others : \A j \in others \ {m} : <<j, m>> \in lru
        <4>1. /\ \A i, j \in others : i # j => <<i, j>> \in lru \/ <<j, i>> \in lru
              /\ \A h, i, j \in others : <<h, i>> \in lru /\ <<i, j>> \in lru => <<h, j>> \in lru
          BY <1>1 DEF IsListOf
        <4> HIDE DEF others
        <4>. QED BY <1>3, <3>1, <4>1, TailExists
      <3>3. m \in gone
        BY <1>2, <2>2, <3>2
      <3>4. left \in SUBSET (others \ {m})
        BY <3>3
      <3>5. IsFiniteSet(others \ {m}) /\ Cardinality(others \ {m}) = Cardinality(others) - 1
        BY <1>3, <3>2, FS_RemoveElement
      <3>6. Cardinality(left) <= Cardinality(others \ {m})
        BY <3>4, <3>5, FS_Subset
      <3>. QED BY <1>1, <1>5, <1>8, <3>1, <3>5, <3>6
    <2>. QED BY <2>1, <2>2
  <1>. QED BY <1>1, <1>2, <1>5, <1>6, <1>7

\* Keeping an answer, with what goes for it.
LEMMA StoreStep ==
    ASSUME CacheBooks, LastStored, \A b \in Base : last[b][1] = b,
           NEW k \in Cache!Key, NEW vary \in BOOLEAN, Cache!store(k, vary),
           last \in [Base -> Base \X (Header \cup {None, Cache!NoRun})],
           last' = [last EXCEPT ![k[1]] = k],
           vary <=> k[2] # None
    PROVE  CacheBooks' /\ LastStored'
  <1> DEFINE E == Cache!Entries
             gone == Cache!Evicted(k) \cup ({k} \cap E)
             kept == E \ gone
             rules == {b \in varyIndex : ~ \E j \in gone : j[1] = b
                         /\ varyRefs[b] - Cardinality(OfBase(gone, b)) <= 0}
  <1>1. /\ age' = [j \in Cache!Key |->
                       IF j = k THEN "fresh" ELSE IF j \in gone THEN "absent" ELSE age[j]]
        /\ lru' = ({k} \X (E \ (gone \cup {k})))
                      \cup {e \in lru : e[1] \notin gone \cup {k} /\ e[2] \notin gone \cup {k}}
        /\ tagIndex' = {e \in tagIndex : e[2] \notin gone} \cup (TagsOf[k[1]] \X {k})
        /\ varyRefs' = [b \in Base |-> (varyRefs[b] - Cardinality(OfBase(gone, b)))
                                         + (IF b = k[1] THEN 1 ELSE 0)]
        /\ varyIndex' = IF vary THEN rules \cup {k[1]} ELSE rules \ {k[1]}
    BY SameCount, Zenon
       DEF Cache!store, Cache!AtFront, Cache!Without, Cache!References, Cache!Released, OfBase
  <1>2. /\ gone \in SUBSET E /\ k \notin kept /\ kept \in SUBSET E /\ k[1] \in Base
        /\ Cardinality(kept \cup {k}) <= MaxEntries
    <2>1. kept = E \ (Cache!Evicted(k) \cup {k})
      BY EvictedMakesRoom
    <2>. QED BY <2>1, EvictedMakesRoom, KeysAre
  <1>3. E' = kept \cup {k}
    BY <1>1, <1>2 DEF Cache!Entries, CacheBooks
  <1>4. IsFiniteSet(E) /\ IsFiniteSet(kept) /\ IsFiniteSet(E')
    BY <1>2, <1>3, FS_Subset, FS_AddElement DEF CacheBooks
  <1>5. IsListOf(lru', E')
    <2>1. E \ (gone \cup {k}) = kept /\ E \ (gone \cup {k}) = E \ gone
      BY <1>2
    <2>2. IsListOf({e \in lru : e[1] \notin gone \cup {k} /\ e[2] \notin gone \cup {k}}, kept)
      BY <2>1, BooksAre, ListWithout DEF CacheBooks
    <2>. QED BY <1>1, <1>2, <1>3, <2>1, <2>2, ListAtFront
  <1>6. \A b \in Base : varyRefs'[b] = Cardinality(OfBase(E', b))
    <2> SUFFICES ASSUME NEW b \in Base PROVE varyRefs'[b] = Cardinality(OfBase(E', b))
      OBVIOUS
    <2>1. varyRefs[b] = Cardinality(OfBase(E, b))
      BY BooksAre DEF CacheBooks
    <2>2. Cardinality(OfBase(kept, b)) = Cardinality(OfBase(E, b)) - Cardinality(OfBase(gone, b))
      <3> HIDE DEF gone
      <3>. QED BY <1>2, <1>4, CountWithout
    <2>3. Cardinality(OfBase(kept \cup {k}, b))
              = Cardinality(OfBase(kept, b)) + (IF k[1] = b THEN 1 ELSE 0)
      <3> HIDE DEF kept
      <3>. QED BY <1>2, <1>4, CountWith
    <2>. QED BY <1>1, <1>3, <2>1, <2>2, <2>3
  <1>7. tagIndex' = UNION {TagsOf[j[1]] \X {j} : j \in E'}
    <2>1. tagIndex = UNION {TagsOf[j[1]] \X {j} : j \in E}
      BY BooksAre DEF CacheBooks
    <2>. QED BY <1>1, <1>2, <1>3, <2>1
  <1>8. varyRefs' \in [Base -> Nat] /\ varyIndex' \subseteq Base
    <2>1. \A b \in Base : Cardinality(OfBase(E', b)) \in Nat
      BY <1>4, CountsTell
    <2>2. \A b \in Base : varyRefs'[b] \in Nat
      BY <1>6, <2>1
    <2>3. varyIndex' \subseteq Base
      BY <1>1, <1>2 DEF CacheBooks
    <2>4. varyRefs' = [b \in Base |-> varyRefs'[b]]
      BY <1>1
    <2>. QED BY <2>2, <2>3, <2>4
  <1>20. \A b \in Base : Cardinality(OfBase(gone, b)) \in Nat /\ varyRefs[b] \in Nat
    <2>1. IsFiniteSet(gone)
      BY <1>2, <1>4, FS_Subset
    <2> HIDE DEF gone
    <2>. QED BY <2>1, CountsTell DEF CacheBooks
  <1>9. \A b \in varyIndex' : varyRefs'[b] > 0
    <2> SUFFICES ASSUME NEW b \in varyIndex' PROVE varyRefs'[b] > 0
      OBVIOUS
    <2>1. varyRefs'[b] \in Nat /\ b \in Base
      BY <1>8
    <2>2. CASE b = k[1]
      <3>1. ~(Cardinality(OfBase(E', b)) <= 0)
        BY <1>3, <1>4, <2>2, CountsTell
      <3>. QED BY <1>6, <2>1, <3>1
    <2>3. CASE b # k[1]
      <3>1. b \in rules /\ b \in varyIndex /\ varyRefs[b] > 0
        BY <1>1, <2>3, BooksAre DEF CacheBooks
      <3>2. CASE \E j \in gone : j[1] = b
        <4>1. ~(varyRefs[b] - Cardinality(OfBase(gone, b)) <= 0)
          BY <3>1, <3>2
        <4>2. varyRefs'[b] = (varyRefs[b] - Cardinality(OfBase(gone, b))) + 0
          BY <1>1, <2>1, <2>3
        <4> HIDE DEF gone
        <4>. QED BY <1>20, <2>1, <4>1, <4>2
      <3>3. CASE ~ \E j \in gone : j[1] = b
        <4>1. OfBase(E', b) = OfBase(E, b)
          BY <1>3, <1>2, <2>3, <3>3 DEF OfBase
        <4>. QED BY <1>6, <2>1, <3>1, <4>1, BooksAre DEF CacheBooks
      <3>. QED BY <3>2, <3>3
    <2>. QED BY <2>2, <2>3
  <1>10. CacheBooks'
    <2>1. Cache!ListOfEntries'
      BY <1>5, Zenon DEF Cache!ListOfEntries, IsListOf
    <2>2. Cardinality(E') <= MaxEntries
      BY <1>2, <1>3
    <2>3. Cache!IndexesAgree'
      BY <1>6, <1>7, <1>9, <2>1, <2>2, SameCount, Zenon DEF Cache!IndexesAgree, OfBase
    <2>. QED BY <1>1, <1>4, <1>8, <2>3 DEF CacheBooks
  <1>11. LastStored'
    <2> SUFFICES ASSUME NEW b \in Base, last'[b] \in E'
                 PROVE  last'[b][2] = None <=> b \notin varyIndex'
      BY DEF LastStored
    <2>1. CASE b = k[1]
      BY <1>1, <2>1
    <2>2. CASE b # k[1]
      <3>1. last'[b] = last[b] /\ last[b] \in E /\ last[b][1] = b
        BY <1>2, <1>3, <2>2
      <3>2. ~(Cardinality(OfBase(E', b)) <= 0)
        BY <1>3, <1>4, <3>1, CountsTell
      <3>3. b \in varyIndex <=> b \in varyIndex'
        <4>1. ~(varyRefs[b] - Cardinality(OfBase(gone, b)) <= 0)
          <5>1. varyRefs'[b] = (varyRefs[b] - Cardinality(OfBase(gone, b))) + 0
            BY <1>1, <2>2
          <5>2. varyRefs'[b] = Cardinality(OfBase(E', b))
            BY <1>6
          <5>3. Cardinality(OfBase(E', b)) \in Nat
            BY <1>4, CountsTell
          <5> HIDE DEF gone, E
          <5>. QED BY <1>20, <3>2, <5>1, <5>2, <5>3
        <4>. QED BY <1>1, <2>2, <4>1
      <3>. QED BY <3>1, <3>3 DEF LastStored
    <2>. QED BY <2>1, <2>2
  <1>. QED BY <1>10, <1>11

\* A cache with nothing in it, which is how it begins and what clear() leaves.
LEMMA EmptyBooks ==
    ASSUME age' = [k \in Cache!Key |-> "absent"],
           lru' = {}, tagIndex' = {}, varyIndex' = {}, varyRefs' = [b \in Base |-> 0]
    PROVE  CacheBooks'
  <1>1. Cache!Entries' = {}
    BY DEF Cache!Entries
  <1>2. IsFiniteSet(Cache!Entries') /\ Cardinality(Cache!Entries') = 0
    BY <1>1, FS_EmptySet
  <1>3. Cache!ListOfEntries'
    BY <1>1 DEF Cache!ListOfEntries
  <1>4. Cardinality(Cache!Entries') <= MaxEntries
    BY <1>2, ServerCacheAssumption DEF Cache!CacheAssumption
  <1>5. \A b \in Base : varyRefs'[b] = Cardinality(OfBase(Cache!Entries', b))
    <2>1. \A b \in Base : OfBase(Cache!Entries', b) = {}
      BY <1>1 DEF OfBase
    <2>. QED BY <2>1, FS_EmptySet
  <1>6. tagIndex' = UNION {TagsOf[k[1]] \X {k} : k \in Cache!Entries'}
    BY <1>1
  <1>7. Cache!IndexesAgree'
    BY <1>3, <1>4, <1>5, <1>6, SameCount, Zenon DEF Cache!IndexesAgree, OfBase
  <1>. QED BY <1>2, <1>7 DEF CacheBooks

\* Where the entries and what describes them stay as they are.
LEMMA CacheStays ==
    ASSUME CacheInv, UNCHANGED <<lru, tagIndex, varyIndex, varyRefs, last>>,
           age' \in [Cache!Key -> {"absent", "fresh", "stale", "over"}],
           \A k \in Cache!Key : age'[k] = "absent" <=> age[k] = "absent"
    PROVE  CacheBooks' /\ LastStored'
  <1>1. Cache!Entries' = Cache!Entries
    BY DEF Cache!Entries
  <1>2. Cache!ListOfEntries'
    <2>1. IsListOf(lru', Cache!Entries')
      BY <1>1, BooksAre DEF CacheInv, CacheBooks
    <2>. QED BY <2>1, Zenon DEF Cache!ListOfEntries, IsListOf
  <1>3. Cache!IndexesAgree'
    BY <1>1, <1>2, BooksAre, SameCount, Zenon
       DEF CacheInv, CacheBooks, Cache!IndexesAgree, OfBase
  <1>. QED BY <1>1, <1>3 DEF CacheInv, CacheBooks, LastStored

\* A run begins, or is joined.
LEMMA RunStep ==
    ASSUME RunsCarry, NEW k \in Cache!Key, NEW h \in Header \cup {None},
           kind = "response" => h # None, Cache!run(k, h),
           UNCHANGED <<kind, last, crossed>>, shared' \subseteq Cache!Key
    PROVE  RunsCarry'
  <1>1. inflight' = [inflight EXCEPT ![k] = IF inflight[k] = Cache!NoRun THEN h ELSE inflight[k]]
    BY Zenon DEF Cache!run
  <1>2. \A j \in Cache!Key : inflight'[j] = inflight[j] \/ inflight'[j] = h
    BY <1>1 DEF RunsCarry
  <1>3. inflight' \in [Cache!Key -> Header \cup {None, Cache!NoRun}]
    BY <1>1 DEF RunsCarry
  <1>. QED BY <1>2, <1>3 DEF RunsCarry

\* A request, or a call, is looked up.
LEMMA LookedUp ==
    ASSUME CacheInv, NEW b \in Base, NEW h \in Header \cup {None},
           kind = "response" => h # None, Cache!handle(b, h)
    PROVE  CacheInv'
  <1> DEFINE k == Cache!Lookup(b, h)
  <1>1. k \in Cache!Key
    BY KeysAre DEF Cache!Lookup
  <1>2. k \in Cache!Entries <=> age[k] # "absent"
    BY <1>1 DEF Cache!Entries
  <1>3. UNCHANGED <<kind, last, crossed>> /\ (\A c \in Base : last[c][1] = c)
        /\ RunsCarry
    BY Zenon DEF Cache!handle, CacheInv, RunsCarry
  <1> HIDE DEF k
  <1>4. CASE /\ age[k] = "fresh" /\ Cache!touch(k)
             /\ UNCHANGED <<age, tagIndex, varyIndex, varyRefs, inflight, shared>>
    <2>1. CacheBooks' /\ LastStored'
      BY <1>2, <1>3, <1>4, TouchStep DEF CacheInv
    <2>2. RunsCarry'
      BY <1>3, <1>4 DEF RunsCarry
    <2>. QED BY <2>1, <2>2 DEF CacheInv
  <1>5. CASE /\ age[k] = "stale" /\ Cache!touch(k) /\ Cache!run(k, h)
             /\ UNCHANGED <<age, tagIndex, varyIndex, varyRefs, shared>>
    <2>1. CacheBooks' /\ LastStored'
      BY <1>2, <1>3, <1>5, TouchStep DEF CacheInv
    <2>2. shared' \subseteq Cache!Key
      BY <1>3, <1>5 DEF RunsCarry
    <2>3. RunsCarry'
      BY <1>1, <1>3, <1>5, <2>2, RunStep
    <2>. QED BY <2>1, <2>3 DEF CacheInv
  <1>6. CASE age[k] = "over" /\ Cache!remove({k}) /\ Cache!coalesce(k, h)
    <2>1. CacheBooks' /\ LastStored'
      BY <1>2, <1>3, <1>6, RemoveStep DEF CacheInv
    <2>2. shared' \subseteq Cache!Key
      BY <1>1, <1>3, <1>6 DEF RunsCarry, Cache!coalesce
    <2>3. Cache!run(k, h)
      BY <1>6, Zenon DEF Cache!coalesce
    <2>4. RunsCarry'
      BY <1>1, <1>3, <2>2, <2>3, RunStep
    <2>. QED BY <2>1, <2>4 DEF CacheInv
  <1>7. CASE /\ age[k] = "absent" /\ Cache!coalesce(k, h)
             /\ UNCHANGED <<age, lru, tagIndex, varyIndex, varyRefs>>
    <2>1. CacheBooks' /\ LastStored'
      BY <1>3, <1>7, CacheStays DEF CacheInv, CacheBooks
    <2>2. shared' \subseteq Cache!Key
      BY <1>1, <1>3, <1>7 DEF RunsCarry, Cache!coalesce
    <2>3. Cache!run(k, h)
      BY <1>7, Zenon DEF Cache!coalesce
    <2>4. RunsCarry'
      BY <1>1, <1>3, <2>2, <2>3, RunStep
    <2>. QED BY <2>1, <2>4 DEF CacheInv
  <1>. QED BY <1>4, <1>5, <1>6, <1>7, Zenon DEF Cache!handle, k

\* A run ends: what it leaves of the runs.
LEMMA RunEnded ==
    ASSUME RunsCarry, NEW k \in Cache!Key, Cache!Ended(k),
           crossed' \in BOOLEAN,
           last' \in [Base -> Base \X (Header \cup {None, Cache!NoRun})],
           \A b \in Base : last'[b][1] = b
    PROVE  RunsCarry'
  <1>1. inflight' = [inflight EXCEPT ![k] = Cache!NoRun] /\ shared' = shared \ {k}
        /\ UNCHANGED kind
    BY Zenon DEF Cache!Ended
  <1>2. Cache!NoRun # None
    BY ServerCacheAssumption, Zenon DEF Cache!CacheAssumption
  <1>3. inflight' \in [Cache!Key -> Header \cup {None, Cache!NoRun}]
    BY <1>1 DEF RunsCarry
  <1>4. \A j \in Cache!Key : inflight'[j] \in {inflight[j], Cache!NoRun}
    BY <1>1 DEF RunsCarry
  <1>. QED BY <1>1, <1>2, <1>3, <1>4 DEF RunsCarry

\* What it brings is stored.
LEMMA RunStored ==
    ASSUME CacheInv, NEW k \in Cache!Key, NEW vary \in BOOLEAN, Cache!runAndStore(k, vary),
           vary => kind = "response"
    PROVE  CacheInv'
  <1> DEFINE key == <<k[1], IF vary THEN inflight[k] ELSE None>>
  <1>1. /\ Cache!Ended(k) /\ Cache!store(key, vary) /\ last' = [last EXCEPT ![k[1]] = key]
        /\ crossed' \in BOOLEAN
    BY Zenon DEF Cache!runAndStore
  <1>2. inflight[k] \in Header \cup {None, Cache!NoRun} /\ inflight[k] # Cache!NoRun
        /\ (kind = "response" => inflight[k] # None) /\ None \notin Header
        /\ k[1] \in Base
    <2>1. inflight[k] # Cache!NoRun
      BY <1>1, Zenon DEF Cache!Ended
    <2>2. None \notin Header
      BY ServerCacheAssumption DEF Cache!CacheAssumption
    <2>. QED BY <2>1, <2>2, KeysAre DEF CacheInv, RunsCarry
  <1>3. key \in Cache!Key /\ key[1] = k[1] /\ (vary <=> key[2] # None)
    BY <1>2, KeysAre
  <1>4. /\ last \in [Base -> Base \X (Header \cup {None, Cache!NoRun})]
        /\ \A b \in Base : last[b][1] = b
    BY DEF CacheInv, RunsCarry
  <1>5. /\ last' \in [Base -> Base \X (Header \cup {None, Cache!NoRun})]
        /\ \A b \in Base : last'[b][1] = b
    <2>1. key \in Base \X (Header \cup {None, Cache!NoRun})
      BY <1>2
    <2> HIDE DEF key
    <2>. QED BY <1>1, <1>2, <1>3, <1>4, <2>1
  <1>6. CacheBooks' /\ LastStored'
    <2> HIDE DEF key
    <2>1. last' = [last EXCEPT ![key[1]] = key]
      BY <1>1, <1>3
    <2>. QED BY <1>1, <1>3, <1>4, <2>1, StoreStep DEF CacheInv
  <1>7. RunsCarry'
    BY <1>1, <1>5, RunEnded DEF CacheInv
  <1>. QED BY <1>6, <1>7 DEF CacheInv

\* Every step of the caches.
LEMMA CacheStep ==
    ASSUME CacheInv, Cache!CacheNext
    PROVE  CacheInv'
  <1>1. ASSUME NEW b \in Base, Cache!Call(b) PROVE CacheInv'
    <2>1. kind = "data" /\ Cache!handle(b, None)
      BY <1>1, Zenon DEF Cache!Call
    <2>. QED BY <2>1, LookedUp
  <1>2. ASSUME NEW b \in Base, NEW h \in Header, Cache!Request(b, h) PROVE CacheInv'
    <2>1. Cache!handle(b, h) /\ h # None
      BY <1>2, ServerCacheAssumption, Zenon DEF Cache!Request, Cache!CacheAssumption
    <2>. QED BY <2>1, LookedUp
  <1>3. ASSUME NEW k \in Cache!Key, Cache!Respond(k) PROVE CacheInv'
    <2>1. PICK vary \in BOOLEAN : Cache!runAndStore(k, vary)
      BY <1>3, Zenon DEF Cache!Respond
    <2>2. kind = "response"
      BY <1>3, Zenon DEF Cache!Respond
    <2>. QED BY <2>1, <2>2, RunStored
  <1>4. ASSUME NEW k \in Cache!Key, Cache!Return(k) PROVE CacheInv'
    <2>1. Cache!runAndStore(k, FALSE)
      BY <1>4, Zenon DEF Cache!Return
    <2>. QED BY <2>1, RunStored
  <1>5. ASSUME NEW k \in Cache!Key, Cache!Fail(k) PROVE CacheInv'
    <2>1. Cache!Ended(k) /\ UNCHANGED <<age, lru, tagIndex, varyIndex, varyRefs, last, crossed>>
      BY <1>5, Zenon DEF Cache!Fail
    <2>2. RunsCarry'
      BY <2>1, RunEnded DEF CacheInv, RunsCarry
    <2>3. CacheBooks' /\ LastStored'
      BY <2>1, CacheStays DEF CacheInv, CacheBooks
    <2>. QED BY <2>2, <2>3 DEF CacheInv
  <1>6. ASSUME NEW k \in Cache!Key, Cache!Grow(k) PROVE CacheInv'
    <2>1. /\ age[k] \in {"fresh", "stale"}
          /\ age' = [age EXCEPT ![k] = IF age[k] = "fresh" THEN "stale" ELSE "over"]
          /\ UNCHANGED <<kind, lru, tagIndex, varyIndex, varyRefs, inflight, shared, last, crossed>>
      BY <1>6, Zenon DEF Cache!Grow
    <2>2. CacheBooks' /\ LastStored'
      <3>1. age' \in [Cache!Key -> {"absent", "fresh", "stale", "over"}]
        BY <2>1 DEF CacheInv, CacheBooks
      <3>2. \A j \in Cache!Key : age'[j] = "absent" <=> age[j] = "absent"
        BY <2>1 DEF CacheInv, CacheBooks
      <3>. QED BY <2>1, <3>1, <3>2, CacheStays
    <2>3. RunsCarry'
      BY <2>1 DEF CacheInv, RunsCarry
    <2>. QED BY <2>2, <2>3 DEF CacheInv
  <1>7. ASSUME NEW ts \in SUBSET Cache!Tag, Cache!invalidateTags(ts) PROVE CacheInv'
    <2> DEFINE ks == {e[2] : e \in {i \in tagIndex : i[1] \in ts}}
    <2>1. Cache!remove(ks) /\ UNCHANGED <<kind, inflight, shared, last, crossed>>
      BY <1>7, Zenon DEF Cache!invalidateTags
    <2>2. ks \in SUBSET Cache!Entries
      BY BooksAre DEF CacheInv, CacheBooks
    <2> HIDE DEF ks
    <2>3. CacheBooks' /\ LastStored'
      BY <2>1, <2>2, RemoveStep DEF CacheInv, RunsCarry
    <2>4. RunsCarry'
      BY <2>1 DEF CacheInv, RunsCarry
    <2>. QED BY <2>3, <2>4 DEF CacheInv
  <1>8. ASSUME Cache!clear PROVE CacheInv'
    <2>1. /\ age' = [k \in Cache!Key |-> "absent"]
          /\ lru' = {} /\ tagIndex' = {} /\ varyIndex' = {} /\ varyRefs' = [b \in Base |-> 0]
          /\ UNCHANGED <<kind, inflight, shared, last, crossed>>
      BY <1>8, Zenon DEF Cache!clear
    <2>2. Cache!Entries' = {}
      BY <2>1 DEF Cache!Entries
    <2>3. RunsCarry'
      BY <2>1 DEF CacheInv, RunsCarry
    <2>4. CacheBooks'
      BY <2>1, <2>2, EmptyBooks
    <2>5. LastStored'
      BY <2>2 DEF LastStored
    <2>. QED BY <2>3, <2>4, <2>5 DEF CacheInv
  <1>. QED BY <1>1, <1>2, <1>3, <1>4, <1>5, <1>6, <1>7, <1>8, Zenon DEF Cache!CacheNext

\* How the caches begin.
LEMMA CacheStart == Cache!CacheInit => CacheInv
  <1> SUFFICES ASSUME Cache!CacheInit PROVE CacheInv
    OBVIOUS
  <1>1. /\ kind \in {"response", "data"}
        /\ age = [k \in Cache!Key |-> "absent"]
        /\ lru = {} /\ tagIndex = {} /\ varyIndex = {} /\ varyRefs = [b \in Base |-> 0]
        /\ inflight = [k \in Cache!Key |-> Cache!NoRun] /\ shared = {}
        /\ last = [b \in Base |-> <<b, Cache!NoRun>>] /\ crossed = FALSE
    BY Zenon DEF Cache!CacheInit
  <1>2. Cache!Entries = {}
    BY <1>1 DEF Cache!Entries
  <1>3. IsFiniteSet(Cache!Entries) /\ Cardinality(Cache!Entries) = 0
    BY <1>2, FS_EmptySet
  <1>4. Cache!IndexesAgree
    <2>1. \A b \in Base : varyRefs[b] = Cardinality(OfBase(Cache!Entries, b))
      <3>1. \A b \in Base : OfBase(Cache!Entries, b) = {}
        BY <1>2 DEF OfBase
      <3>. QED BY <1>1, <3>1, FS_EmptySet
    <2>2. IsListOf(lru, Cache!Entries) /\ Cardinality(Cache!Entries) <= MaxEntries
      BY <1>1, <1>2, <1>3, ServerCacheAssumption DEF IsListOf, Cache!CacheAssumption
    <2>. QED BY <1>1, <1>2, <2>1, <2>2, BooksAre
  <1>5. Cache!NoRun # None
    BY ServerCacheAssumption, Zenon DEF Cache!CacheAssumption
  <1>6. RunsCarry
    BY <1>1, <1>5 DEF RunsCarry
  <1>. QED BY <1>1, <1>2, <1>3, <1>4, <1>6 DEF CacheInv, CacheBooks, LastStored

\* What the invariant says of a lookup...
LEMMA CacheInvFinds == CacheInv => Cache!IndexesAgree /\ Cache!StoredIsFound
  <1> SUFFICES ASSUME CacheInv, NEW b \in Base, NEW h \in Header,
                      last[b] \in Cache!Entries, last[b][2] \in {h, None}
               PROVE  Cache!Lookup(b, h) = last[b]
    BY DEF CacheInv, CacheBooks, Cache!StoredIsFound
  <1>1. last[b] = <<b, last[b][2]>>
    BY KeysAre DEF CacheInv, RunsCarry
  <1>2. last[b][2] = None <=> b \notin varyIndex
    BY DEF CacheInv, LastStored
  <1>3. h # None
    BY ServerCacheAssumption, Zenon DEF Cache!CacheAssumption
  <1>. QED BY <1>1, <1>2, <1>3 DEF Cache!Lookup

\* ... and of the types.
LEMMA CacheInvTyped == CacheInv => Cache!CacheTyped
  <1> SUFFICES ASSUME CacheInv PROVE Cache!CacheTyped
    OBVIOUS
  <1>1. lru \subseteq Cache!Key \X Cache!Key
    BY BooksAre, KeysAre DEF CacheInv, CacheBooks, IsListOf
  <1>2. tagIndex \subseteq Cache!Tag \X Cache!Key
    <2>1. tagIndex = UNION {TagsOf[k[1]] \X {k} : k \in Cache!Entries}
      BY BooksAre DEF CacheInv, CacheBooks
    <2>2. \A k \in Cache!Entries : k \in Cache!Key /\ TagsOf[k[1]] \subseteq Cache!Tag
      BY KeysAre DEF Cache!Tag
    <2>. QED BY <2>1, <2>2
  <1>. QED BY <1>1, <1>2, Zenon DEF CacheInv, CacheBooks, RunsCarry, Cache!CacheTyped

----------------------------------------------------------------------------
\* The plugins.

\* The first n plugins, in the registration order, and what is up when they are.
FirstOnes(s) == s \in Seq(1..Plugins) /\ Len(s) <= Plugins /\ \A i \in 1..Len(s) : s[i] = i
Standing(n) == [p \in 1..Plugins |-> IF p <= n THEN 1 ELSE 0]

\* At most one start() or teardown is under way, and what is up is an initial part of the
\* registration order: all that was started, or what a teardown has left of it.
Settled ==
    /\ booting = << >> /\ tearing = << >> /\ up = Standing(Len(started))
    /\ running => Len(started) = Plugins /\ starts # 0
    /\ ~running => Len(started) = 0
SettingUp ==
    /\ booting = <<Len(started)>> /\ tearing = << >> /\ up = Standing(Len(started))
    /\ ~running /\ starts # 0
TearingDown ==
    \E m \in 0..Len(started) :
        /\ booting = << >> /\ tearing = <<m>> /\ up = Standing(m)
        /\ ~running /\ starts # 0
PluginsInv ==
    /\ running \in BOOLEAN /\ starts \in 0..MaxStarts /\ FirstOnes(started)
    /\ Settled \/ SettingUp \/ TearingDown

\* The bounds of the plugins.
LEMMA PluginsCount == Plugins \in Nat /\ Plugins > 0 /\ MaxStarts \in Nat
  BY HostsAssumption DEF Host!HostAssumption

\* How the plugins begin.
LEMMA PluginsStart == Host!HostInit => PluginsInv
  <1> SUFFICES ASSUME Host!HostInit PROVE PluginsInv
    OBVIOUS
  <1>1. /\ running = FALSE /\ started = << >> /\ starts = 0
        /\ booting = << >> /\ tearing = << >> /\ up = [p \in 1..Plugins |-> 0]
    BY Zenon DEF Host!HostInit
  <1>2. FirstOnes(started) /\ Len(started) = 0
    BY <1>1, PluginsCount DEF FirstOnes
  <1>3. up = Standing(0)
    BY <1>1, PluginsCount DEF Standing
  <1>4. Settled
    BY <1>1, <1>2, <1>3, Zenon DEF Settled
  <1>5. running \in BOOLEAN /\ starts \in 0..MaxStarts
    <2>1. 0 \in 0..MaxStarts
      BY PluginsCount
    <2>. QED BY <1>1, <2>1, Zenon
  <1>. QED BY <1>2, <1>4, <1>5, Zenon DEF PluginsInv

\* A list of one has nothing left when that is gone.
LEMMA OneOnly ==
    ASSUME NEW x
    PROVE  /\ \A i : i \in DOMAIN <<x>> => i = 1
           /\ <<x>>[1] = x /\ Host!Drop(<<x>>, 1) = << >>
           /\ \A i : i \notin DOMAIN << >>
  BY DEF Host!Drop

\* What is up with one plugin more.
LEMMA StandingMore ==
    ASSUME NEW n \in 0..Plugins, n + 1 <= Plugins
    PROVE  [Standing(n) EXCEPT ![n + 1] = Standing(n)[n + 1] + 1] = Standing(n + 1)
  <1> DEFINE f == [Standing(n) EXCEPT ![n + 1] = Standing(n)[n + 1] + 1]
  <1>1. n + 1 \in 1..Plugins /\ Standing(n)[n + 1] = 0
    BY PluginsCount DEF Standing
  <1>2. \A q \in 1..Plugins : f[q] = Standing(n + 1)[q]
    <2> SUFFICES ASSUME NEW q \in 1..Plugins PROVE f[q] = Standing(n + 1)[q]
      OBVIOUS
    <2>1. CASE q = n + 1
      BY <1>1, <2>1, PluginsCount DEF Standing
    <2>2. CASE q # n + 1
      BY <1>1, <2>2, PluginsCount DEF Standing
    <2>. QED BY <2>1, <2>2
  <1>3. f = [q \in 1..Plugins |-> f[q]]
        /\ Standing(n + 1) = [q \in 1..Plugins |-> Standing(n + 1)[q]]
    BY DEF Standing
  <1>. QED BY <1>2, <1>3

\* The same, of one less.
LEMMA StandingLess ==
    ASSUME NEW m \in 1..Plugins
    PROVE  [Standing(m) EXCEPT ![m] = 0] = Standing(m - 1)
  <1> DEFINE f == [Standing(m) EXCEPT ![m] = 0]
  <1>1. \A q \in 1..Plugins : f[q] = Standing(m - 1)[q]
    <2> SUFFICES ASSUME NEW q \in 1..Plugins PROVE f[q] = Standing(m - 1)[q]
      OBVIOUS
    <2>1. CASE q = m
      BY <2>1, PluginsCount DEF Standing
    <2>2. CASE q # m
      BY <2>2, PluginsCount DEF Standing
    <2>. QED BY <2>1, <2>2
  <1>2. f = [q \in 1..Plugins |-> f[q]]
        /\ Standing(m - 1) = [q \in 1..Plugins |-> Standing(m - 1)[q]]
    BY DEF Standing
  <1>. QED BY <1>1, <1>2

\* The next plugin, set up.
LEMMA OneMore ==
    ASSUME FirstOnes(started), NEW p, p = Len(started) + 1, p <= Plugins
    PROVE  /\ FirstOnes(Append(started, p)) /\ Len(Append(started, p)) = p
           /\ [Standing(Len(started)) EXCEPT ![p] = @ + 1] = Standing(p)
           /\ [Standing(Len(started)) EXCEPT ![p] = @ + 1] # Standing(Len(started))
  <1>1. p \in 1..Plugins /\ Len(started) \in Nat /\ started \in Seq(1..Plugins)
    BY PluginsCount DEF FirstOnes
  <1>2. /\ Append(started, p) \in Seq(1..Plugins) /\ Len(Append(started, p)) = p
        /\ \A i \in 1..Len(started) : Append(started, p)[i] = started[i]
        /\ Append(started, p)[p] = p
    BY <1>1, AppendProperties
  <1>3. FirstOnes(Append(started, p))
    BY <1>1, <1>2 DEF FirstOnes
  <1>4. [Standing(Len(started)) EXCEPT ![p] = @ + 1] = Standing(p)
    BY <1>1, PluginsCount, StandingMore
  <1>5. Standing(p)[p] # Standing(Len(started))[p]
    BY <1>1, PluginsCount DEF Standing
  <1>. QED BY <1>2, <1>3, <1>4, <1>5

\* The last one up, torn down.
LEMMA OneLess ==
    ASSUME NEW m \in 1..Plugins
    PROVE  /\ Standing(m)[m] = 1 /\ [Standing(m) EXCEPT ![m] = 0] = Standing(m - 1)
           /\ \A q \in m + 1..Plugins : Standing(m)[q] = 0
  <1>1. Standing(m)[m] = 1 /\ \A q \in m + 1..Plugins : Standing(m)[q] = 0
    BY PluginsCount DEF Standing
  <1>. QED BY <1>1, StandingLess

\* Nothing is torn down.
Rising == \A p \in 1..Plugins : ~(up'[p] < up[p])

\* A start() begins, goes on and ends.
LEMMA SettingUpStep ==
    ASSUME PluginsInv,
           \/ Host!Start
           \/ \E n \in 1..MaxStarts : Host!SetUp(n) \/ Host!SetUpFails(n) \/ Host!Started(n)
    PROVE  PluginsInv' /\ Rising
  <1> USE PluginsCount
  <1>1. FirstOnes(started) /\ Len(started) \in Nat /\ Len(started) <= Plugins
        /\ running \in BOOLEAN /\ starts \in 0..MaxStarts
    BY DEF PluginsInv, FirstOnes
  <1>2. \A n \in 0..Plugins : \A p \in 1..Plugins : Standing(n)[p] \in {0, 1}
    BY DEF Standing
  <1>3. CASE Host!Start
    <2>1. /\ starts < MaxStarts /\ ~running /\ booting = << >> /\ tearing = << >>
          /\ starts' = starts + 1 /\ booting' = <<0>>
          /\ UNCHANGED <<running, started, up, tearing>>
      BY <1>3 DEF Host!Start, Host!Idle
    <2>2. Settled
      BY <2>1 DEF PluginsInv, SettingUp, TearingDown
    <2>3. SettingUp' /\ starts' \in 0..MaxStarts
      BY <1>1, <2>1, <2>2 DEF Settled, SettingUp, Standing
    <2>4. Rising
      BY <1>1, <1>2, <2>1, <2>2 DEF Settled, Rising
    <2>. QED BY <1>1, <2>1, <2>3, <2>4 DEF PluginsInv, FirstOnes
  <1>4. ASSUME NEW n \in 1..MaxStarts,
               Host!SetUp(n) \/ Host!SetUpFails(n) \/ Host!Started(n)
        PROVE  PluginsInv' /\ Rising
    <2>1. n \in DOMAIN booting
      BY <1>4 DEF Host!SetUp, Host!SetUpFails, Host!Started
    <2>2. SettingUp /\ n = 1
      BY <2>1, OneOnly, Zenon DEF PluginsInv, Settled, SettingUp, TearingDown
    <2>3. PICK p : p = Len(started) + 1
      OBVIOUS
    <2>4. /\ booting[1] = Len(started) /\ tearing = << >> /\ Host!Drop(booting, 1) = << >>
          /\ up = Standing(Len(started)) /\ ~running /\ starts # 0
      BY <2>2, OneOnly DEF SettingUp
    <2>5. CASE Host!SetUp(n)
      <3>1. /\ p <= Plugins /\ started' = Append(started, p)
            /\ up' = [up EXCEPT ![p] = @ + 1] /\ booting' = [booting EXCEPT ![1] = p]
            /\ UNCHANGED <<running, starts, tearing>>
        <4>1. /\ booting[1] < Plugins /\ started' = Append(started, booting[1] + 1)
              /\ up' = [up EXCEPT ![booting[1] + 1] = @ + 1]
              /\ booting' = [booting EXCEPT ![1] = booting[1] + 1]
              /\ UNCHANGED <<running, starts, tearing>>
          BY <2>2, <2>5, Zenon DEF Host!SetUp
        <4>2. booting[1] + 1 = p /\ p <= Plugins
          BY <1>1, <2>3, <2>4, <4>1
        <4>. QED BY <4>1, <4>2
      <3>2. FirstOnes(started') /\ Len(started') = p /\ up' = Standing(p)
        BY <1>1, <2>3, <2>4, <3>1, OneMore
      <3>3. booting' = <<p>>
        BY <2>2, <3>1 DEF SettingUp
      <3>4. SettingUp'
        <4>1. running' = running /\ starts' = starts /\ tearing' = << >>
          BY <2>4, <3>1
        <4>2. booting' = <<Len(started')>> /\ up' = Standing(Len(started'))
          BY <3>2, <3>3
        <4>. QED BY <2>4, <4>1, <4>2, Zenon DEF SettingUp, Standing
      <3>5. Rising
        BY <1>1, <2>3, <2>4, <3>1, <3>2 DEF Rising, Standing
      <3>. QED BY <1>1, <3>1, <3>2, <3>4, <3>5 DEF PluginsInv, FirstOnes
    <2>6. CASE Host!SetUpFails(n)
      <3>1. /\ p <= Plugins /\ up' \in {up, [up EXCEPT ![p] = @ + 1]}
            /\ started' = IF up' = up THEN started ELSE Append(started, p)
            /\ tearing' = Append(tearing, Len(started')) /\ booting' = << >>
            /\ UNCHANGED <<running, starts>>
        BY <1>1, <2>2, <2>3, <2>4, <2>6 DEF Host!SetUpFails
      <3>2. tearing' = <<Len(started')>>
        BY <2>4, <3>1
      <3>3. FirstOnes(started') /\ Len(started') \in Nat /\ up' = Standing(Len(started'))
        BY <1>1, <2>3, <2>4, <3>1, OneMore
      <3>4. TearingDown'
        <4>1. Len(started') \in 0..Len(started')
          BY <3>3
        <4>. QED BY <2>4, <3>1, <3>2, <3>3, <4>1 DEF TearingDown, Standing
      <3>5. Rising
        <4>1. p \in 1..Plugins /\ Len(started) \in 0..Plugins /\ Len(started) + 1 = p
          BY <1>1, <2>3, <3>1
        <4>2. up' \in {Standing(Len(started)), Standing(p)}
          BY <1>1, <2>3, <2>4, <3>1, OneMore
        <4>. QED BY <2>4, <4>1, <4>2 DEF Rising, Standing
      <3>. QED BY <1>1, <3>1, <3>3, <3>4, <3>5 DEF PluginsInv, FirstOnes
    <2>7. CASE Host!Started(n)
      <3>1. /\ Len(started) = Plugins /\ running' = TRUE /\ booting' = << >>
            /\ UNCHANGED <<started, up, starts, tearing>>
        BY <2>2, <2>4, <2>7 DEF Host!Started
      <3>2. Settled'
        BY <2>4, <3>1 DEF Settled, Standing
      <3>3. Rising
        BY <1>1, <1>2, <2>4, <3>1 DEF Rising
      <3>. QED BY <1>1, <3>1, <3>2, <3>3 DEF PluginsInv, FirstOnes
    <2>. QED BY <1>4, <2>5, <2>6, <2>7
  <1>. QED BY <1>3, <1>4

\* So does a teardown, which begins with the plugin set up last.
LEMMA TearingDownStep ==
    ASSUME PluginsInv,
           Host!Stop \/ \E n \in 1..MaxStarts : Host!TearDown(n) \/ Host!TornDown(n)
    PROVE  /\ PluginsInv'
           /\ \A p \in 1..Plugins : up'[p] < up[p] => \A q \in p + 1..Plugins : up[q] = 0
  <1> USE PluginsCount
  <1> DEFINE Last == \A p \in 1..Plugins : up'[p] < up[p] => \A q \in p + 1..Plugins : up[q] = 0
  <1>1. FirstOnes(started) /\ Len(started) \in Nat /\ Len(started) <= Plugins
        /\ running \in BOOLEAN /\ starts \in 0..MaxStarts
    BY DEF PluginsInv, FirstOnes
  <1>2. UNCHANGED up /\ (\E n \in 0..Plugins : up = Standing(n)) => Last
    BY DEF Standing
  <1>3. CASE Host!Stop
    <2>1. /\ running /\ running' = FALSE /\ tearing' = Append(tearing, Len(started))
          /\ UNCHANGED <<started, up, starts, booting>>
      BY <1>3 DEF Host!Stop
    <2>2. Settled
      BY <2>1 DEF PluginsInv, SettingUp, TearingDown
    <2>3. TearingDown'
      <3>1. Len(started) \in 0..Len(started) /\ tearing' = <<Len(started)>>
        BY <1>1, <2>1, <2>2 DEF Settled
      <3>. QED BY <2>1, <2>2, <3>1 DEF Settled, TearingDown, Standing
    <2>4. Last
      BY <1>1, <1>2, <2>1, <2>2 DEF Settled
    <2>5. FirstOnes(started')
      BY <1>1, <2>1
    <2>6. running' \in BOOLEAN /\ starts' \in 0..MaxStarts
      BY <1>1, <2>1
    <2>. QED BY <2>3, <2>4, <2>5, <2>6, Zenon DEF PluginsInv, FirstOnes
  <1>4. ASSUME NEW n \in 1..MaxStarts, Host!TearDown(n) \/ Host!TornDown(n)
        PROVE  PluginsInv' /\ Last
    <2>1. n \in DOMAIN tearing
      BY <1>4 DEF Host!TearDown, Host!TornDown
    <2>2. TearingDown /\ n = 1
      BY <2>1, OneOnly, Zenon DEF PluginsInv, Settled, SettingUp, TearingDown
    <2>3. PICK m \in 0..Len(started) :
              /\ booting = << >> /\ tearing = <<m>> /\ up = Standing(m) /\ ~running /\ starts # 0
      BY <2>2 DEF TearingDown
    <2>4. CASE Host!TearDown(n)
      <3>1. m \in 1..Plugins /\ m \in DOMAIN started /\ started[m] = m /\ up[m] = 1
        <4>1. m > 0
          BY <2>2, <2>3, <2>4 DEF Host!TearDown
        <4>2. m \in DOMAIN started /\ started[m] = m
          BY <1>1, <2>3, <4>1 DEF FirstOnes
        <4>3. m \in 1..Plugins
          BY <1>1, <2>3, <4>1
        <4>. QED BY <2>3, <4>2, <4>3, OneLess
      <3>2. /\ up' = [up EXCEPT ![m] = 0] /\ tearing' = <<m - 1>>
            /\ UNCHANGED <<running, started, starts, booting>>
        <4>1. /\ up' = IF tearing[1] \in DOMAIN started
                        THEN [up EXCEPT ![started[tearing[1]]] = Host!Less(@)] ELSE up
              /\ tearing' = [tearing EXCEPT ![1] = @ - 1]
              /\ UNCHANGED <<running, started, starts, booting>>
          BY <2>2, <2>4, Zenon DEF Host!TearDown
        <4>2. tearing[1] = m
          BY <2>3
        <4>3. up' = [up EXCEPT ![m] = Host!Less(1)]
          BY <3>1, <4>1, <4>2
        <4>4. tearing' = <<m - 1>>
          BY <2>3, <4>1
        <4>5. Host!Less(1) = 0
          BY DEF Host!Less
        <4>. QED BY <4>1, <4>3, <4>4, <4>5, Zenon
      <3>3. up' = Standing(m - 1) /\ \A q \in m + 1..Plugins : up[q] = 0
        BY <2>3, <3>1, <3>2, OneLess
      <3>4. TearingDown'
        <4>1. m - 1 \in 0..Len(started')
          BY <1>1, <2>3, <3>1, <3>2
        <4>. QED BY <2>3, <3>2, <3>3, <4>1 DEF TearingDown, Standing
      <3>5. Last
        <4>1. \A p \in 1..Plugins : up'[p] < up[p] => p = m
          BY <2>3, <3>1, <3>3 DEF Standing
        <4>. QED BY <3>3, <4>1
      <3>. QED BY <1>1, <3>2, <3>4, <3>5 DEF PluginsInv, FirstOnes
    <2>5. CASE Host!TornDown(n)
      <3>1. m = 0 /\ started' = << >> /\ tearing' = << >>
            /\ UNCHANGED <<running, up, starts, booting>>
        BY <2>2, <2>3, <2>5, OneOnly DEF Host!TornDown
      <3>2. Settled' /\ FirstOnes(started')
        BY <2>3, <3>1 DEF Settled, FirstOnes, Standing
      <3>3. Last
        BY <1>1, <1>2, <2>3, <3>1
      <3>. QED BY <1>1, <3>1, <3>2, <3>3 DEF PluginsInv
    <2>. QED BY <1>4, <2>4, <2>5
  <1>. QED BY <1>3, <1>4

\* Short lists are lists.
LEMMA ListOfOne ==
    ASSUME NEW S
    PROVE  << >> \in Seq(S) /\ \A x \in S : <<x>> \in Seq(S)
  OBVIOUS

\* What the invariant says.
LEMMA PluginsInvTells == PluginsInv => Host!HostTyped /\ Host!AllOrNothing
  <1> SUFFICES ASSUME PluginsInv PROVE Host!HostTyped /\ Host!AllOrNothing
    OBVIOUS
  <1> USE PluginsCount
  <1>1. started \in Seq(1..Plugins) /\ Len(started) \in Nat /\ Len(started) <= Plugins
    BY DEF PluginsInv, FirstOnes
  <1>2. booting \in Seq(0..Plugins) /\ tearing \in Seq(Nat)
    <2>1. booting = << >> \/ booting = <<Len(started)>>
      BY DEF PluginsInv, Settled, SettingUp, TearingDown
    <2>2. tearing = << >> \/ \E m \in Nat : tearing = <<m>>
      BY <1>1 DEF PluginsInv, Settled, SettingUp, TearingDown
    <2>3. Len(started) \in 0..Plugins
      BY <1>1
    <2>4. booting \in Seq(0..Plugins)
      BY <2>1, <2>3, ListOfOne, Zenon
    <2>5. tearing \in Seq(Nat)
      BY <2>2, ListOfOne, Zenon
    <2>. QED BY <2>4, <2>5
  <1>3. up \in [1..Plugins -> 0..MaxStarts]
    <2>1. CASE starts = 0
      BY <1>1, <2>1 DEF PluginsInv, Settled, SettingUp, TearingDown, Standing
    <2>2. CASE starts # 0
      BY <1>1, <2>2 DEF PluginsInv, Settled, SettingUp, TearingDown, Standing
    <2>. QED BY <2>1, <2>2
  <1>4. Host!AllOrNothing
    BY <1>1 DEF PluginsInv, Settled, SettingUp, TearingDown, Standing, Host!AllOrNothing, Host!Idle
  <1>. QED BY <1>1, <1>2, <1>3, <1>4 DEF PluginsInv, Host!HostTyped

----------------------------------------------------------------------------
\* The tasks.

\* While the scheduler is stopped no timer is left, and the runs in flight are among those the
\* stop() awaits, or there are none when it has been answered.
TasksInv ==
    /\ Host!TasksTyped /\ Host!NoOverlap
    /\ scheduling \/ ticking # {} => epoch > 0
    /\ ~scheduling => ticking = {}
    /\ ~scheduling /\ patience = "waiting" =>
           \A t \in Task : inFlight[t] # 0 => <<t, inFlight[t]>> \in stopping
    /\ ~scheduling /\ patience = "answered" => \A t \in Task : inFlight[t] = 0

\* How the tasks begin.
LEMMA TasksStart == Host!TasksInit => TasksInv
  <1> SUFFICES ASSUME Host!TasksInit PROVE TasksInv
    OBVIOUS
  <1>1. /\ scheduling = FALSE /\ epoch = 0 /\ ticking = {}
        /\ inFlight = [t \in Task |-> 0] /\ bodies = [t \in Task |-> 0]
        /\ stopping = {} /\ patience = "none"
    BY Zenon DEF Host!TasksInit
  <1>2. 0 \in 0..MaxEpochs
    BY HostsAssumption DEF Host!HostAssumption
  <1>3. epoch \in 0..MaxEpochs /\ inFlight \in [Task -> 0..MaxEpochs] /\ bodies \in [Task -> Nat]
    BY <1>1, <1>2
  <1>4. Host!NoOverlap
    BY <1>1 DEF Host!NoOverlap
  <1>5. ~(scheduling \/ ticking # {}) /\ patience # "waiting" /\ patience # "answered"
    BY <1>1
  <1>6. Host!TasksTyped
    BY <1>1, <1>3, Zenon DEF Host!TasksTyped
  <1>. QED BY <1>1, <1>4, <1>5, <1>6, Zenon DEF TasksInv

\* A run begins where none is in flight.
LEMMA RunBegins ==
    ASSUME Host!TasksTyped, Host!NoOverlap, NEW ts, Host!runOnce(ts),
           epoch' \in 0..MaxEpochs, epoch' > 0
    PROVE  /\ inFlight' \in [Task -> 0..MaxEpochs] /\ bodies' \in [Task -> Nat]
           /\ Host!NoOverlap'
  <1>1. /\ inFlight' = [t \in Task |-> IF t \in ts /\ inFlight[t] = 0 THEN epoch' ELSE inFlight[t]]
        /\ bodies' = [t \in Task |-> IF t \in ts /\ inFlight[t] = 0 THEN bodies[t] + 1 ELSE bodies[t]]
    BY Zenon DEF Host!runOnce
  <1>. QED BY <1>1 DEF Host!TasksTyped, Host!NoOverlap

\* Every step of the tasks.
LEMMA TasksStep ==
    ASSUME TasksInv, Host!TasksNext
    PROVE  TasksInv'
  <1> USE HostsAssumption DEF Host!HostAssumption
  <1>1. CASE Host!StartTasks
    <2>1. /\ ~scheduling /\ epoch < MaxEpochs /\ scheduling' = TRUE /\ epoch' = epoch + 1
          /\ ticking' = Task /\ Host!runOnce(OnStart) /\ UNCHANGED <<stopping, patience>>
      BY <1>1, Zenon DEF Host!StartTasks
    <2>2. epoch' \in 0..MaxEpochs /\ epoch' > 0
      BY <2>1 DEF TasksInv, Host!TasksTyped
    <2>3. /\ inFlight' \in [Task -> 0..MaxEpochs] /\ bodies' \in [Task -> Nat]
          /\ Host!NoOverlap'
      BY <2>1, <2>2, RunBegins DEF TasksInv
    <2>. QED BY <2>1, <2>2, <2>3 DEF TasksInv, Host!TasksTyped
  <1>2. CASE Host!StopTasks
    <2>1. /\ scheduling /\ scheduling' = FALSE /\ ticking' = {} /\ stopping' = Host!Pending
          /\ patience' = IF Host!Pending = {} THEN "answered" ELSE "waiting"
          /\ UNCHANGED <<epoch, inFlight, bodies>>
      BY <1>2, Zenon DEF Host!StopTasks
    <2>2. Host!Pending = {<<t, inFlight[t]>> : t \in {u \in Task : inFlight[u] # 0}}
      BY DEF Host!Pending
    <2>3. stopping' \subseteq Task \X (1..MaxEpochs)
      BY <2>1, <2>2 DEF TasksInv, Host!TasksTyped
    <2>4. Host!NoOverlap'
      BY <2>1 DEF TasksInv, Host!NoOverlap
    <2>. QED BY <2>1, <2>2, <2>3, <2>4, ZenonT(40) DEF TasksInv, Host!TasksTyped
  <1>3. CASE Host!StopAnswers
    BY <1>3 DEF TasksInv, Host!TasksTyped, Host!NoOverlap, Host!StopAnswers
  <1>4. CASE Host!StopTimesOut
    BY <1>4 DEF TasksInv, Host!TasksTyped, Host!NoOverlap, Host!StopTimesOut
  <1>5. ASSUME NEW t \in Task, Host!Interval(t) PROVE TasksInv'
    <2>1. /\ t \in ticking /\ Host!runOnce({t})
          /\ UNCHANGED <<scheduling, epoch, ticking, stopping, patience>>
      BY <1>5, Zenon DEF Host!Interval
    <2>2. scheduling /\ epoch' \in 0..MaxEpochs /\ epoch' > 0
      BY <2>1 DEF TasksInv, Host!TasksTyped
    <2>3. /\ inFlight' \in [Task -> 0..MaxEpochs] /\ bodies' \in [Task -> Nat]
          /\ Host!NoOverlap'
      BY <2>1, <2>2, RunBegins DEF TasksInv
    <2>. QED BY <2>1, <2>2, <2>3 DEF TasksInv, Host!TasksTyped
  <1>6. ASSUME NEW t \in Task, Host!RunEnds(t) PROVE TasksInv'
    <2>1. /\ inFlight[t] # 0 /\ inFlight' = [inFlight EXCEPT ![t] = 0]
          /\ bodies' = [bodies EXCEPT ![t] = bodies[t] - 1]
          /\ stopping' = stopping \ {<<t, inFlight[t]>>}
          /\ UNCHANGED <<scheduling, epoch, ticking, patience>>
      BY <1>6, Zenon DEF Host!RunEnds
    <2>2. bodies[t] = 1
      BY <2>1 DEF TasksInv, Host!NoOverlap
    <2>3. Host!TasksTyped' /\ Host!NoOverlap'
      BY <2>1, <2>2 DEF TasksInv, Host!TasksTyped, Host!NoOverlap
    <2>4. \A u \in Task : inFlight'[u] # 0 => u # t /\ inFlight'[u] = inFlight[u]
      BY <2>1 DEF TasksInv, Host!TasksTyped
    <2>. QED BY <2>1, <2>3, <2>4 DEF TasksInv
  <1>. QED BY <1>1, <1>2, <1>3, <1>4, <1>5, <1>6, Zenon DEF Host!TasksNext

\* What the invariant says.
LEMMA TasksInvTells == TasksInv => Host!TasksTyped /\ Host!NoOverlap /\ Host!Quiet
  BY DEF TasksInv, Host!Quiet

----------------------------------------------------------------------------
\* The server on Node.

\* Handlers are counted, and once a close has drained none is left nor begins.
NodeInv ==
    /\ Host!ServerTyped
    /\ IsFiniteSet(handling) /\ counted = Cardinality(handling)
    /\ drain # "none" => closing
    /\ drain = "drained" => handling = {}

\* How the server begins.
LEMMA NodeStart == Host!ServerInit => NodeInv
  <1> SUFFICES ASSUME Host!ServerInit PROVE NodeInv
    OBVIOUS
  <1>1. /\ listening = FALSE /\ closing = FALSE /\ open = {} /\ handling = {} /\ refused = {}
        /\ counted = 0 /\ drain = "none" /\ closed = FALSE
    BY Zenon DEF Host!ServerInit
  <1>2. IsFiniteSet(handling) /\ counted = Cardinality(handling) /\ counted \in Nat
    BY <1>1, FS_EmptySet
  <1>3. Host!ServerTyped
    BY <1>1, <1>2, Zenon DEF Host!ServerTyped
  <1>. QED BY <1>1, <1>2, <1>3 DEF NodeInv

\* The host counts as this module does.
LEMMA HostCounts == \A S : Host!Cardinality(S) = Cardinality(S)
  BY DEF Host!Cardinality, Cardinality

\* Every step of the server.
LEMMA NodeStep ==
    ASSUME NodeInv, Host!ServerNext
    PROVE  NodeInv'
  <1>1. counted \in Nat /\ (counted = 0 <=> handling = {})
    BY FS_CardinalityType, FS_EmptySet DEF NodeInv
  <1>2. CASE Host!Listen
    BY <1>2 DEF NodeInv, Host!ServerTyped, Host!Listen
  <1>3. CASE Host!Close
    <2>1. /\ closing' = TRUE /\ listening' = FALSE
          /\ drain' = IF counted > 0 THEN "waiting" ELSE "drained"
          /\ UNCHANGED <<open, handling, refused, counted, closed>>
      BY <1>3, Zenon DEF Host!Close
    <2>2. drain' = "drained" => handling' = {}
      BY <1>1, <2>1
    <2>3. drain' \in {"waiting", "drained"}
      BY <2>1
    <2>4. Host!ServerTyped'
      BY <2>1, <2>3 DEF NodeInv, Host!ServerTyped
    <2>. QED BY <2>1, <2>2, <2>4 DEF NodeInv
  <1>4. CASE Host!TimeOut
    BY <1>4 DEF NodeInv, Host!ServerTyped, Host!TimeOut
  <1>5. CASE Host!CloseAll
    BY <1>5 DEF NodeInv, Host!ServerTyped, Host!CloseAll
  <1>6. ASSUME NEW c \in Connection, Host!Connect(c) PROVE NodeInv'
    BY <1>6 DEF NodeInv, Host!ServerTyped, Host!Connect
  <1>7. ASSUME NEW c \in Connection, Host!Disconnect(c) PROVE NodeInv'
    BY <1>7 DEF NodeInv, Host!ServerTyped, Host!Disconnect
  <1>8. ASSUME NEW c \in Connection, Host!Accept(c) PROVE NodeInv'
    <2>1. c \in open \ handling /\ UNCHANGED <<listening, closing, open, drain, closed>>
      BY <1>8, Zenon DEF Host!Accept
    <2>2. CASE closing
      BY <1>8, <2>1, <2>2 DEF NodeInv, Host!ServerTyped, Host!Accept
    <2>3. CASE ~closing
      <3>1. handling' = handling \cup {c} /\ counted' = counted + 1 /\ UNCHANGED refused
        BY <1>8, <2>3, Zenon DEF Host!Accept
      <3>2. IsFiniteSet(handling') /\ Cardinality(handling') = Cardinality(handling) + 1
        BY <2>1, <3>1, FS_AddElement DEF NodeInv
      <3>3. Host!ServerTyped'
        <4>1. counted' \in Nat
          BY <1>1, <3>1
        <4>2. handling' \subseteq Connection /\ open' = open /\ refused' = refused
              /\ listening' = listening /\ closing' = closing /\ drain' = drain /\ closed' = closed
          BY <2>1, <3>1 DEF NodeInv, Host!ServerTyped
        <4>. QED BY <4>1, <4>2, Zenon DEF NodeInv, Host!ServerTyped
      <3>4. drain' = "none"
        BY <2>1, <2>3 DEF NodeInv
      <3>5. counted' = Cardinality(handling')
        BY <3>1, <3>2 DEF NodeInv
      <3>. QED BY <3>2, <3>3, <3>4, <3>5 DEF NodeInv
    <2>. QED BY <2>2, <2>3
  <1>9. ASSUME NEW c \in Connection, NEW ok \in BOOLEAN, Host!Settle(c, ok) PROVE NodeInv'
    <2>1. /\ c \in handling /\ handling' = handling \ {c} /\ counted' = counted - 1
          /\ drain' = IF counted' = 0 /\ drain = "waiting" THEN "drained" ELSE drain
          /\ UNCHANGED <<listening, closing, open, refused, closed>>
      BY <1>9, Zenon DEF Host!Settle, Host!settleInFlight, Host!Waiters
    <2>2. IsFiniteSet(handling') /\ Cardinality(handling') = Cardinality(handling) - 1
      BY <2>1, FS_RemoveElement DEF NodeInv
    <2>3. counted' = Cardinality(handling') /\ counted' \in Nat
          /\ (counted' = 0 <=> handling' = {})
      BY <2>1, <2>2, FS_CardinalityType, FS_EmptySet DEF NodeInv
    <2>. QED BY <2>1, <2>2, <2>3 DEF NodeInv, Host!ServerTyped
  <1>. QED BY <1>2, <1>3, <1>4, <1>5, <1>6, <1>7, <1>8, <1>9, Zenon DEF Host!ServerNext

\* What the invariant says.
LEMMA NodeInvTells == NodeInv => Host!ServerTyped /\ Host!Graceful
  BY HostCounts DEF NodeInv, Host!Graceful

----------------------------------------------------------------------------
\* All of them together.

\* A step is one of a component, and leaves the others as they are.
Stepped ==
    /\ part' = part
    /\ PipelineNext \/ UNCHANGED pipelineVars
    /\ Cache!CacheNext \/ UNCHANGED caching
    /\ Host!HostNext \/ UNCHANGED plugging
    /\ Host!TasksNext \/ UNCHANGED scheduled
    /\ Host!ServerNext \/ UNCHANGED serving

serverVars == <<part, pipelineVars, routing, caching, plugging, scheduled, serving>>

\* A step of a request.
LEMMA StepOfRequest == ASSUME RequestNext PROVE Stepped
  <1>1. UNCHANGED <<part, routing, caching, plugging, scheduled, serving>> /\ PipelineNext
    BY DEF RequestNext, OfRequest, PipelineNext, Refresh
  <1>. QED BY <1>1 DEF Stepped

\* A step of the caches.
LEMMA StepOfCache == ASSUME CacheNext PROVE Stepped
  <1>1. UNCHANGED <<part, pipelineVars, routing, plugging, scheduled, serving>> /\ Cache!CacheNext
    BY DEF CacheNext, OfCache, Cache!CacheNext
  <1>. QED BY <1>1 DEF Stepped

\* A step of the host.
LEMMA StepOfHost == ASSUME HostNext PROVE Stepped
  <1>1. /\ UNCHANGED <<part, pipelineVars, routing, caching>>
        /\ \/ Host!HostNext /\ UNCHANGED <<scheduled, serving>>
           \/ Host!TasksNext /\ UNCHANGED <<plugging, serving>>
           \/ Host!ServerNext /\ UNCHANGED <<plugging, scheduled>>
    BY DEF HostNext, OfPlugins, OfTasks, OfNode, Host!HostNext, Host!TasksNext, Host!ServerNext
  <1>. QED BY <1>1 DEF Stepped

\* A step of anything.
LEMMA StepOfServer == [MCServerNext]_serverVars => Stepped
  <1>1. CASE UNCHANGED serverVars
    BY <1>1 DEF serverVars, Stepped
  <1>2. CASE OfRoutes(Routes!Dispatch)
    BY <1>2 DEF OfRoutes, Stepped
  <1>. QED BY <1>1, <1>2, StepOfRequest, StepOfCache, StepOfHost DEF MCServerNext

ServerInv ==
    /\ part \in Parts /\ PipelineInv /\ PipelineTyped /\ CacheInv
    /\ PluginsInv /\ TasksInv /\ NodeInv

\* What is left alone stays as it was.
LEMMA PipelineStays == PipelineInv /\ PipelineTyped /\ UNCHANGED pipelineVars
                           => PipelineInv' /\ PipelineTyped'
  BY DEF pipelineVars, PipelineInv, GuardInv, LeaveInv, RefreshInv, Chain, Covers, PipelineTyped

\* So do the caches that are left alone,
LEMMA CacheStaysAlone == CacheInv /\ UNCHANGED caching => CacheInv'
  <1> SUFFICES ASSUME CacheInv, UNCHANGED caching PROVE CacheInv'
    OBVIOUS
  <1>1. UNCHANGED <<kind, age, lru, tagIndex, varyIndex, varyRefs, inflight, shared, last, crossed>>
    BY DEF caching
  <1>2. CacheBooks' /\ LastStored'
    BY <1>1, CacheStays DEF CacheInv, CacheBooks
  <1>3. RunsCarry'
    BY <1>1 DEF CacheInv, RunsCarry
  <1>. QED BY <1>2, <1>3 DEF CacheInv

\* and the three parts of the host.
LEMMA HostStays ==
    /\ PluginsInv /\ UNCHANGED plugging => PluginsInv'
    /\ TasksInv /\ UNCHANGED scheduled => TasksInv'
    /\ NodeInv /\ UNCHANGED serving => NodeInv'
  <1>1. PluginsInv /\ UNCHANGED plugging => PluginsInv'
    <2> SUFFICES ASSUME PluginsInv, UNCHANGED plugging PROVE PluginsInv'
      OBVIOUS
    <2>1. /\ running' = running /\ started' = started /\ up' = up /\ starts' = starts
          /\ booting' = booting /\ tearing' = tearing
      BY DEF plugging
    <2>. QED
      BY <2>1, Zenon DEF PluginsInv, FirstOnes, Settled, SettingUp, TearingDown, Standing
  <1>2. TasksInv /\ UNCHANGED scheduled => TasksInv'
    BY DEF scheduled, TasksInv, Host!TasksTyped, Host!NoOverlap
  <1>3. NodeInv /\ UNCHANGED serving => NodeInv'
    <2> SUFFICES ASSUME NodeInv, UNCHANGED serving PROVE NodeInv'
      OBVIOUS
    <2>1. /\ listening' = listening /\ closing' = closing /\ open' = open
          /\ handling' = handling /\ refused' = refused /\ counted' = counted
          /\ drain' = drain /\ closed' = closed
      BY DEF serving
    <2>. QED BY <2>1, Zenon DEF NodeInv, Host!ServerTyped
  <1>. QED BY <1>1, <1>2, <1>3

\* The invariants of the components hold of all of them together.
LEMMA ServerInvariant == MCServerSpec => []ServerInv
  <1>1. MCServerInit => ServerInv
    BY PipelineStart, RequestStartTyped, CacheStart, PluginsStart, TasksStart, NodeStart
       DEF MCServerInit, ServerInv
  <1>2. ServerInv /\ [MCServerNext]_serverVars => ServerInv'
    <2> SUFFICES ASSUME ServerInv, [MCServerNext]_serverVars PROVE ServerInv'
      OBVIOUS
    <2>1. Stepped
      BY StepOfServer
    <2>2. part' \in Parts
      BY <2>1 DEF ServerInv, Stepped
    <2>3. PipelineInv' /\ PipelineTyped'
      BY <2>1, PipelineStays, InStep, HandleStep, OutStep, RefreshStep, RequestStepTyped
         DEF ServerInv, Stepped, PipelineNext
    <2>4. CacheInv'
      BY <2>1, CacheStep, CacheStaysAlone DEF ServerInv, Stepped
    <2>5. PluginsInv'
      BY <2>1, SettingUpStep, TearingDownStep, HostStays DEF ServerInv, Stepped, Host!HostNext
    <2>6. TasksInv' /\ NodeInv'
      BY <2>1, TasksStep, NodeStep, HostStays DEF ServerInv, Stepped
    <2>. QED BY <2>2, <2>3, <2>4, <2>5, <2>6 DEF ServerInv
  <1>. QED
    BY <1>1, <1>2, PTL DEF MCServerSpec, serverVars

\* Whatever requests, entries, runs, plugins, tasks and connections there are, every variable
\* of the component that runs keeps its type; what the routes choose is left to TLC.
THEOREM ServersAreTyped == MCServerSpec => [](part # "routes" => AllTyped)
  <1>1. ServerInv => (part # "routes" => AllTyped)
    BY CacheInvTyped, PluginsInvTells, TasksInvTells, NodeInvTells DEF ServerInv, Parts, AllTyped
  <1>. QED
    BY <1>1, ServerInvariant, PTL

\* For every number of paths, header values, tags and entries: the list, the tags and the
\* Vary rules of a cache describe its entries, of which there are no more than maxEntries,
\* and what was stored last for a path is what its next lookup finds (response-cache.ts
\* store, remove, releaseVary; data-cache.ts).
THEOREM CachesAgree == MCServerSpec => []IndexesAgree
  <1>1. ServerInv => IndexesAgree
    BY CacheInvFinds DEF ServerInv, IndexesAgree
  <1>. QED
    BY <1>1, ServerInvariant, PTL

\* For every number of plugins, starts, tasks and connections: a host that has settled has
\* all its plugins or none, teardown is in strict reverse, no task overlaps itself or runs
\* on after a stop() that was answered, and a close that drained cut no handler off
\* (plugins.ts, tasks.ts, node/index.ts).
THEOREM HostsAlwaysWindDown == MCServerSpec => HostsWindDown
  <1>1. ServerInv => Host!AllOrNothing /\ Host!NoOverlap /\ Host!Quiet /\ Host!Graceful
    BY PluginsInvTells, TasksInvTells, NodeInvTells DEF ServerInv
  <1>2. ServerInv /\ [MCServerNext]_serverVars =>
            [\A p \in 1..Plugins :
                up'[p] < up[p] => \A q \in p + 1..Plugins : up[q] = 0]_plugging
    <2> SUFFICES ASSUME ServerInv, [MCServerNext]_serverVars, ~UNCHANGED plugging
                 PROVE  \A p \in 1..Plugins :
                            up'[p] < up[p] => \A q \in p + 1..Plugins : up[q] = 0
      OBVIOUS
    <2>1. Host!HostNext
      BY StepOfServer DEF Stepped
    <2>. QED BY <2>1, SettingUpStep, TearingDownStep DEF ServerInv, Host!HostNext, Rising
  <1>. QED
    BY <1>1, <1>2, ServerInvariant, PTL
       DEF MCServerSpec, serverVars, plugging, HostsWindDown, Host!StrictReverse, Host!hostVars

\* The guards and the ends of requests, in what runs beside the others.
THEOREM RequestsAreGuarded == MCServerSpec => [](GuardsRan /\ LeavesNothing)
  <1>1. ServerInv => GuardsRan /\ LeavesNothing
    BY PipelineGuards, PipelineLeaves DEF ServerInv
  <1>. QED
    BY <1>1, ServerInvariant, PTL
=============================================================================
