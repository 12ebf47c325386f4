----------------------------- MODULE ClientProofs -----------------------------
(***************************************************************************)
(* What holds of everything that waits for answers on a client, for every  *)
(* number of mutations, runs, requests, sources, pages, hooks, tasks, paths *)
(* and components: an inductive invariant of each component, and theorems   *)
(* of MCAnswers, which is all of them together.                            *)
(***************************************************************************)
EXTENDS MCAnswers, FiniteSetTheorems, SequenceTheorems, TLAPS


----------------------------------------------------------------------------
\* Proofs about Optimistic, for every number of mutations and retries.
\* RoughInv holds whatever effects do; SettledInv as long as they neither
\* throw nor roll back the mutation that is being settled.

\* The types, and where runCommit can be for an entry of each status.
RoughInv ==
    /\ TypeOK
    /\ queue \subseteq Pending
    /\ \A m \in Mutation :
         /\ status[m] = "unmade" => phase[m] = "idle"
         /\ phase[m] = "backoff" => attempt[m] < MaxRetries /\ status[m] = "pending"
         /\ phase[m] = "sent" => status[m] = "pending" \/ m \in aborted

\* Setting some mutations of a table to a value changes those and no others.
LEMMA SetType ==
    ASSUME NEW S, NEW f \in [Mutation -> S], NEW ms, NEW v \in S
    PROVE  /\ Set(f, ms, v) \in [Mutation -> S]
           /\ \A m \in Mutation : Set(f, ms, v)[m] = IF m \in ms THEN v ELSE f[m]
  BY DEF Set

\* Counting one more for some mutations changes those and no others.
LEMMA CountType ==
    ASSUME NEW f \in [Mutation -> Nat], NEW ms
    PROVE  /\ Count(f, ms) \in [Mutation -> Nat]
           /\ \A m \in Mutation : Count(f, ms)[m] = IF m \in ms THEN f[m] + 1 ELSE f[m]
  BY DEF Count

\* A fresh queue satisfies the invariant that survives throwing effects.
LEMMA RoughInit == Init => RoughInv
  <1> SUFFICES ASSUME Init PROVE RoughInv
    OBVIOUS
  <1>1. 0 \in 0..MaxRetries /\ 0 \in Nat
    BY QueueAssumption
  <1>2. TypeOK
    <2>1. /\ attempt \in [Mutation -> 0..MaxRetries] /\ base \in [Mutation -> Nat]
          /\ onRollback \in [Mutation -> Nat] /\ onCommit \in [Mutation -> Nat]
      BY <1>1 DEF Init
    <2>2. QED
      BY <2>1, QueueAssumption DEF Init, TypeOK
  <1>3. QED
    BY <1>2 DEF Init, RoughInv, Pending

\* Every action of the queue keeps it, one step per action.
LEMMA RoughStep == RoughInv /\ [Next]_vars => RoughInv'
  <1> SUFFICES ASSUME RoughInv, [Next]_vars PROVE RoughInv'
    OBVIOUS
  <1> USE QueueAssumption DEF RoughInv, TypeOK
  <1>1. ASSUME NEW m \in Mutation, Mutate(m) PROVE RoughInv'
    <2>1. m \in Mutation /\ status[m] = "unmade" /\ phase[m] = "idle"
      BY <1>1 DEF Mutate, Unmade
    <2>2. CASE disposed
      BY <1>1, <2>1, <2>2 DEF Mutate, Pending
    <2>3. CASE ~disposed
      <3>1. /\ status' = [status EXCEPT ![m] = "pending"] /\ queue' = queue \cup {m}
            /\ phase' = [phase EXCEPT ![m] = "sent"] /\ settled' = settled
            /\ UNCHANGED <<attempt, base, aborted, onRollback, onCommit, disposed>>
            /\ UNCHANGED <<waiter, awaited, effects>>
        BY <1>1, <2>3 DEF Mutate
      <3>2. TypeOK'
        BY <2>1, <3>1
      <3>3. queue' \subseteq Pending'
        BY <2>1, <3>1 DEF Pending
      <3>4. QED
        BY <2>1, <3>1, <3>2, <3>3
    <2>4. QED
      BY <2>2, <2>3
  <1>2. ASSUME NEW m \in Mutation, Commit(m) PROVE RoughInv'
    BY <1>2 DEF Commit, Pending, Meddling, Set, Count, Woken
  <1>3. ASSUME NEW m \in Mutation, phase[m] = "sent", m \in Pending, Caught(m),
               base' \in [Mutation -> Nat],
               UNCHANGED <<attempt, onCommit, disposed, waiter, awaited, effects>>
        PROVE  RoughInv'
    <2>1. CASE /\ MayRetry(m)
               /\ phase' = Set(phase, {m}, "backoff")
               /\ queue' = queue \ (IF base' = base THEN {} ELSE {m})
               /\ UNCHANGED <<status, aborted, settled, onRollback>>
      BY <1>3, <2>1 DEF Pending, MayRetry, Set
    <2>2. CASE phase' = Set(phase, {m}, "ended") /\ RollbackEntries({m})
      BY <1>3, <2>2 DEF Pending, RollbackEntries, Set, Count
    <2>3. QED
      BY <1>3, <2>1, <2>2 DEF Caught
  <1>4. ASSUME NEW m \in Mutation, Fail(m) PROVE RoughInv'
    BY <1>3, <1>4 DEF Fail
  <1>5. ASSUME NEW m \in Mutation, CommitThrown(m) PROVE RoughInv'
    BY <1>3, <1>5, CountType DEF CommitThrown
  <1>6. ASSUME NEW m \in Mutation, AnswerLate(m) PROVE RoughInv'
    BY <1>6 DEF AnswerLate, Pending, Set
  <1>7. ASSUME NEW m \in Mutation, BackoffOver(m) PROVE RoughInv'
    BY <1>7 DEF BackoffOver, Pending, Set, Count
  <1>8. ASSUME NEW m \in Mutation, Rollback(m) PROVE RoughInv'
    BY <1>8 DEF Rollback, Pending, Meddling, Set, Count, Woken
  <1>9. ASSUME NEW m \in Mutation, RollbackThrown(m) PROVE RoughInv'
    BY <1>9 DEF RollbackThrown, Pending, Set, Woken
  <1>10. CASE RollbackAll
    <2> DEFINE all == queue \cap Pending
    <2>1. /\ phase' = Set(phase, Woken(all), "ended")
          /\ status' = Set(status, all, "rolled-back")
          /\ queue' = queue \ all /\ aborted' = aborted \cup all
          /\ settled' = settled \cup all /\ onRollback' = Count(onRollback, all)
          /\ UNCHANGED <<attempt, base, onCommit, disposed, waiter, awaited, effects>>
      BY <1>10 DEF RollbackAll, RollbackEntries
    <2>2. all \subseteq Mutation /\ all \subseteq Pending /\ queue \ all = {}
      BY DEF Pending
    <2> HIDE DEF all
    <2>3. TypeOK'
      BY <2>1, <2>2, CountType DEF Set
    <2>4. QED
      BY <2>1, <2>2, <2>3 DEF Pending, Set, Woken
  <1>11. CASE Dispose
    BY <1>11 DEF Dispose, Pending, Set, Woken
  <1>12. CASE WhenSettled \/ WakeUp
    BY <1>12 DEF WhenSettled, WakeUp, Look, entries, Pending
  <1>13. CASE UNCHANGED vars
    BY <1>13 DEF vars, entries, Pending
  <1>14. QED
    BY <1>1, <1>2, <1>4, <1>5, <1>6, <1>7, <1>8, <1>9, <1>10, <1>11, <1>12, <1>13
    DEF Next, Answer

\* So it holds in every reachable state of the queue.
LEMMA RoughInvariant == Spec => []RoughInv
  BY RoughInit, RoughStep, PTL DEF Spec

\* Every variable stays in its type; in particular no mutation is tried more often
\* than the retry policy allows.
THEOREM TypeCorrect == Spec => []TypeOK
  <1>1. RoughInv => TypeOK
    BY DEF RoughInv
  <1>2. QED
    BY RoughInvariant, <1>1, PTL

\* rollbackEntry and dispose (optimistic.ts:322, :493) leave no settled entry in the
\* queue and no request that does not know it is abandoned, even if effects throw.
THEOREM AbandonedForGood == Spec => [](NothingLingers /\ AbandonedIsAborted)
  <1>1. RoughInv => NothingLingers /\ AbandonedIsAborted
    BY DEF RoughInv, NothingLingers, AbandonedIsAborted, Pending
  <1>2. QED
    BY RoughInvariant, <1>1, PTL

----------------------------------------------------------------------------
\* An entry is pending and projected, or committed and told so, or rolled back.
SettledInv ==
    /\ RoughInv
    /\ queue = Pending
    /\ disposed => queue = {}
    /\ \A m \in aborted : status[m] = "rolled-back"
    /\ \A m \in Mutation :
         /\ onCommit[m] = IF status[m] = "committed" THEN 1 ELSE 0
         /\ onRollback[m] \in IF status[m] = "rolled-back" THEN {0, 1} ELSE {0}
         /\ base[m] \in IF status[m] = "committed" THEN {0, 1} ELSE {0}

\* A fresh queue has settled: nothing is queued, applied or rolled back.
LEMMA SettledInit == Init => SettledInv
  BY RoughInit, QueueAssumption DEF Init, SettledInv, Pending

\* If effects neither throw nor roll back, every action leaves the queue settled.
LEMMA SettledStep ==
    ASSUME Gentle, SettledInv, [Next]_vars
    PROVE  SettledInv'
  <1>0. RoughInv'
    BY RoughStep DEF SettledInv
  <1> USE <1>0 DEF SettledInv, RoughInv, TypeOK, Pending, Gentle
  <1>1. ASSUME NEW m \in Mutation, Mutate(m) PROVE SettledInv'
    BY <1>1 DEF Mutate, Unmade
  <1>2. ASSUME NEW m \in Mutation, Commit(m) PROVE SettledInv'
    BY <1>2, QueueAssumption DEF Commit, Meddling, Set, Count
  <1>3. ASSUME NEW m \in Mutation, Fail(m) PROVE SettledInv'
    BY <1>3 DEF Fail, Caught, RollbackEntries, Set, Count
  <1>4. ASSUME NEW m \in Mutation, CommitThrown(m) \/ RollbackThrown(m) PROVE SettledInv'
    BY <1>4 DEF CommitThrown, RollbackThrown
  <1>5. ASSUME NEW m \in Mutation, AnswerLate(m) PROVE SettledInv'
    BY <1>5 DEF AnswerLate, Set
  <1>6. ASSUME NEW m \in Mutation, BackoffOver(m) PROVE SettledInv'
    BY <1>6 DEF BackoffOver, Set, Count
  <1>7. ASSUME NEW m \in Mutation, Rollback(m) PROVE SettledInv'
    <2>1. PICK others \in SUBSET (Pending \ {m}) :
            /\ status' = Set(status, others \cup {m}, "rolled-back")
            /\ queue' = queue \ (others \cup {m})
            /\ aborted' = aborted \cup others \cup {m}
            /\ onRollback' = Count(Count(onRollback, others), {m})
      BY <1>7 DEF Rollback, Meddling
    <2>2. m \in Pending /\ UNCHANGED <<base, onCommit, disposed>>
      BY <1>7 DEF Rollback
    <2>3. \A k \in Mutation :
            onRollback'[k] = IF k \in others \cup {m} THEN onRollback[k] + 1 ELSE onRollback[k]
      BY <2>1, CountType
    <2>4. \A k \in Mutation :
            status'[k] = IF k \in others \cup {m} THEN "rolled-back" ELSE status[k]
      BY <2>1 DEF Set
    <2> DEFINE ended == others \cup {m}
    <2>5. /\ ended \subseteq Mutation
          /\ \A k \in ended : status[k] = "pending"
      BY <2>2
    <2> HIDE DEF ended
    <2>6. queue' = Pending' /\ (disposed' => queue' = {})
      <3>1. queue' = queue \ ended
        BY <2>1 DEF ended
      <3>2. \A k \in Mutation : status'[k] = IF k \in ended THEN "rolled-back" ELSE status[k]
        BY <2>4 DEF ended
      <3>3. QED
        BY <2>2, <3>1, <3>2
    <2>7. \A k \in aborted' : status'[k] = "rolled-back"
      <3>1. aborted' = aborted \cup ended
        BY <2>1 DEF ended
      <3>2. QED
        BY <2>4, <2>5, <3>1 DEF ended
    <2>8. \A k \in Mutation :
            /\ onCommit'[k] = IF status'[k] = "committed" THEN 1 ELSE 0
            /\ onRollback'[k] \in IF status'[k] = "rolled-back" THEN {0, 1} ELSE {0}
            /\ base'[k] \in IF status'[k] = "committed" THEN {0, 1} ELSE {0}
      <3>1. \A k \in Mutation \ ended :
              status'[k] = status[k] /\ onRollback'[k] = onRollback[k]
        BY <2>3, <2>4 DEF ended
      <3>2. \A k \in ended : status'[k] = "rolled-back" /\ onRollback'[k] = 0 + 1
        BY <2>3, <2>4, <2>5 DEF ended
      <3>3. \A k \in Mutation : onCommit'[k] = onCommit[k] /\ base'[k] = base[k]
        BY <2>2
      <3>4. QED
        BY <2>5, <3>1, <3>2, <3>3
    <2>9. QED
      BY <2>6, <2>7, <2>8
  <1>8. CASE RollbackAll
    BY <1>8 DEF RollbackAll, RollbackEntries, Set, Count
  <1>9. CASE Dispose
    BY <1>9 DEF Dispose, Set
  <1>10. CASE WhenSettled \/ WakeUp
    BY <1>10 DEF WhenSettled, WakeUp, Look, entries
  <1>11. CASE UNCHANGED vars
    BY <1>11 DEF vars, entries
  <1>12. QED
    BY <1>1, <1>2, <1>3, <1>4, <1>5, <1>6, <1>7, <1>8, <1>9, <1>10, <1>11
    DEF Next, Answer

\* The kind of effects an application has does not change.
LEMMA EffectsStay == [Next]_vars => effects' = effects
  BY DEF Next, vars, Mutate, Answer, Commit, CommitThrown, Fail, AnswerLate, BackoffOver,
         Rollback, RollbackThrown, RollbackAll, Dispose, WhenSettled, WakeUp, Look

\* So a queue of such effects is settled in every reachable state.
LEMMA SettledInvariant == Spec => [](Gentle => SettledInv)
  <1>1. (Gentle => SettledInv) /\ [Next]_vars => (Gentle => SettledInv)'
    BY SettledStep, EffectsStay DEF Gentle
  <1>2. QED
    BY SettledInit, <1>1, PTL DEF Spec

\* The value is the base with exactly the pending changes over it (optimistic.ts:47),
\* and shows none of them twice.
THEOREM ProjectionIsRight == Spec => [](QueueIsPending /\ ShowsOnce)
  <1>1. (Gentle => SettledInv) => QueueIsPending /\ ShowsOnce
    BY DEF SettledInv, RoughInv, TypeOK, QueueIsPending, ShowsOnce, Pending
  <1>2. QED
    BY SettledInvariant, <1>1, PTL

\* A late answer never brings back what was rolled back (optimistic.ts:358), and the
\* application is told at most once how a mutation ended.
THEOREM NeverResurrected == Spec => []RolledBackIsGone
  <1>1. (Gentle => SettledInv) => RolledBackIsGone
    BY DEF SettledInv, RoughInv, TypeOK, RolledBackIsGone, NothingComesBack, ReportedOnce,
           Pending
  <1>2. QED
    BY SettledInvariant, <1>1, PTL


----------------------------------------------------------------------------
\* Proofs, for any number of observers, runs, retries and versions of the server's state.
\* One invariant carries them all: the promise and the abort controller belong to the last
\* run, which is the only one not over (OneRun).

OneRun ==
    /\ cancelledFetchId <= fetchId
    /\ promise \in {0, fetchId}
    /\ \A r \in Run : runs[r].phase # "none" <=> r = promise
    /\ abortController \in {0, promise}
    /\ promise # 0 /\ ~Cancelled(promise) => abortController = promise

USE QueryAssumption DEF Run, Version

\* A run that waits has an attempt left.
Waits == \A r \in Run : runs[r].phase = "backoff" => runs[r].attempt < Retries

States == [data : {0} \cup Version, status : {"pending", "success", "error"},
           fetchStatus : {"idle", "fetching"}, isInvalidated : BOOLEAN]
RunStates == [phase : {"none", "calling", "read", "backoff", "settled"},
              attempt : 0..Retries, read : {0} \cup Version]

IInv == QueryTyped /\ Waits /\ OneRun /\ FetchingIsTrue /\ ObservedIsKept

\* A new query satisfies the invariant.
LEMMA InitIInv == QueryInit => IInv
<1> SUFFICES ASSUME QueryInit PROVE IInv
  OBVIOUS
<1> USE DEF QueryInit, Nothing
<1>1. QueryTyped
  <2>1. state \in States BY DEF States
  <2>2. Nothing \in RunStates BY DEF RunStates
  <2>3. runs \in [Run -> RunStates] BY <2>2
  <2>4. gc \in BOOLEAN OBVIOUS
  <2>5. server \in Version /\ since \in {0} \cup Version OBVIOUS
  <2>6. /\ fetchId \in 0..MaxRuns /\ cancelledFetchId \in 0..MaxRuns
        /\ promise \in 0..MaxRuns /\ abortController \in 0..MaxRuns
        /\ signalled \subseteq Run /\ observers \subseteq Observer
    OBVIOUS
  <2>. HIDE DEF QueryInit, Nothing, Run, Version
  <2>. QED BY <2>1, <2>3, <2>4, <2>5, <2>6 DEF QueryTyped, States, RunStates
<1>2. \A r \in Run : runs[r].phase = "none" OBVIOUS
<1>3. OneRun BY <1>2 DEF OneRun
<1>4. FetchingIsTrue BY <1>2 DEF FetchingIsTrue, Live
<1>5. ObservedIsKept BY DEF ObservedIsKept
<1>6. Waits BY <1>2 DEF Waits
<1>. QED BY <1>1, <1>3, <1>4, <1>5, <1>6 DEF IInv

\* What the steps do to one run keeps it well-typed and waiting only while it may.
LEMMA RunTyped ==
    ASSUME runs \in [Run -> RunStates], Waits, NEW r \in Run, NEW x \in RunStates,
           x.phase = "backoff" => x.attempt < Retries,
           runs' = [runs EXCEPT ![r] = x]
    PROVE  runs' \in [Run -> RunStates] /\ Waits'
BY DEF Waits

\* Every step keeps the types.
LEMMA StepTypeOK == QueryTyped /\ Waits /\ [QueryNext]_queryVars => QueryTyped' /\ Waits'
<1> SUFFICES ASSUME QueryTyped, Waits, [QueryNext]_queryVars PROVE QueryTyped' /\ Waits'
  OBVIOUS
<1> USE DEF control
<1>0. /\ state \in States /\ runs \in [Run -> RunStates]
      /\ fetchId \in 0..MaxRuns /\ cancelledFetchId \in 0..MaxRuns
      /\ promise \in 0..MaxRuns /\ abortController \in 0..MaxRuns /\ signalled \subseteq Run
      /\ observers \subseteq Observer /\ gc \in BOOLEAN
      /\ server \in Version /\ since \in {0} \cup Version
  BY DEF QueryTyped, States, RunStates
<1>a. SUFFICES /\ state' \in States /\ runs' \in [Run -> RunStates] /\ Waits'
               /\ fetchId' \in 0..MaxRuns /\ cancelledFetchId' \in 0..MaxRuns
               /\ promise' \in 0..MaxRuns /\ abortController' \in 0..MaxRuns /\ signalled' \subseteq Run
               /\ observers' \subseteq Observer /\ gc' \in BOOLEAN
               /\ server' \in Version /\ since' \in {0} \cup Version
  BY DEF QueryTyped, States, RunStates
<1>e. [state EXCEPT !.fetchStatus = "idle"] \in States BY <1>0 DEF States
<1>b. [state EXCEPT !.isInvalidated = TRUE] \in States BY <1>0 DEF States
<1>c. UNCHANGED runs => Waits' BY DEF Waits
<1>d. Stopped => cancelledFetchId' \in 0..MaxRuns /\ signalled' \subseteq Run
  BY <1>0 DEF Stopped
<1>1. CASE Write BY <1>0, <1>1, <1>c DEF Write
<1>2. CASE Invalidate BY <1>0, <1>2, <1>b, <1>c DEF Invalidate
<1>3. CASE Cancel
  <2>1. gc' \in BOOLEAN BY <1>0, <1>3 DEF Cancel
  <2>2. /\ fetchId' \in 0..MaxRuns /\ promise' \in 0..MaxRuns /\ abortController' \in 0..MaxRuns
        /\ cancelledFetchId' \in 0..MaxRuns /\ signalled' \subseteq Run
    BY <1>0, <1>3, <1>d DEF Cancel
  <2>. QED BY <1>0, <1>3, <1>e, <1>c, <2>1, <2>2 DEF Cancel
<1>5. CASE Fetch
  <2>1. fetchId' \in Run BY <1>0, <1>5 DEF Fetch
  <2>2. runs' \in [Run -> RunStates] /\ Waits'
    <3>1. [Nothing EXCEPT !.phase = "calling"] \in RunStates
          /\ [Nothing EXCEPT !.phase = "calling"].phase = "calling"
      BY DEF Nothing, RunStates
    <3>. QED BY <1>0, <1>5, <2>1, <3>1, RunTyped DEF Fetch
  <2>3. state' \in States
    BY <1>0, <1>5 DEF Fetch, States
  <2>. QED BY <1>0, <1>5, <1>d, <2>1, <2>2, <2>3 DEF Fetch
<1>6. CASE Collect
  <2>1. gc' \in BOOLEAN BY <1>0, <1>6 DEF Collect
  <2>2. /\ fetchId' \in 0..MaxRuns /\ promise' \in 0..MaxRuns /\ abortController' \in 0..MaxRuns
        /\ cancelledFetchId' \in 0..MaxRuns /\ signalled' \subseteq Run
    BY <1>0, <1>6, <1>d DEF Collect
  <2>. QED BY <1>0, <1>6, <1>e, <1>c, <2>1, <2>2 DEF Collect
<1>7. ASSUME NEW r \in Run, Progress(r)
     PROVE  /\ state' \in States /\ runs' \in [Run -> RunStates] /\ Waits'
            /\ UNCHANGED <<observers, gc, server, since>>
            /\ fetchId' \in 0..MaxRuns /\ cancelledFetchId' \in 0..MaxRuns
            /\ promise' \in 0..MaxRuns /\ abortController' \in 0..MaxRuns /\ signalled' \subseteq Run
           
  <2>0. runs[r] \in RunStates BY <1>0
  <2>1. CASE Reads(r)
    <3>1. [runs[r] EXCEPT !.phase = "read", !.read = server] \in RunStates
          /\ [runs[r] EXCEPT !.phase = "read", !.read = server].phase # "backoff"
      BY <1>0, <2>0 DEF RunStates
    <3>2. runs' \in [Run -> RunStates] /\ Waits'
      BY <1>0, <2>1, <3>1, RunTyped DEF Reads
    <3>. QED BY <1>0, <2>1, <3>2 DEF Reads
  <2>2. Settle(r) => runs' \in [Run -> RunStates] /\ Waits'
    <3>1. [runs[r] EXCEPT !.phase = "settled"] \in RunStates
          /\ [runs[r] EXCEPT !.phase = "settled"].phase # "backoff"
      BY <2>0 DEF RunStates
    <3>. QED BY <1>0, <3>1, RunTyped DEF Settle
  <2>3. Failed(r) => /\ runs' \in [Run -> RunStates] /\ Waits'
                     /\ state' \in States
    <3>1. [state EXCEPT !.status = "error", !.fetchStatus = "idle"] \in States
      BY <1>0 DEF States
    <3>2. CASE Cancelled(r) BY <1>0, <2>2, <3>2 DEF Failed
    <3>3. CASE ~Cancelled(r) BY <1>0, <2>2, <3>1, <3>3 DEF Failed
    <3>. QED BY <3>2, <3>3
  <2>4. CASE Succeed(r)
    <3>1. [data |-> runs[r].read, status |-> "success", fetchStatus |-> "idle",
           isInvalidated |-> FALSE] \in States
      BY <2>0 DEF States, RunStates
    <3>2. ~Cancelled(r) => state' \in States BY <2>4, <3>1 DEF Succeed
    <3>3. CASE Cancelled(r) BY <1>0, <2>2, <2>4, <3>3 DEF Succeed
    <3>4. CASE ~Cancelled(r) BY <1>0, <2>2, <2>4, <3>2, <3>4 DEF Succeed
    <3>. QED BY <3>3, <3>4
  <2>5. CASE CallFails(r)
    <3>1. CASE Failed(r) BY <1>0, <2>3, <2>5, <3>1 DEF CallFails
    <3>2. CASE ~Failed(r)
      <4>1. [runs[r] EXCEPT !.phase = "backoff", !.read = 0] \in RunStates
            /\ [runs[r] EXCEPT !.phase = "backoff", !.read = 0].attempt = runs[r].attempt
        BY <2>0 DEF RunStates
      <4>2. runs[r].attempt < Retries BY <2>5, <3>2 DEF CallFails
      <4>3. runs' \in [Run -> RunStates] /\ Waits'
        BY <1>0, <2>5, <3>2, <4>1, <4>2, RunTyped DEF CallFails
      <4>. QED BY <1>0, <2>5, <3>2, <4>3 DEF CallFails
    <3>. QED BY <3>1, <3>2
  <2>6. CASE Retry(r)
    <3>1. CASE Failed(r) BY <1>0, <2>3, <2>6, <3>1 DEF Retry
    <3>2. CASE ~Failed(r)
      <4> DEFINE x == [phase |-> "calling", attempt |-> runs[r].attempt + 1, read |-> 0]
      <4>1. runs[r].attempt < Retries /\ runs[r].attempt \in Nat
        BY <2>0, <2>6 DEF Retry, Waits, RunStates
      <4>2. x \in RunStates /\ x.phase # "backoff" BY <4>1 DEF RunStates
      <4>3. runs' = [runs EXCEPT ![r] = x] BY <2>6, <3>2 DEF Retry
      <4>4. runs' \in [Run -> RunStates] /\ Waits'
        BY <1>0, <4>2, <4>3, RunTyped
      <4>. QED BY <1>0, <2>6, <3>2, <4>4 DEF Retry
    <3>. QED BY <3>1, <3>2
  <2>7. CASE Finally(r)
    <3>1. Nothing \in RunStates /\ Nothing.phase # "backoff" BY DEF Nothing, RunStates
    <3>2. runs' \in [Run -> RunStates] /\ Waits' BY <1>0, <2>7, <3>1, RunTyped DEF Finally
    <3>. QED BY <1>0, <2>7, <3>2 DEF Finally
  <2>. QED BY <1>7, <2>1, <2>4, <2>5, <2>6, <2>7 DEF Progress
<1>8. ASSUME NEW o \in Observer, AddObserver(o) \/ RemoveObserver(o)
     PROVE  UNCHANGED <<state, runs, control, server, since>>
            /\ observers' \subseteq Observer /\ gc' \in BOOLEAN
  BY <1>0, <1>8 DEF AddObserver, RemoveObserver
<1>9. CASE UNCHANGED queryVars BY <1>0, <1>9, <1>c DEF queryVars
<1>10. CASE \E r \in Run : Progress(r) BY <1>0, <1>7, <1>10
<1>11. CASE \E o \in Observer : AddObserver(o) \/ RemoveObserver(o)
  BY <1>0, <1>8, <1>11, <1>c
<1>. QED BY <1>1, <1>2, <1>3, <1>5, <1>6, <1>9, <1>10, <1>11 DEF QueryNext

\* Every step leaves the promise and the controller with the one run that is not over.
LEMMA StepOneRun == QueryTyped /\ OneRun /\ [QueryNext]_queryVars => OneRun'
<1> SUFFICES ASSUME QueryTyped, OneRun, [QueryNext]_queryVars PROVE OneRun'
  OBVIOUS
<1> USE DEF OneRun, Cancelled, control
<1>0. /\ fetchId \in 0..MaxRuns /\ cancelledFetchId \in 0..MaxRuns
      /\ runs \in [Run -> RunStates]
  BY DEF QueryTyped, RunStates
<1>1. CASE Write BY <1>1 DEF Write
<1>2. CASE Invalidate BY <1>2 DEF Invalidate
<1>3. CASE Cancel BY <1>0, <1>3 DEF Cancel, Stopped
<1>5. CASE Fetch BY <1>0, <1>5 DEF Fetch, Stopped, Nothing
<1>6. CASE Collect BY <1>0, <1>6 DEF Collect, Stopped
<1>7. ASSUME NEW r \in Run, Progress(r) PROVE OneRun'
  <2>1. r = promise
    BY <1>7 DEF Progress, Reads, Succeed, CallFails, Retry, Finally
  <2>2. CASE Finally(r)
    BY <1>0, <2>1, <2>2 DEF Finally, Nothing
  <2>3. CASE ~Finally(r)
    <3>1. UNCHANGED control
      BY <1>7, <2>3 DEF Progress, Reads, Succeed, CallFails, Retry
    <3>2. /\ runs'[r].phase # "none"
          /\ \A s \in Run \ {r} : runs'[s] = runs[s]
      <4>1. ASSUME NEW x, x.phase # "none", runs' = [runs EXCEPT ![r] = x]
            PROVE  runs'[r].phase # "none" /\ \A s \in Run \ {r} : runs'[s] = runs[s]
        BY <1>0, <4>1
      <4>2. runs[r] = [phase |-> runs[r].phase, attempt |-> runs[r].attempt, read |-> runs[r].read]
        BY <1>0 DEF RunStates
      <4>3. CASE Reads(r) BY <4>1, <4>2, <4>3 DEF Reads
      <4>4. Settle(r) => runs'[r].phase # "none" /\ \A s \in Run \ {r} : runs'[s] = runs[s]
        BY <4>1, <4>2 DEF Settle
      <4>5. CASE Succeed(r) BY <4>4, <4>5 DEF Succeed
      <4>6. CASE CallFails(r) BY <4>1, <4>2, <4>4, <4>6 DEF CallFails, Failed
      <4>7. CASE Retry(r) BY <4>1, <4>4, <4>7 DEF Retry, Failed
      <4>. QED BY <1>7, <2>3, <4>3, <4>5, <4>6, <4>7 DEF Progress
    <3>. QED BY <2>1, <3>1, <3>2
  <2>. QED BY <2>2, <2>3
<1>8. ASSUME NEW o \in Observer, AddObserver(o) \/ RemoveObserver(o) PROVE OneRun'
  BY <1>8 DEF AddObserver, RemoveObserver
<1>9. CASE UNCHANGED queryVars BY <1>9 DEF queryVars
<1>. QED BY <1>1, <1>2, <1>3, <1>5, <1>6, <1>7, <1>8, <1>9 DEF QueryNext

\* Adding an observer calls the collection off; only the last to leave schedules it.
LEMMA StepObserved == ObservedIsKept /\ [QueryNext]_queryVars => ObservedIsKept'
BY DEF ObservedIsKept, QueryNext, queryVars, Write, Invalidate, Cancel, Fetch, Collect, Progress,
       Reads, Succeed, CallFails, Retry, Finally, AddObserver, RemoveObserver

\* Where a run is, and what the state becomes, with each of its steps.
LEMMA StepOfRun ==
    ASSUME QueryTyped, OneRun, NEW r \in Run, Progress(r)
    PROVE  /\ r = promise /\ \A s \in Run \ {r} : ~Live(s) /\ ~Live(s)'
           /\ cancelledFetchId' = cancelledFetchId
           /\ \/ Live(r) /\ Live(r)' /\ UNCHANGED state
              \/ Live(r) /\ ~Live(r)' /\ runs'[r].phase = "settled"
                 /\ IF Cancelled(r) THEN UNCHANGED state ELSE state'.fetchStatus = "idle"
              \/ ~Live(r) /\ ~Live(r)' /\ UNCHANGED state
<1>0. runs \in [Run -> RunStates] /\ state \in States
  BY DEF QueryTyped, RunStates, States
<1>1. r = promise
  BY DEF OneRun, Progress, Reads, Succeed, CallFails, Retry, Finally
<1>2. \A s \in Run \ {r} : runs'[s] = runs[s]
  BY <1>0 DEF Progress, Reads, Succeed, CallFails, Retry, Finally, Failed, Settle
<1>3. \A s \in Run \ {r} : ~Live(s) /\ ~Live(s)'
  BY <1>1, <1>2 DEF OneRun, Live
<1>4. Settle(r) => runs'[r].phase = "settled" /\ ~Live(r)'
  BY <1>0 DEF Settle, Live, RunStates
<1>5. [state EXCEPT !.status = "error", !.fetchStatus = "idle"].fetchStatus = "idle"
  BY <1>0 DEF States
<1>6. Failed(r) => /\ ~Live(r)' /\ runs'[r].phase = "settled"
                   /\ IF Cancelled(r) THEN UNCHANGED state ELSE state'.fetchStatus = "idle"
  BY <1>4, <1>5 DEF Failed
<1>7. CASE Reads(r)
  <2>1. [runs[r] EXCEPT !.phase = "read", !.read = server].phase = "read"
    BY <1>0 DEF RunStates
  <2>2. Live(r) /\ Live(r)' /\ UNCHANGED <<state, control>>
    BY <1>0, <1>7, <2>1 DEF Reads, Live
  <2>. QED BY <1>1, <1>3, <2>2 DEF control
<1>8. CASE Succeed(r)
  <2>1. Live(r) BY <1>8 DEF Succeed, Live
  <2>2. IF Cancelled(r) THEN UNCHANGED state ELSE state'.fetchStatus = "idle"
    BY <1>8 DEF Succeed
  <2>3. cancelledFetchId' = cancelledFetchId BY <1>8 DEF Succeed, control
  <2>. QED BY <1>1, <1>3, <1>4, <1>8, <2>1, <2>2, <2>3 DEF Succeed
<1>9. CASE CallFails(r)
  <2>1. Live(r) /\ cancelledFetchId' = cancelledFetchId BY <1>9 DEF CallFails, Live, control
  <2>2. CASE Failed(r) BY <1>1, <1>3, <1>6, <2>1, <2>2
  <2>3. CASE ~Failed(r)
    <3>1. [runs[r] EXCEPT !.phase = "backoff", !.read = 0].phase = "backoff"
      BY <1>0 DEF RunStates
    <3>2. Live(r)' /\ UNCHANGED state BY <1>0, <1>9, <2>3, <3>1 DEF CallFails, Live
    <3>. QED BY <1>1, <1>3, <2>1, <3>2
  <2>. QED BY <2>2, <2>3
<1>10. CASE Retry(r)
  <2>1. Live(r) /\ cancelledFetchId' = cancelledFetchId BY <1>10 DEF Retry, Live, control
  <2>2. CASE Failed(r) BY <1>1, <1>3, <1>6, <2>1, <2>2
  <2>3. CASE ~Failed(r)
    <3>1. Live(r)' /\ UNCHANGED state BY <1>0, <1>10, <2>3 DEF Retry, Live
    <3>. QED BY <1>1, <1>3, <2>1, <3>1
  <2>. QED BY <2>2, <2>3
<1>11. CASE Finally(r)
  <2>1. ~Live(r) /\ ~Live(r)' BY <1>0, <1>11 DEF Finally, Live, Nothing
  <2>. QED BY <1>1, <1>3, <1>11, <2>1 DEF Finally
<1>. QED BY <1>7, <1>8, <1>9, <1>10, <1>11 DEF Progress

\* Every step that ends or starts a run, or cancels one, says so in fetchStatus.
LEMMA StepFetching == QueryTyped /\ OneRun /\ FetchingIsTrue /\ [QueryNext]_queryVars => FetchingIsTrue'
<1> SUFFICES ASSUME QueryTyped, OneRun, FetchingIsTrue, [QueryNext]_queryVars PROVE FetchingIsTrue'
  OBVIOUS
<1>0. /\ runs \in [Run -> RunStates] /\ state \in States
      /\ fetchId \in 0..MaxRuns /\ cancelledFetchId \in 0..MaxRuns
  BY DEF QueryTyped, RunStates, States
<1>1. CASE UNCHANGED <<state.fetchStatus, runs, cancelledFetchId>>
  BY <1>1 DEF FetchingIsTrue, Live, Cancelled
<1>2. CASE Stopped /\ UNCHANGED runs /\ state' = [state EXCEPT !.fetchStatus = "idle"]
  <2>1. state'.fetchStatus = "idle" BY <1>0, <1>2 DEF States
  <2>2. \A r \in Run : Live(r)' => Cancelled(r)'
    BY <1>0, <1>2 DEF OneRun, Live, Cancelled, Stopped
  <2>. QED BY <2>1, <2>2 DEF FetchingIsTrue
<1>3. CASE Fetch
  <2>1. state'.fetchStatus = "fetching" BY <1>0, <1>3 DEF Fetch, States
  <2>2. fetchId' \in Run /\ Live(fetchId)' /\ ~Cancelled(fetchId)'
    BY <1>0, <1>3 DEF Fetch, Live, Cancelled, Stopped, Nothing
  <2>. QED BY <2>1, <2>2 DEF FetchingIsTrue, Live, Cancelled
<1>4. ASSUME NEW r \in Run, Progress(r) PROVE FetchingIsTrue'
  BY <1>4, StepOfRun DEF FetchingIsTrue, Cancelled
<1>5. CASE Write BY <1>1, <1>5 DEF Write, control
<1>6. CASE Invalidate
  <2>1. state'.fetchStatus = state.fetchStatus BY <1>0, <1>6 DEF Invalidate, States
  <2>. QED BY <1>1, <1>6, <2>1 DEF Invalidate, control
<1>7. CASE Cancel BY <1>2, <1>7 DEF Cancel
<1>9. CASE Collect BY <1>2, <1>9 DEF Collect
<1>10. ASSUME NEW o \in Observer, AddObserver(o) \/ RemoveObserver(o) PROVE FetchingIsTrue'
  BY <1>1, <1>10 DEF AddObserver, RemoveObserver, control
<1>11. CASE UNCHANGED queryVars BY <1>1, <1>11 DEF queryVars, control
<1>. QED BY <1>3, <1>4, <1>5, <1>6, <1>7, <1>9, <1>10, <1>11 DEF QueryNext

\* The invariant holds in every state of a query.
THEOREM Invariance == QuerySpec => []IInv
<1>1. QueryInit => IInv BY InitIInv
<1>2. IInv /\ [QueryNext]_queryVars => IInv'
  BY StepTypeOK, StepOneRun, StepFetching, StepObserved DEF IInv
<1>. QED BY <1>1, <1>2, PTL DEF QuerySpec

\* Every variable keeps its type.
THEOREM QueryTypeCorrect == QuerySpec => []QueryTyped
BY Invariance, PTL DEF IInv

\* Concurrent fetches share one run, which can be joined and aborted until it is over.
THEOREM SharesOneRun == QuerySpec => []Deduplicated
<1>1. IInv => Deduplicated
  BY DEF IInv, OneRun, Deduplicated, Live
<1>. QED BY <1>1, Invariance, PTL

\* The query says it is fetching exactly while a run that counts is under way.
THEOREM SpinnerIsTrue == QuerySpec => []FetchingIsTrue
BY Invariance, PTL DEF IInv

\* A query with an observer is not about to be torn down.
THEOREM KeptWhileObserved == QuerySpec => []ObservedIsKept
BY Invariance, PTL DEF IInv

\* Neither the answer nor the failure of a cancelled run reaches the state.
THEOREM CancelledForGood == QuerySpec => CancelledIsSilent
<1>1. IInv /\ [QueryNext]_queryVars =>
        [\A r \in Run :
            Cancelled(r) /\ Live(r) /\ runs'[r].phase = "settled" => UNCHANGED state]_queryVars
  <2> SUFFICES ASSUME IInv, QueryNext, NEW r \in Run,
                      Cancelled(r), Live(r), runs'[r].phase = "settled"
               PROVE  UNCHANGED state
    OBVIOUS
  <2>0. runs \in [Run -> RunStates] BY DEF IInv, QueryTyped, RunStates
  <2>1. ASSUME NEW s \in Run, Progress(s) PROVE UNCHANGED state
    BY <2>1, StepOfRun DEF IInv, Live
  <2>2. UNCHANGED runs => FALSE BY DEF Live
  <2>3. CASE Fetch BY <2>0, <2>3 DEF Fetch, Live, Nothing
  <2>. QED
    BY <2>1, <2>2, <2>3 DEF QueryNext, Write, Invalidate, Cancel, Collect, AddObserver,
                            RemoveObserver
<1>. QED BY <1>1, Invariance, PTL DEF QuerySpec, CancelledIsSilent

\* The query function is not called again for a run that has been cancelled.
THEOREM NoCallOnceCancelled == QuerySpec => NoRetryOnceCancelled
<1>1. IInv /\ [QueryNext]_queryVars =>
        [\A r \in Run : Cancelled(r) => runs'[r].attempt <= runs[r].attempt]_queryVars
  <2> SUFFICES ASSUME IInv, QueryNext, NEW r \in Run, Cancelled(r)
               PROVE  runs'[r].attempt <= runs[r].attempt
    OBVIOUS
  <2>0. runs \in [Run -> RunStates] /\ runs[r].attempt \in Nat
    BY DEF IInv, QueryTyped, RunStates
  <2>1. ASSUME NEW s \in Run, Progress(s) PROVE runs'[r].attempt <= runs[r].attempt
    <3>1. CASE s # r
      BY <2>0, <2>1, <3>1 DEF Progress, Reads, Succeed, CallFails, Retry, Finally, Failed, Settle
    <3>2. CASE s = r
      <4>1. CASE Reads(s) BY <2>0, <3>2, <4>1 DEF Reads, RunStates
      <4>2. Settle(s) => runs'[r].attempt = runs[r].attempt
        BY <2>0, <3>2 DEF Settle, RunStates
      <4>3. CASE Succeed(s) BY <2>0, <4>2, <4>3 DEF Succeed
      <4>4. CASE CallFails(s) BY <2>0, <3>2, <4>2, <4>4 DEF CallFails, Failed
      <4>5. CASE Retry(s) BY <2>0, <3>2, <4>2, <4>5 DEF Retry, Failed
      <4>6. CASE Finally(s) BY <2>0, <3>2, <4>6 DEF Finally, Nothing
      <4>. QED BY <2>1, <4>1, <4>3, <4>4, <4>5, <4>6 DEF Progress
    <3>. QED BY <3>1, <3>2
  <2>2. UNCHANGED runs => runs'[r].attempt <= runs[r].attempt BY <2>0
  <2>3. CASE Fetch BY <2>0, <2>3 DEF Fetch, Nothing
  <2>. QED
    BY <2>1, <2>2, <2>3 DEF QueryNext, Write, Invalidate, Cancel, Collect, AddObserver,
                            RemoveObserver
<1>. QED BY <1>1, Invariance, PTL DEF QuerySpec, NoRetryOnceCancelled


HIDE QueryAssumption DEF Run, Version

----------------------------------------------------------------------------
\* Await: a component that is gone has no subscription left that could fetch.
AwaitInv == unmounted \in BOOLEAN /\ (unmounted => ~subscribed)

\* A component begins mounted, and no step of it subscribes once it is gone.
LEMMA AwaitInvariant == AwaitSpec => []AwaitInv
  <1>1. AwaitInit => AwaitInv
    BY DEF AwaitInit, AwaitInv
  <1>2. AwaitInv /\ [AwaitNext]_awaitVars => AwaitInv'
    <2> SUFFICES ASSUME AwaitInv, [AwaitNext]_awaitVars PROVE AwaitInv'
      OBVIOUS
    <2> USE DEF AwaitInv
    <2>1. CASE Render
      BY <2>1 DEF Render, activate
    <2>2. CASE Start
      BY <2>2 DEF Start, activate
    <2>3. CASE PromiseChanges
      BY <2>3 DEF PromiseChanges
    <2>4. CASE AwaitDispose
      BY <2>4 DEF AwaitDispose
    <2>5. ASSUME NEW p \in PromiseId, PromiseSettles(p) \/ Deliver(p) PROVE AwaitInv'
      BY <2>5 DEF PromiseSettles, Deliver
    <2>6. CASE UNCHANGED awaitVars
      BY <2>6 DEF awaitVars
    <2>7. QED
      BY <2>1, <2>2, <2>3, <2>4, <2>5, <2>6 DEF AwaitNext
  <1>3. QED
    BY <1>1, <1>2, PTL DEF AwaitSpec

\* A fetch asks and clears; the one delivery that shows something shows the newest.
LEMMA AwaitStep ==
    ASSUME AwaitInv, [AwaitNext]_awaitVars
    PROVE  [Latest!NewestNext]_<<currentPromiseId, view, unmounted>>
  <1> USE DEF AwaitInv, Latest!NewestNext
  <1>1. ASSUME startFetch, ~unmounted, UNCHANGED unmounted PROVE Latest!Ask
    BY <1>1 DEF startFetch, Latest!Ask
  <1>2. CASE Render
    BY <1>1, <1>2 DEF Render
  <1>3. CASE Start
    BY <1>1, <1>3 DEF Start
  <1>4. CASE PromiseChanges
    BY <1>1, <1>4 DEF PromiseChanges
  <1>5. CASE AwaitDispose
    BY <1>5 DEF AwaitDispose, Latest!Close
  <1>6. ASSUME NEW p \in PromiseId, PromiseSettles(p)
        PROVE UNCHANGED <<currentPromiseId, view, unmounted>>
    BY <1>6 DEF PromiseSettles
  <1>7. ASSUME NEW p \in PromiseId, Deliver(p)
        PROVE Latest!Show \/ UNCHANGED <<currentPromiseId, view, unmounted>>
    BY <1>7 DEF Deliver, Latest!Show
  <1>8. CASE UNCHANGED awaitVars
    BY <1>8 DEF awaitVars
  <1>9. QED
    BY <1>2, <1>3, <1>4, <1>5, <1>6, <1>7, <1>8 DEF AwaitNext

\* An awaited promise that was replaced is never rendered, and neither is any once the
\* component is gone (Await.ts startFetch).
THEOREM AwaitKeepsPromise == AwaitSpec => AwaitIsNewest
  <1>1. AwaitInit => Latest!NewestInit
    BY DEF AwaitInit, Latest!NewestInit
  <1>2. AwaitInv /\ [AwaitNext]_awaitVars
        => [Latest!NewestNext]_<<currentPromiseId, view, unmounted>>
    BY AwaitStep
  <1>3. QED
    BY <1>1, <1>2, AwaitInvariant, PTL DEF AwaitSpec, AwaitIsNewest, Latest!NewestSpec

----------------------------------------------------------------------------
\* Locale: a call may resume long after the next, and compares numbers then.
LEMMA LocaleStep ==
    ASSUME [LocaleNext]_localeVars
    PROVE  [Requested!NewestNext]_<<localeTransition, locale, FALSE>>
  <1> USE DEF Requested!NewestNext
  <1>1. ASSUME NEW l \in Language, setLocale(l) PROVE Requested!Ask
    BY <1>1 DEF setLocale, Activate, Requested!Ask
  <1>2. ASSUME NEW l \in Language, LoadEnds(l) \/ Forget(l) \/ addTranslations(l)
        PROVE UNCHANGED <<localeTransition, locale, FALSE>>
    BY <1>2 DEF LoadEnds, Forget, addTranslations
  <1>3. ASSUME NEW c \in Transition, Resume(c)
        PROVE Requested!Show \/ UNCHANGED <<localeTransition, locale, FALSE>>
    BY <1>3 DEF Resume, Activate, Requested!Show
  <1>4. CASE UNCHANGED localeVars
    BY <1>4 DEF localeVars
  <1>5. QED
    BY <1>1, <1>2, <1>3, <1>4 DEF LocaleNext

\* Whichever translations come last, the locale asked for last is what is active
\* (i18n.ts setLocale).
THEOREM LocaleKeepsPromise == LocaleSpec => LocaleIsNewest
  <1>1. LocaleInit => Requested!NewestInit
    BY DEF LocaleInit, Requested!NewestInit
  <1>2. [LocaleNext]_localeVars => [Requested!NewestNext]_<<localeTransition, locale, FALSE>>
    BY LocaleStep
  <1>3. QED
    BY <1>1, <1>2, PTL DEF LocaleSpec, LocaleIsNewest, Requested!NewestSpec

----------------------------------------------------------------------------
\* Derived signals: every run but the newest is cancelled, and after cleanup() that as well;
\* only runs that were started can end.
TokenInv ==
    /\ updates \in Update /\ released \in BOOLEAN
    /\ isCancelled \in [Update -> BOOLEAN]
    /\ selecting \in [Update -> {"none", "running", "fulfilled", "rejected", "handled", "over", "threw"}]
    /\ \A u \in Update : u < updates => isCancelled[u]
    /\ \A u \in Update : u > updates => selecting[u] = "none"
    /\ released => isCancelled[updates]

\* Creation starts the first run with a token that nobody has cancelled.
LEMMA TokenInit == ASSUME DerivedAsyncAssumption, MaxUpdates # 0, SelectInit PROVE TokenInv
  <1>1. 1 \in Update
    BY DEF DerivedAsyncAssumption, Update
  <1>2. \A u \in Update : u \in Int /\ ~(u < 1) /\ (u > 1 => u # 1)
    BY DEF DerivedAsyncAssumption, Update
  <1>3. selecting \in [Update -> {"none", "running", "fulfilled", "rejected", "handled", "over", "threw"}]
    BY DEF SelectInit
  <1>4. isCancelled \in [Update -> BOOLEAN]
    BY DEF SelectInit
  <1>5. \A u \in Update : u > 1 => selecting[u] = "none"
    BY <1>2 DEF SelectInit
  <1>6. QED
    BY <1>1, <1>2, <1>3, <1>4, <1>5 DEF SelectInit, TokenInv

\* A new run cancels the one before it, and cleanup() the last.
LEMMA TokenStep ==
    ASSUME DerivedAsyncAssumption, TokenInv, [SelectNext]_selectVars PROVE TokenInv'
  <1> USE DEF TokenInv, DerivedAsyncAssumption, Update
  <1>1. CASE update
    BY <1>1 DEF update
  <1>2. CASE cleanupDerived
    BY <1>2 DEF cleanupDerived
  <1>3. ASSUME NEW u \in Update, SelectorSettles(u) PROVE TokenInv'
    BY <1>3 DEF SelectorSettles
  <1>4. ASSUME NEW u \in Update, TakeValue(u) PROVE TokenInv'
    BY <1>4 DEF TakeValue
  <1>5. ASSUME NEW u \in Update, EndPending(u) PROVE TokenInv'
    BY <1>5 DEF EndPending
  <1>6. CASE UNCHANGED selectVars
    BY <1>6 DEF selectVars
  <1>7. QED
    BY <1>1, <1>2, <1>3, <1>4, <1>5, <1>6 DEF SelectNext

\* A value is taken with a token that was not cancelled: that of the newest run.
LEMMA SelectStep ==
    ASSUME DerivedAsyncAssumption, TokenInv, [SelectNext]_selectVars
    PROVE  [Values!NewestNext]_<<updates, derived, released>>
  <1> USE DEF Values!NewestNext
  <1>1. CASE update
    BY <1>1 DEF update, Values!Ask
  <1>2. CASE cleanupDerived
    BY <1>2 DEF cleanupDerived, Values!Close
  <1>3. ASSUME NEW u \in Update, SelectorSettles(u) \/ EndPending(u)
        PROVE UNCHANGED <<updates, derived, released>>
    BY <1>3 DEF SelectorSettles, EndPending
  <1>4. ASSUME NEW u \in Update, TakeValue(u)
        PROVE Values!Show \/ UNCHANGED <<updates, derived, released>>
    <2>1. CASE isCancelled[u] \/ selecting[u] # "fulfilled"
      BY <1>4, <2>1 DEF TakeValue
    <2>2. CASE ~isCancelled[u] /\ selecting[u] = "fulfilled"
      <3>1. u = updates /\ ~released
        BY <2>2 DEF TokenInv, Update, DerivedAsyncAssumption
      <3>2. QED
        BY <1>4, <2>2, <3>1 DEF TakeValue, Values!Show, TokenInv
    <2>3. QED
      BY <2>1, <2>2
  <1>5. CASE UNCHANGED selectVars
    BY <1>5 DEF selectVars
  <1>6. QED
    BY <1>1, <1>2, <1>3, <1>4, <1>5 DEF SelectNext

\* The value of a derived signal comes from the newest run of its selector, whichever
\* ends last, and never after cleanup() (deriveFromAsync and its two copies).
THEOREM DerivedKeepsPromise ==
    ASSUME DerivedAsyncAssumption, MaxUpdates # 0 PROVE SelectSpec => DerivedIsNewest
  <1>1. SelectInit => TokenInv /\ Values!NewestInit
    BY TokenInit DEF SelectInit, Values!NewestInit
  <1>2. TokenInv /\ [SelectNext]_selectVars
        => TokenInv' /\ [Values!NewestNext]_<<updates, derived, released>>
    BY TokenStep, SelectStep
  <1>3. QED
    BY <1>1, <1>2, PTL DEF SelectSpec, DerivedIsNewest, Values!NewestSpec


----------------------------------------------------------------------------
\* AsyncComputed.

\* The bounds of loads, with what is known of them.
LoadBounds == /\ MaxRetries \in Nat /\ MaxSources \in Nat /\ MaxLoads \in Nat \ {0}

\* What the constants of loads are.
LEMMA LoadBoundsHold == LoadBounds
  BY LoadAssumption DEF LoadBounds, Load!BoundsNatural

\* loading says whether the latest run is under way.
LoadingIsTrue == loading <=> ~gone /\ generation > 0 /\ Load!Unfinished(generation)

\* What is over or has not begun, and what may be tried again.
Unborn == \A g \in Load!Run : g > generation => where[g] = "unborn"
Patient == \A g \in Load!Run : where[g] = "sleeping" => try[g] < MaxRetries

\* The latest run is for the present source, and at rest what is shown is its answer.
ForSource ==
    ~gone => IF generation = 0 THEN source = 0 /\ value = 0 /\ error = 0
             ELSE of[generation] = source
Shown == ~loading /\ ~gone /\ generation > 0 /\ error = 0 => value = generation

\* The invariant of a load: its types, and what the parts above say.
LoadInv ==
    /\ Load!TypeOK /\ LoadingIsTrue /\ Load!SupersededAreAborted /\ Unborn /\ Patient
    /\ ForSource /\ Shown

\* Deferred, hydrated or under way, a load starts that way.
LEMMA LoadStarts == Load!Init => LoadInv
  <1> SUFFICES ASSUME Load!Init PROVE LoadInv
    OBVIOUS
  <1> USE LoadBoundsHold DEF LoadBounds, Load!Run
  <1>1. generation \in 0..1 /\ generation \in 0..MaxLoads
        /\ where \in [Load!Run -> {"unborn", "loading"}]
    BY DEF Load!Init
  <1>2. Load!TypeOK
    <2>1. /\ of \in [Load!Run -> 0..MaxSources] /\ try \in [Load!Run -> 0..MaxRetries]
          /\ source \in 0..MaxSources /\ value = 0 /\ error = 0
      BY DEF Load!Init
    <2>2. /\ options \in AllOptions /\ loading \in BOOLEAN /\ stale \in BOOLEAN
          /\ loaded \in BOOLEAN
          /\ tracked \in BOOLEAN /\ watching \in BOOLEAN /\ gone \in BOOLEAN
          /\ abandoned = {} /\ caller = "none"
      BY DEF Load!Init
    <2>. QED BY <1>1, <2>1, <2>2 DEF Load!TypeOK
  <1>3. \A g \in Load!Run : where[g] = IF g = generation THEN "loading" ELSE "unborn"
    BY DEF Load!Init
  <1>4. LoadingIsTrue
    <2>1. ~gone /\ (loading <=> options.start = "immediate")
          /\ generation = (IF options.start = "immediate" THEN 1 ELSE 0)
      BY DEF Load!Init
    <2>2. 1 \in Load!Run
      OBVIOUS
    <2>3. CASE options.start = "immediate"
      BY <2>1, <2>2, <2>3, <1>3 DEF LoadingIsTrue, Load!Unfinished
    <2>4. CASE options.start # "immediate"
      BY <2>1, <2>4 DEF LoadingIsTrue
    <2>. QED BY <2>3, <2>4
  <1>5. Load!SupersededAreAborted
    BY <1>3 DEF Load!Init, Load!SupersededAreAborted, Load!IsCurrent, Load!Unfinished
  <1>6. Unborn /\ Patient /\ ForSource /\ Shown
    <2>1. /\ ~gone /\ loading = (options.start = "immediate") /\ source = 0 /\ value = 0
          /\ generation = (IF options.start = "immediate" THEN 1 ELSE 0) /\ error = 0
          /\ of = [g \in Load!Run |-> 0]
      BY DEF Load!Init
    <2>2. Unborn /\ Patient
      BY <1>1, <1>3 DEF Unborn, Patient
    <2>3. ForSource /\ Shown
      <3>1. 1 \in Load!Run /\ of[1] = 0
        BY <2>1
      <3>. QED BY <2>1, <3>1 DEF ForSource, Shown
    <2>. QED BY <2>2, <2>3
  <1>. QED BY <1>2, <1>4, <1>5, <1>6 DEF LoadInv

\* The types of a load, apart from everything else its invariant says.
LEMMA LoadTyped ==
    ASSUME LoadInv
    PROVE  /\ options \in AllOptions
           /\ source \in 0..MaxSources /\ generation \in 0..MaxLoads
           /\ of \in [Load!Run -> 0..MaxSources] /\ try \in [Load!Run -> 0..MaxRetries]
           /\ where \in [Load!Run -> {"unborn", "loading", "sleeping", "over"}]
           /\ abandoned \subseteq Load!Run
           /\ value \in Load!Run \cup {0, -1} /\ error \in Load!Run \cup {0}
           /\ loading \in BOOLEAN /\ stale \in BOOLEAN /\ loaded \in BOOLEAN
           /\ tracked \in BOOLEAN /\ watching \in BOOLEAN /\ gone \in BOOLEAN
           /\ caller \in {"none", "waiting", "released"}
  BY DEF LoadInv, Load!TypeOK, Load!Blank

\* run(), once or twice: the runs before the last are told, and it is under way.
LEMMA LoadRuns ==
    ASSUME LoadInv, ~gone, NEW n \in 1..2, NEW s \in 0..MaxSources, Load!RunFor(n, s),
           source' = s, UNCHANGED <<tracked, watching, gone, caller>>
    PROVE  LoadInv'
  <1> USE LoadBoundsHold DEF LoadBounds
  <1>0. /\ generation \in 0..MaxLoads /\ generation' = generation + n /\ generation' <= MaxLoads
        /\ generation' \in Load!Run /\ generation < generation' /\ loading' = TRUE
        /\ generation + 1..generation' \subseteq Load!Run
        /\ generation' \in generation + 1..generation'
    <2>1. /\ generation \in 0..MaxLoads /\ generation' = generation + n /\ generation' <= MaxLoads
          /\ loading' = TRUE
      BY LoadTyped DEF Load!RunFor
    <2>2. /\ generation \in Int /\ generation' \in Int /\ generation >= 0
          /\ generation < generation'
      BY <2>1
    <2>. QED BY <2>1, <2>2 DEF Load!Run
  <1>1. /\ of' \in [Load!Run -> 0..MaxSources] /\ of'[generation'] = s
        /\ where' \in [Load!Run -> {"unborn", "loading", "sleeping", "over"}]
        /\ where'[generation'] = "loading"
    BY <1>0, LoadTyped DEF Load!RunFor
  <1>2. abandoned' \subseteq Load!Run
    <2>1. abandoned' = abandoned \cup Load!Latest \cup (generation + 1..generation' - 1)
      BY DEF Load!RunFor
    <2>2. Load!Latest \subseteq Load!Run
      BY <1>0 DEF Load!Latest, Load!Run
    <2>3. generation + 1..generation' - 1 \subseteq generation + 1..generation'
      BY <1>0
    <2>. QED BY <1>0, <2>1, <2>2, <2>3, LoadTyped
  <1>3. Load!TypeOK'
    <2>1. /\ value' \in Load!Run \cup {0, -1} /\ loading' \in BOOLEAN
          /\ UNCHANGED <<options, try, loaded, error>>
      BY LoadTyped DEF Load!RunFor, Load!Blank
    <2>2. stale' \in BOOLEAN
      BY LoadTyped DEF Load!RunFor, AllOptions
    <2>3. generation' \in 0..MaxLoads
      BY <1>0 DEF Load!Run
    <2>. QED BY <1>1, <1>2, <2>1, <2>2, <2>3, LoadTyped DEF Load!TypeOK, Load!Blank
  <1>4. \A g \in Load!Run :
          /\ g > generation' => where'[g] = "unborn"
          /\ where'[g] = "sleeping" => g # generation /\ g <= generation /\ where[g] = "sleeping"
          /\ g <= generation => where'[g] = IF g = generation /\ where[g] = "sleeping" THEN "over" ELSE where[g]
    BY <1>0 DEF Load!RunFor, Load!Run, LoadInv, Unborn
  <1>5. \A g \in Load!Run : where'[g] # "sleeping"
    BY <1>4 DEF LoadInv, Load!SupersededAreAborted, Load!Unfinished, Load!IsCurrent
  <1>6. Load!SupersededAreAborted'
    <2> SUFFICES ASSUME NEW g \in Load!Run, Load!Unfinished(g)', ~Load!IsCurrent(g)'
                 PROVE  g \in abandoned' /\ where'[g] = "loading"
      BY DEF Load!SupersededAreAborted
    <2>1. where'[g] = "loading" /\ g # generation' /\ g <= generation'
      BY <1>0, <1>4, <1>5 DEF Load!Unfinished, Load!IsCurrent, Load!Run
    <2>2. CASE g < generation
      <3>1. Load!Unfinished(g) /\ ~Load!IsCurrent(g)
        BY <2>1, <2>2, <1>4, <1>0 DEF Load!Unfinished, Load!IsCurrent, Load!Run
      <3>. QED
        BY <2>1, <3>1 DEF LoadInv, Load!SupersededAreAborted, Load!RunFor
    <2>3. CASE g >= generation
      <3>1. g \in Load!Latest \cup (generation + 1..generation' - 1)
        BY <2>1, <2>3, <1>0 DEF Load!Latest, Load!Run
      <3>. QED BY <2>1, <3>1 DEF Load!RunFor
    <2>. QED BY <2>2, <2>3, <1>0 DEF Load!Run
  <1>7. LoadingIsTrue' /\ Unborn' /\ Patient' /\ ForSource' /\ Shown'
    BY <1>0, <1>1, <1>4, <1>5 DEF LoadingIsTrue, Unborn, Patient, ForSource, Shown, Load!Unfinished
  <1>. QED BY <1>3, <1>6, <1>7 DEF LoadInv

\* One run goes on to end, sleep or load again.
LEMMA LoadGoes ==
    ASSUME LoadInv, NEW g \in Load!Run, NEW end \in {"loading", "sleeping", "over"},
           Load!Unfinished(g), Load!Finish(g, end),
           end = "sleeping" => Load!IsCurrent(g),
           try' \in [Load!Run -> 0..MaxRetries],
           \A h \in Load!Run : where'[h] = "sleeping" => try'[h] < MaxRetries,
           ~Load!IsCurrent(g) \/ end # "over" => UNCHANGED <<value, error, loading, stale, loaded, caller>>,
           Load!IsCurrent(g) /\ end = "over" =>
               /\ loading' = FALSE /\ stale' = FALSE /\ loaded' = TRUE
               /\ (value' = g /\ error' = 0) \/ (value' = value /\ error' = g)
               /\ caller' \in {"none", "waiting", "released"},
           UNCHANGED <<options, source, generation, of, abandoned, tracked, watching, gone>>
    PROVE  LoadInv'
  <1> USE LoadBoundsHold DEF LoadBounds
  <1>0. /\ where' \in [Load!Run -> {"unborn", "loading", "sleeping", "over"}]
        /\ where'[g] = end /\ \A h \in Load!Run \ {g} : where'[h] = where[h]
        /\ g <= generation /\ g > 0 /\ g # 0 /\ g \in Int /\ generation \in Int
    <2>1. where' = [where EXCEPT ![g] = end] /\ g \in 1..MaxLoads /\ generation \in 0..MaxLoads
      BY LoadTyped DEF Load!Finish, Load!Run
    <2>2. /\ where' \in [Load!Run -> {"unborn", "loading", "sleeping", "over"}]
          /\ where'[g] = end /\ \A h \in Load!Run \ {g} : where'[h] = where[h]
      BY <2>1, LoadTyped
    <2>3. ~(g > generation)
      BY DEF LoadInv, Unborn, Load!Unfinished
    <2>. QED BY <2>1, <2>2, <2>3
  <1>1. Load!TypeOK'
    <2>1. /\ value' \in Load!Run \cup {0, -1} /\ error' \in Load!Run \cup {0}
          /\ loading' \in BOOLEAN /\ stale' \in BOOLEAN /\ loaded' \in BOOLEAN
          /\ caller' \in {"none", "waiting", "released"}
      BY LoadTyped
    <2>. QED BY <1>0, <2>1, LoadTyped DEF Load!TypeOK, Load!Blank
  <1>2. Unborn' /\ Patient'
    BY <1>0 DEF LoadInv, Unborn, Patient, Load!Run
  <1>3. Load!SupersededAreAborted'
    <2> SUFFICES ASSUME NEW h \in Load!Run, Load!Unfinished(h)', ~Load!IsCurrent(h)'
                 PROVE  h \in abandoned' /\ where'[h] = "loading"
      BY DEF Load!SupersededAreAborted
    <2>1. Load!Unfinished(h) /\ ~Load!IsCurrent(h)
      BY <1>0 DEF Load!Unfinished, Load!IsCurrent
    <2>. QED
      BY <2>1, <1>0 DEF LoadInv, Load!SupersededAreAborted, Load!Unfinished
  <1>4. LoadingIsTrue'
    <2>1. /\ loading <=> ~gone /\ generation > 0 /\ Load!Unfinished(generation)
          /\ gone' = gone /\ generation' = generation
      BY DEF LoadInv, LoadingIsTrue
    <2>2. CASE Load!IsCurrent(g)
      <3>1. g = generation /\ ~gone /\ loading
        BY <1>0, <2>1, <2>2 DEF Load!IsCurrent
      <3>2. end = "over" => ~loading'
        BY <2>2
      <3>3. end # "over" => loading' = loading
        OBVIOUS
      <3>4. where'[generation] = end /\ generation > 0
        BY <1>0, <3>1
      <3>5. Load!Unfinished(generation)' <=> end # "over"
        BY <2>1, <3>4 DEF Load!Unfinished
      <3>6. loading' <=> end # "over"
        BY <3>1, <3>2, <3>3
      <3>. QED BY <2>1, <3>1, <3>4, <3>5, <3>6 DEF LoadingIsTrue
    <2>3. CASE ~Load!IsCurrent(g)
      <3>1. loading' = loading /\ (g # generation \/ gone)
        BY <2>3 DEF Load!IsCurrent
      <3>2. generation > 0 /\ g # generation => where'[generation] = where[generation]
        BY <1>0, LoadTyped DEF Load!Run
      <3>. QED BY <1>0, <2>1, <3>1, <3>2 DEF LoadingIsTrue, Load!Unfinished
    <2>. QED BY <2>2, <2>3
  <1>5. ForSource'
    BY <1>0 DEF LoadInv, ForSource
  <1>6. Shown'
    BY <1>0, LoadTyped DEF LoadInv, LoadingIsTrue, Shown, Load!Unfinished, Load!IsCurrent
  <1>. QED BY <1>1, <1>2, <1>3, <1>4, <1>5, <1>6 DEF LoadInv

\* Every action of a load keeps its invariant, one step per action.
LEMMA LoadStep == ASSUME LoadInv, [Load!Next]_loads PROVE LoadInv'
  <1> USE LoadBoundsHold DEF LoadBounds
  <1>1. CASE Load!Changes
    <2>1. PICK s \in {source, source + 1}, watched \in {FALSE, watching} :
            /\ s <= MaxSources
            /\ LET n == (IF s # source THEN 1 ELSE 0) + (IF watched THEN 1 ELSE 0)
               IN  n > 0 /\ Load!RunFor(n, s)
            /\ source' = s
      BY <1>1 DEF Load!Changes
    <2> DEFINE n == (IF s # source THEN 1 ELSE 0) + (IF watched THEN 1 ELSE 0)
    <2>2. n \in 1..2 /\ s \in 0..MaxSources
      BY <2>1, LoadTyped
    <2>3. Load!RunFor(n, s) /\ ~gone /\ UNCHANGED <<tracked, watching, gone, caller>>
      BY <1>1, <2>1 DEF Load!Changes, Load!rest
    <2> HIDE DEF n
    <2>. QED BY <2>1, <2>2, <2>3, LoadRuns
  <1>2. CASE Load!Refresh
    <2>1. Load!RunFor(1, source) /\ ~gone /\ UNCHANGED <<source, tracked, watching, gone, caller>>
      BY <1>2 DEF Load!Refresh, Load!rest
    <2>2. 1 \in 1..2 /\ source \in 0..MaxSources
      BY LoadTyped
    <2>. QED BY <2>1, <2>2, LoadRuns
  <1>3. ASSUME NEW g \in Load!Run, Load!Resolve(g) PROVE LoadInv'
    <2>1. /\ Load!Unfinished(g) /\ Load!Finish(g, "over")
          /\ UNCHANGED <<options, source, generation, of, try, abandoned, tracked, watching, gone>>
      BY <1>3 DEF Load!Resolve, Load!Unfinished
    <2>2. where' = [where EXCEPT ![g] = "over"]
      BY <2>1 DEF Load!Finish
    <2>3. try' \in [Load!Run -> 0..MaxRetries]
          /\ \A h \in Load!Run : where'[h] = "sleeping" => try'[h] < MaxRetries
      BY <2>1, <2>2, LoadTyped DEF LoadInv, Patient
    <2>4. ~Load!IsCurrent(g) => UNCHANGED <<value, error, loading, stale, loaded, caller>>
      BY <1>3 DEF Load!Resolve, Load!shown
    <2>5. Load!IsCurrent(g) =>
               /\ loading' = FALSE /\ stale' = FALSE /\ loaded' = TRUE
               /\ value' = g /\ error' = 0
               /\ caller' \in {"none", "waiting", "released"}
      BY <1>3, LoadTyped DEF Load!Resolve, Load!Notified
    <2>6. CASE Load!IsCurrent(g)
      BY <2>1, <2>3, <2>5, <2>6, LoadGoes
    <2>7. CASE ~Load!IsCurrent(g)
      BY <2>1, <2>3, <2>4, <2>7, LoadGoes
    <2>. QED BY <2>6, <2>7
  <1>4. ASSUME NEW g \in Load!Run, Load!Reject(g) PROVE LoadInv'
    <2>1. /\ Load!Unfinished(g)
          /\ UNCHANGED <<options, source, generation, of, try, abandoned, tracked, watching, gone>>
      BY <1>4 DEF Load!Reject, Load!Unfinished
    <2>2. CASE ~Load!Fails(g) /\ Load!Finish(g, "over") /\ UNCHANGED <<Load!shown, caller>>
      <3>1. try' \in [Load!Run -> 0..MaxRetries]
            /\ \A h \in Load!Run : where'[h] = "sleeping" => try'[h] < MaxRetries
        BY <2>1, <2>2, LoadTyped DEF LoadInv, Patient, Load!Finish
      <3>2. ~Load!IsCurrent(g) /\ UNCHANGED <<value, error, loading, stale, loaded, caller>>
        BY <2>2 DEF Load!Fails, Load!shown
      <3>. QED BY <2>1, <2>2, <3>1, <3>2, LoadGoes
    <2>3. CASE Load!Fails(g) /\ Load!MayRetry(g) /\ Load!Finish(g, "sleeping")
               /\ UNCHANGED <<Load!shown, caller>>
      <3>1. try' \in [Load!Run -> 0..MaxRetries]
            /\ \A h \in Load!Run : where'[h] = "sleeping" => try'[h] < MaxRetries
        BY <2>1, <2>3, LoadTyped DEF LoadInv, Patient, Load!Finish, Load!MayRetry
      <3>2. Load!IsCurrent(g) /\ UNCHANGED <<value, error, loading, stale, loaded, caller>>
        BY <2>3 DEF Load!Fails, Load!shown
      <3>. QED BY <2>1, <2>3, <3>1, <3>2, LoadGoes
    <2>4. CASE Load!Fails(g) /\ Load!GiveUp(g)
      <3>1. Load!Finish(g, "over") /\ Load!IsCurrent(g)
        BY <2>4 DEF Load!Fails, Load!GiveUp
      <3>2. try' \in [Load!Run -> 0..MaxRetries]
            /\ \A h \in Load!Run : where'[h] = "sleeping" => try'[h] < MaxRetries
        BY <2>1, <3>1, LoadTyped DEF LoadInv, Patient, Load!Finish
      <3>3. /\ loading' = FALSE /\ stale' = FALSE /\ loaded' = TRUE
            /\ value' = value /\ error' = g
            /\ caller' \in {"none", "waiting", "released"}
        BY <2>4, LoadTyped DEF Load!GiveUp, Load!Notified
      <3>. QED BY <2>1, <3>1, <3>2, <3>3, LoadGoes
    <2>. QED BY <1>4, <2>2, <2>3, <2>4 DEF Load!Reject
  <1>5. ASSUME NEW g \in Load!Run, Load!BackoffOver(g) PROVE LoadInv'
    <2>1. /\ Load!Unfinished(g) /\ Load!Finish(g, "loading") /\ where[g] = "sleeping"
          /\ try' = [try EXCEPT ![g] = @ + 1]
          /\ UNCHANGED <<options, source, generation, of, abandoned, tracked, watching, gone>>
          /\ UNCHANGED <<value, error, loading, stale, loaded, caller>>
      BY <1>5 DEF Load!BackoffOver, Load!Unfinished, Load!shown, Load!rest
    <2>2. try[g] < MaxRetries /\ try \in [Load!Run -> 0..MaxRetries]
      BY <2>1, LoadTyped DEF LoadInv, Patient
    <2>3. try' \in [Load!Run -> 0..MaxRetries]
      BY <2>1, <2>2
    <2>4. \A h \in Load!Run : where'[h] = "sleeping" => try'[h] < MaxRetries
      BY <2>1, <2>2, LoadTyped DEF LoadInv, Patient, Load!Finish
    <2>. QED BY <2>1, <2>3, <2>4, LoadGoes
  <1>6. CASE Load!Dispose
    <2>0. /\ gone' = TRUE /\ ~gone /\ loading' = FALSE /\ stale' = FALSE
          /\ tracked' = FALSE /\ watching' = FALSE
          /\ abandoned' = abandoned \cup Load!Latest
          /\ where' = [g \in Load!Run |-> IF g \in Load!Latest /\ where[g] = "sleeping" THEN "over" ELSE where[g]]
          /\ caller' = (IF caller = "waiting" THEN "released" ELSE caller)
          /\ UNCHANGED <<options, source, generation, of, try, value, loaded, error>>
      BY <1>6 DEF Load!Dispose, Load!Aborted, Load!Notified
    <2>1. Load!TypeOK'
      <3>1. where' \in [Load!Run -> {"unborn", "loading", "sleeping", "over"}]
        BY <2>0, LoadTyped
      <3>2. abandoned' \subseteq Load!Run
        BY <2>0, LoadTyped DEF Load!Latest, Load!Run
      <3>. QED BY <2>0, <3>1, <3>2, LoadTyped DEF Load!TypeOK, Load!Blank
    <2>2. Unborn' /\ Patient' /\ LoadingIsTrue' /\ ForSource' /\ Shown'
      BY <2>0, LoadTyped DEF LoadInv, Unborn, Patient, LoadingIsTrue, ForSource, Shown
    <2>3. Load!SupersededAreAborted'
      <3> SUFFICES ASSUME NEW h \in Load!Run, Load!Unfinished(h)'
                   PROVE  h \in abandoned' /\ where'[h] = "loading"
        BY DEF Load!SupersededAreAborted
      <3>1. Load!Unfinished(h) /\ where'[h] = where[h]
        BY <2>0 DEF Load!Unfinished
      <3>2. CASE h = generation
        BY <2>0, <3>1, <3>2 DEF Load!Latest, Load!Run, Load!Unfinished
      <3>3. CASE h # generation
        BY <2>0, <3>1, <3>3 DEF LoadInv, Load!SupersededAreAborted, Load!IsCurrent
      <3>. QED BY <3>2, <3>3
    <2>. QED BY <2>1, <2>2, <2>3 DEF LoadInv
  <1>7. ASSUME UNCHANGED <<options, source, generation, of, try, where, abandoned,
                           value, loading, stale, loaded, error, gone>>,
               tracked' \in BOOLEAN, watching' \in BOOLEAN, caller' \in {"none", "waiting", "released"}
        PROVE  LoadInv'
    BY <1>7 DEF LoadInv, Load!TypeOK, LoadingIsTrue, Load!SupersededAreAborted, Unborn, Patient,
                ForSource, Shown, Load!Unfinished, Load!IsCurrent
  <1>8. ASSUME NEW g \in Load!Run, Load!Track(g) PROVE LoadInv'
    BY <1>7, <1>8, LoadTyped DEF Load!Track, Load!runs, Load!shown
  <1>9. CASE Load!WhenSettled
    BY <1>7, <1>9, LoadTyped DEF Load!WhenSettled, Load!runs, Load!shown
  <1>10. CASE UNCHANGED loads
    BY <1>7, <1>10, LoadTyped DEF loads
  <1>. QED
    BY <1>1, <1>2, <1>3, <1>4, <1>5, <1>6, <1>8, <1>9, <1>10 DEF Load!Next, Load!Answer

\* What a caller of asyncComputed() relies on follows.
LEMMA LoadHolds == LoadInv => Load!TypeOK /\ Load!RestIsCurrent /\ Load!SupersededAreAborted
  <1> SUFFICES ASSUME LoadInv PROVE Load!RestIsCurrent
    BY DEF LoadInv
  <1>. QED
    BY LoadTyped, LoadBoundsHold
       DEF LoadInv, Load!RestIsCurrent, LoadingIsTrue, ForSource, Shown, Load!Run, LoadBounds,
           Load!Blank

----------------------------------------------------------------------------
\* Concurrency.

\* Where a task can be, and the ones that keep the next from starting.
TaskStates == {"uncalled", "ignored", "waiting", "queued", "running", "settled", "handled", "over"}
Busy(t) == task[t] \in {"running", "settled", "handled"}

\* The running task nobody told to stop is the one remembered.
Foremost ==
    strategy # "merge" =>
        \A t \in Wrapped!Work : task[t] = "running" /\ t \notin told => runningTask = t

\* Where calls queue, one task at a time keeps the queue closed; elsewhere there is no queue.
InTurn ==
    /\ strategy = "concat" =>
         /\ \A t, u \in Wrapped!Work : Busy(t) /\ Busy(u) => t = u
         /\ \A t \in Wrapped!Work : Busy(t) => processingQueue
    /\ strategy # "concat" => ~processingQueue

\* After dispose() no timer is left either.
WorkStops == Wrapped!DisposedIsQuiet /\ (shut => debounceTimeout = 0)

\* The invariant of wrapped actions.
WorkInv ==
    /\ Wrapped!WorkTyped /\ strategy \in {"switch", "exhaust", "merge", "concat"}
    /\ throttles \in BOOLEAN
    /\ Foremost /\ InTurn /\ WorkStops

\* Nothing runs, waits or is queued when a wrapper is made.
LEMMA WorkStarts == Wrapped!WorkInit => WorkInv
  <1> SUFFICES ASSUME Wrapped!WorkInit PROVE WorkInv
    OBVIOUS
  <1> USE DEF Wrapped!WorkInit, Wrapped!NoTask
  <1>1. Wrapped!WorkTyped
    <2>1. task \in [Wrapped!Work -> TaskStates]
      BY DEF TaskStates
    <2>2. workQueue \in Seq(Wrapped!Work)
      OBVIOUS
    <2>3. told \subseteq Wrapped!Work
          /\ {runningTask, debounceTimeout} \subseteq Wrapped!Work \cup {0}
      OBVIOUS
    <2>. QED BY <2>1, <2>2, <2>3 DEF Wrapped!WorkTyped, TaskStates
  <1>2. \A t \in Wrapped!Work : task[t] = "uncalled"
    OBVIOUS
  <1>. QED BY <1>1, <1>2 DEF WorkInv, Foremost, InTurn, Busy, WorkStops, Wrapped!DisposedIsQuiet

\* The types of wrapped actions, apart from everything else.
LEMMA WorkTypes ==
    ASSUME WorkInv
    PROVE  /\ task \in [Wrapped!Work -> TaskStates] /\ told \subseteq Wrapped!Work
           /\ runningTask \in Wrapped!Work \cup {0} /\ debounceTimeout \in Wrapped!Work \cup {0}
           /\ workQueue \in Seq(Wrapped!Work) /\ throttled \in BOOLEAN
           /\ processingQueue \in BOOLEAN /\ shut \in BOOLEAN
           /\ strategy \in {"switch", "exhaust", "merge", "concat"} /\ throttles \in BOOLEAN
           /\ 0 \notin Wrapped!Work
  BY DEF WorkInv, Wrapped!WorkTyped, Wrapped!NoTask, TaskStates, Wrapped!Work

\* Types are kept by whatever assigns to the variables what they may hold.
LEMMA WorkTypesKept ==
    ASSUME task' \in [Wrapped!Work -> TaskStates], told' \subseteq Wrapped!Work,
           runningTask' \in Wrapped!Work \cup {0}, debounceTimeout' \in Wrapped!Work \cup {0},
           workQueue' \in Seq(Wrapped!Work), throttled' \in BOOLEAN,
           processingQueue' \in BOOLEAN, shut' \in BOOLEAN
    PROVE  Wrapped!WorkTyped'
  BY DEF Wrapped!WorkTyped, Wrapped!NoTask, TaskStates

\* execute(), unless disposed of.
LEMMA WorkExecuted ==
    ASSUME WorkInv, NEW t \in Wrapped!Work, Wrapped!execute(t, task), ~shut, shut' = shut,
           debounceTimeout' \in Wrapped!Work \cup {0}, throttled' \in BOOLEAN,
           UNCHANGED <<strategy, debounces, throttles>>
    PROVE  WorkInv'
  <1>0. WorkStops'
    BY DEF WorkStops, Wrapped!DisposedIsQuiet
  <1>1. CASE strategy = "switch"
    <2>1. /\ told' = told \cup ({runningTask} \ {0}) /\ task' = [task EXCEPT ![t] = "running"]
          /\ runningTask' = t /\ workQueue' = workQueue /\ processingQueue' = processingQueue
      BY <1>1 DEF Wrapped!execute, Wrapped!NoTask
    <2>2. Wrapped!WorkTyped'
      <3>1. task' \in [Wrapped!Work -> TaskStates]
        BY <2>1, WorkTypes DEF TaskStates
      <3>. QED BY <2>1, <3>1, WorkTypes, WorkTypesKept
    <2>3. Foremost'
      BY <2>1, <1>1, WorkTypes DEF WorkInv, Foremost
    <2>4. InTurn'
      BY <2>1, <1>1 DEF WorkInv, InTurn
    <2>. QED BY <1>0, <2>2, <2>3, <2>4, WorkTypes DEF WorkInv
  <1>2. CASE strategy = "exhaust"
    <2>1. /\ told' = told /\ workQueue' = workQueue /\ processingQueue' = processingQueue
          /\ \/ /\ task' = [task EXCEPT ![t] = "ignored"] /\ runningTask' = runningTask
             \/ /\ task' = [task EXCEPT ![t] = "running"] /\ runningTask' = t /\ runningTask = 0
      BY <1>2 DEF Wrapped!execute, Wrapped!NoTask
    <2>2. Wrapped!WorkTyped'
      <3>1. task' \in [Wrapped!Work -> TaskStates]
        BY <2>1, WorkTypes DEF TaskStates
      <3>. QED BY <2>1, <3>1, WorkTypes, WorkTypesKept
    <2>3. Foremost'
      BY <2>1, <1>2, WorkTypes DEF WorkInv, Foremost
    <2>4. InTurn'
      BY <2>1, <1>2 DEF WorkInv, InTurn
    <2>. QED BY <1>0, <2>2, <2>3, <2>4, WorkTypes DEF WorkInv
  <1>3. CASE strategy = "merge"
    <2>1. /\ told' = told /\ workQueue' = workQueue /\ processingQueue' = processingQueue
          /\ task' = [task EXCEPT ![t] = "running"] /\ runningTask' = runningTask
      BY <1>3 DEF Wrapped!execute, Wrapped!NoTask
    <2>2. Wrapped!WorkTyped'
      <3>1. task' \in [Wrapped!Work -> TaskStates]
        BY <2>1, WorkTypes DEF TaskStates
      <3>. QED BY <2>1, <3>1, WorkTypes, WorkTypesKept
    <2>3. Foremost' /\ InTurn'
      BY <2>1, <1>3 DEF WorkInv, InTurn, Foremost
    <2>. QED BY <1>0, <2>2, <2>3, WorkTypes DEF WorkInv
  <1>4. CASE strategy = "concat" /\ processingQueue
    <2>1. /\ told' = told /\ workQueue' = Append(workQueue, t) /\ processingQueue' = processingQueue
          /\ task' = [task EXCEPT ![t] = "queued"] /\ runningTask' = runningTask
      BY <1>4 DEF Wrapped!execute
    <2>2. Wrapped!WorkTyped'
      <3>1. task' \in [Wrapped!Work -> TaskStates] /\ workQueue' \in Seq(Wrapped!Work)
        BY <2>1, WorkTypes DEF TaskStates
      <3>. QED BY <2>1, <3>1, WorkTypes, WorkTypesKept
    <2>3. Foremost' /\ InTurn'
      BY <2>1, <1>4, WorkTypes DEF WorkInv, InTurn, Foremost, Busy
    <2>. QED BY <1>0, <2>2, <2>3, WorkTypes DEF WorkInv
  <1>5. CASE strategy = "concat" /\ ~processingQueue
    <2>1. /\ told' = told /\ workQueue' = workQueue /\ processingQueue' = TRUE
          /\ task' = [task EXCEPT ![t] = "running"] /\ runningTask' = t
      BY <1>5 DEF Wrapped!execute
    <2>2. Wrapped!WorkTyped'
      <3>1. task' \in [Wrapped!Work -> TaskStates]
        BY <2>1, WorkTypes DEF TaskStates
      <3>. QED BY <2>1, <3>1, WorkTypes, WorkTypesKept
    <2>3. \A u \in Wrapped!Work : ~Busy(u)
      BY <1>5 DEF WorkInv, InTurn
    <2>4. Foremost' /\ InTurn'
      BY <2>1, <2>3, <1>5, WorkTypes DEF WorkInv, InTurn, Foremost, Busy
    <2>. QED BY <1>0, <2>2, <2>4, WorkTypes DEF WorkInv
  <1>. QED BY <1>1, <1>2, <1>3, <1>4, <1>5, WorkTypes

\* Tasks that were not running do not run now, and the others go on towards their end.
LEMMA WorkEnds ==
    ASSUME WorkInv, task' \in [Wrapped!Work -> TaskStates],
           \A t \in Wrapped!Work :
              /\ Busy(t)' => Busy(t)
              /\ task'[t] = "running" => task[t] = "running"
              /\ task'[t] \in {"waiting", "queued"} => task[t] = task'[t],
           UNCHANGED <<strategy, debounces, throttles, told, runningTask, workQueue, processingQueue>>,
           throttled' \in BOOLEAN, UNCHANGED <<debounceTimeout, shut>>
    PROVE  WorkInv'
  <1>1. Wrapped!WorkTyped'
    BY WorkTypes, WorkTypesKept
  <1>2. Foremost' /\ InTurn'
    BY DEF WorkInv, Foremost, InTurn
  <1>3. WorkStops'
    BY DEF WorkInv, WorkStops, Wrapped!DisposedIsQuiet
  <1>. QED BY <1>1, <1>2, <1>3, WorkTypes DEF WorkInv

\* Every action of the wrapper keeps its invariant, one step per action.
LEMMA WorkStep == ASSUME WorkInv, [Wrapped!WorkNext]_work PROVE WorkInv'
  <1>1. ASSUME NEW t \in Wrapped!Work, Wrapped!CallWrapped(t) PROVE WorkInv'
    <2>0. task[t] = "uncalled" /\ UNCHANGED <<strategy, debounces, throttles, shut>>
      BY <1>1 DEF Wrapped!CallWrapped, Wrapped!options
    <2>1. CASE shut \/ throttled
      <3>1. /\ task' = [task EXCEPT ![t] = "ignored"]
            /\ UNCHANGED <<told, runningTask, debounceTimeout, throttled, workQueue, processingQueue>>
        BY <1>1, <2>1 DEF Wrapped!CallWrapped
      <3>2. task' \in [Wrapped!Work -> TaskStates] /\ task'[t] = "ignored"
            /\ \A u \in Wrapped!Work \ {t} : task'[u] = task[u]
        BY <3>1, WorkTypes DEF TaskStates
      <3>. QED BY <2>0, <3>1, <3>2, WorkTypes, WorkEnds DEF Busy
    <2>2. CASE ~(shut \/ throttled) /\ debounces
      <3>1. /\ task' = [u \in Wrapped!Work |-> IF u = t THEN "waiting"
                                               ELSE IF u = debounceTimeout THEN "ignored" ELSE task[u]]
            /\ debounceTimeout' = t /\ throttled' = throttles
            /\ UNCHANGED <<told, runningTask, workQueue, processingQueue>>
        BY <1>1, <2>2 DEF Wrapped!CallWrapped
      <3>2. task' \in [Wrapped!Work -> TaskStates]
        BY <3>1, WorkTypes DEF TaskStates
      <3>3. \A u \in Wrapped!Work : (Busy(u)' => Busy(u)) /\ (task'[u] = "running" => task[u] = "running")
        BY <3>1 DEF Busy
      <3>4. Wrapped!WorkTyped'
        BY <2>0, <3>1, <3>2, WorkTypes, WorkTypesKept
      <3>5. Foremost' /\ InTurn'
        BY <2>0, <3>1, <3>3 DEF WorkInv, Foremost, InTurn
      <3>6. WorkStops'
        BY <2>0, <2>2 DEF WorkStops, Wrapped!DisposedIsQuiet
      <3>. QED BY <2>0, <3>4, <3>5, <3>6, WorkTypes DEF WorkInv
    <2>3. CASE ~(shut \/ throttled) /\ ~debounces
      <3>1. Wrapped!execute(t, task) /\ UNCHANGED debounceTimeout /\ throttled' = throttles
        BY <1>1, <2>3 DEF Wrapped!CallWrapped
      <3>. QED BY <2>0, <2>3, <3>1, WorkTypes, WorkExecuted
    <2>. QED BY <2>1, <2>2, <2>3
  <1>2. CASE Wrapped!TimerFires
    <2>1. /\ debounceTimeout # 0 /\ debounceTimeout' = 0 /\ Wrapped!execute(debounceTimeout, task)
          /\ UNCHANGED <<strategy, debounces, throttles, throttled, shut>>
      BY <1>2 DEF Wrapped!TimerFires, Wrapped!NoTask, Wrapped!options
    <2>2. debounceTimeout \in Wrapped!Work /\ ~shut
      BY <2>1, WorkTypes DEF WorkInv, WorkStops
    <2>. QED BY <2>1, <2>2, WorkTypes, WorkExecuted
  <1>3. CASE Wrapped!ThrottleOver
    BY <1>3, WorkTypes, WorkEnds DEF Wrapped!ThrottleOver, Wrapped!options, Busy
  <1>4. ASSUME NEW t \in Wrapped!Work, Wrapped!ActionSettles(t) \/ Wrapped!Finally(t) PROVE WorkInv'
    <2>1. /\ UNCHANGED <<strategy, debounces, throttles, told, runningTask, debounceTimeout,
                         throttled, workQueue, processingQueue, shut>>
          /\ \/ task[t] = "running" /\ task' = [task EXCEPT ![t] = "settled"]
             \/ task[t] = "settled" /\ task' = [task EXCEPT ![t] = "handled"]
      BY <1>4 DEF Wrapped!ActionSettles, Wrapped!Finally, Wrapped!options
    <2>2. task' \in [Wrapped!Work -> TaskStates] /\ Busy(t) /\ task'[t] \in {"settled", "handled"}
            /\ \A u \in Wrapped!Work \ {t} : task'[u] = task[u]
      BY <2>1, WorkTypes DEF TaskStates, Busy
    <2>. QED BY <2>1, <2>2, WorkTypes, WorkEnds DEF Busy
  <1>5. ASSUME NEW t \in Wrapped!Work, Wrapped!TaskOver(t) PROVE WorkInv'
    <2>0. /\ task[t] = "handled"
          /\ UNCHANGED <<strategy, debounces, throttles, told, debounceTimeout, throttled, shut>>
      BY <1>5 DEF Wrapped!TaskOver, Wrapped!options
    <2>1. CASE processingQueue /\ workQueue # << >> /\ ~shut
      <3>1. /\ runningTask' = Head(workQueue) /\ workQueue' = Tail(workQueue)
            /\ task' = [task EXCEPT ![t] = "over", ![Head(workQueue)] = "running"]
            /\ processingQueue' = processingQueue
        BY <1>5, <2>1 DEF Wrapped!TaskOver
      <3> DEFINE next == Head(workQueue)
      <3>2. next \in Wrapped!Work /\ Tail(workQueue) \in Seq(Wrapped!Work)
        BY <2>1, WorkTypes
      <3>3. /\ task' \in [Wrapped!Work -> TaskStates] /\ task'[next] = "running"
            /\ \A u \in Wrapped!Work : u # next =>
                  task'[u] = IF u = t THEN "over" ELSE task[u]
        BY <3>1, <3>2, WorkTypes DEF TaskStates
      <3>4. strategy = "concat" /\ \A u \in Wrapped!Work : u # t => ~Busy(u)
        BY <2>0, <2>1 DEF WorkInv, InTurn, Busy
      <3> HIDE DEF next
      <3>5. Wrapped!WorkTyped'
        BY <2>0, <3>1, <3>2, <3>3, WorkTypes, WorkTypesKept DEF next
      <3>6. runningTask' = next
        BY <3>1 DEF next
      <3>7. Foremost' /\ InTurn'
        BY <2>0, <2>1, <3>1, <3>3, <3>4, <3>6 DEF Foremost, InTurn, Busy
      <3>8. WorkStops'
        BY <2>0, <2>1 DEF WorkStops, Wrapped!DisposedIsQuiet
      <3>. QED BY <2>0, <3>5, <3>7, <3>8, WorkTypes DEF WorkInv
    <2>2. CASE ~(processingQueue /\ workQueue # << >> /\ ~shut)
      <3>1. /\ runningTask' = (IF runningTask = t THEN 0 ELSE runningTask)
            /\ task' = [task EXCEPT ![t] = "over"] /\ processingQueue' = FALSE
            /\ workQueue' = workQueue
        BY <1>5, <2>2 DEF Wrapped!TaskOver, Wrapped!NoTask
      <3>2. /\ task' \in [Wrapped!Work -> TaskStates] /\ task'[t] = "over"
            /\ \A u \in Wrapped!Work \ {t} : task'[u] = task[u]
        BY <3>1, WorkTypes DEF TaskStates
      <3>3. Wrapped!WorkTyped'
        BY <2>0, <3>1, <3>2, WorkTypes, WorkTypesKept
      <3>4. Foremost'
        BY <2>0, <3>1, <3>2 DEF WorkInv, Foremost
      <3>5. InTurn'
        BY <2>0, <3>1, <3>2 DEF WorkInv, InTurn, Busy
      <3>6. WorkStops'
        BY <2>0, <3>1, <3>2 DEF WorkInv, WorkStops, Wrapped!DisposedIsQuiet
      <3>. QED BY <2>0, <3>3, <3>4, <3>5, <3>6, WorkTypes DEF WorkInv
    <2>. QED BY <2>1, <2>2
  <1>6. CASE Wrapped!disposeWork
    <2>1. /\ shut' = TRUE /\ runningTask' = 0 /\ debounceTimeout' = 0 /\ workQueue' = << >>
          /\ task' = [t \in Wrapped!Work |-> IF task[t] \in {"waiting", "queued"} THEN "ignored" ELSE task[t]]
          /\ told' = told \cup {t \in Wrapped!Work : task[t] \in {"running", "settled"}}
          /\ UNCHANGED <<strategy, debounces, throttles, throttled, processingQueue>>
      BY <1>6 DEF Wrapped!disposeWork, Wrapped!NoTask, Wrapped!options
    <2>2. task' \in [Wrapped!Work -> TaskStates] /\ told' \subseteq Wrapped!Work
      BY <2>1, WorkTypes DEF TaskStates
    <2>3. \A t \in Wrapped!Work : /\ task'[t] \notin {"waiting", "queued"} /\ (Busy(t)' => Busy(t))
                                  /\ task'[t] = "running" => t \in told'
      BY <2>1 DEF Busy
    <2>4. Wrapped!WorkTyped'
      BY <2>1, <2>2, WorkTypes, WorkTypesKept
    <2>5. Foremost' /\ InTurn' /\ WorkStops'
      BY <2>1, <2>3 DEF WorkInv, Foremost, InTurn, WorkStops, Wrapped!DisposedIsQuiet
    <2>. QED BY <2>1, <2>4, <2>5, WorkTypes DEF WorkInv
  <1>7. CASE UNCHANGED work
    BY <1>7, WorkTypes, WorkEnds DEF work, Busy
  <1>. QED
    BY <1>1, <1>2, <1>3, <1>4, <1>5, <1>6, <1>7 DEF Wrapped!WorkNext

\* What useConcurrency promises follows.
LEMMA WorkHolds == WorkInv => Wrapped!WorkTyped /\ Wrapped!OneRuns /\ Wrapped!DisposedIsQuiet
  <1> SUFFICES ASSUME WorkInv, strategy # "merge",
                      NEW t \in Wrapped!Work, NEW u \in Wrapped!Work,
                      {task[t], task[u]} = {"running"}, {t, u} \cap told = {}
               PROVE  t = u
    BY DEF WorkInv, WorkStops, Wrapped!OneRuns
  <1>1. task[t] = "running" /\ task[u] = "running" /\ t \notin told /\ u \notin told
    OBVIOUS
  <1>. QED BY <1>1 DEF WorkInv, Foremost

----------------------------------------------------------------------------
\* Locale: whoever was loaded has translations, and so has what is active.
LocaleInv ==
    /\ LocaleTyped /\ stored = locale /\ locale <= localeTransition
    /\ translations[Default] # {}
    /\ locale # 0 => translations[want[locale]] # {}
    /\ \A c \in Transition : /\ c > localeTransition => asking[c] = "none"
                             /\ asking[c] = "loaded" => translations[want[c]] # {}

\* The types of a locale and its loads, apart from everything else.
LEMMA LocaleTypes ==
    ASSUME LocaleInv
    PROVE  /\ localeTransition \in 0..MaxCalls /\ locale \in 0..MaxCalls /\ MaxCalls \in Nat
           /\ want \in [Transition -> Language] /\ Default \in Language
           /\ asking \in [Transition -> {"none", "loading", "loaded", "rejected", "returned", "threw"}]
           /\ translations \in [Language -> SUBSET {"options", "loader", "added"}]
           /\ pendingLoads \in [Language -> {"none", "running", "loaded", "rejected"}]
  BY AwaitsAssumption DEF LocaleInv, LocaleTyped, LocaleAssumption

\* The default locale is active and has its translations at the start.
LEMMA LocaleStarts == LocaleInit => LocaleInv
  <1> SUFFICES ASSUME LocaleInit PROVE LocaleInv
    OBVIOUS
  <1>0. Default \in Language /\ MaxCalls \in Nat
    BY AwaitsAssumption DEF LocaleAssumption
  <1>1. LocaleTyped
    BY <1>0 DEF LocaleInit, LocaleTyped
  <1>. QED BY <1>0, <1>1 DEF LocaleInit, LocaleInv

\* Every action of a locale keeps its invariant, one step per action.
LEMMA LocaleKept ==
    ASSUME LocaleInv, [LocaleNext]_localeVars PROVE LocaleInv'
  <1>1. ASSUME NEW l \in Language, setLocale(l) PROVE LocaleInv'
    <2> DEFINE c == localeTransition + 1
    <2>0. /\ c \in Transition /\ c > localeTransition /\ localeTransition' = c
          /\ want' = [want EXCEPT ![c] = l] /\ translations' = translations
          /\ \A d \in Transition : d > c => d > localeTransition /\ d # c
          /\ locale # c /\ (locale # 0 => locale \in Transition) /\ locale <= c
          /\ c # 0 /\ c \in 0..MaxCalls
      BY <1>1, LocaleTypes DEF setLocale, Transition, LocaleInv
    <2> HIDE DEF c
    <2>1. CASE translations[l] # {}
      <3>1. /\ asking' = [asking EXCEPT ![c] = "returned"] /\ locale' = c /\ stored' = c
            /\ pendingLoads' = pendingLoads
        BY <1>1, <2>0, <2>1 DEF setLocale, Activate, c
      <3>2. LocaleTyped'
        BY <2>0, <3>1, LocaleTypes DEF LocaleTyped
      <3>3. want'[c] = l
            /\ \A d \in Transition : d # c => want'[d] = want[d] /\ asking'[d] = asking[d]
        BY <2>0, <3>1, LocaleTypes
      <3>4. asking'[c] = "returned"
        BY <2>0, <3>1, LocaleTypes
      <3>5. c <= c
        BY <2>0, LocaleTypes
      <3>. QED BY <2>0, <2>1, <3>1, <3>2, <3>3, <3>4, <3>5 DEF LocaleInv
    <2>2. CASE translations[l] = {}
      <3>1. /\ asking' = [asking EXCEPT ![c] = IF pendingLoads[l] = "rejected" THEN "rejected" ELSE "loading"]
            /\ pendingLoads' \in {pendingLoads, [pendingLoads EXCEPT ![l] = "running"]}
            /\ locale' = locale /\ stored' = stored
        BY <1>1, <2>2 DEF setLocale, c
      <3>2. LocaleTyped'
        <4>1. pendingLoads' \in [Language -> {"none", "running", "loaded", "rejected"}]
          BY <3>1, LocaleTypes
        <4>2. asking' \in [Transition -> {"none", "loading", "loaded", "rejected", "returned", "threw"}]
          BY <2>0, <3>1, LocaleTypes
        <4>. QED BY <2>0, <3>1, <4>1, <4>2, LocaleTypes DEF LocaleTyped, LocaleInv
      <3>3. want'[c] = l
            /\ \A d \in Transition : d # c => want'[d] = want[d] /\ asking'[d] = asking[d]
        BY <2>0, <3>1, LocaleTypes
      <3>4. asking'[c] # "loaded"
        BY <2>0, <3>1, LocaleTypes
      <3>. QED BY <2>0, <3>1, <3>2, <3>3, <3>4 DEF LocaleInv
    <2>. QED BY <2>1, <2>2
  <1>2. ASSUME NEW l \in Language, LoadEnds(l) PROVE LocaleInv'
    <2>1. PICK how \in {"loaded", "rejected"} :
          /\ pendingLoads' = [pendingLoads EXCEPT ![l] = how]
          /\ translations' = IF how = "loaded" THEN [translations EXCEPT ![l] = {"loader"}]
                             ELSE translations
          /\ asking' = [c \in Transition |-> IF asking[c] = "loading" /\ want[c] = l
                                             THEN how ELSE asking[c]]
      BY <1>2 DEF LoadEnds
    <2>2. UNCHANGED <<localeTransition, want, locale, stored>>
      BY <1>2 DEF LoadEnds
    <2>3. translations' \in [Language -> SUBSET {"options", "loader", "added"}]
          /\ \A k \in Language : translations[k] # {} => translations'[k] # {}
      BY <2>1, LocaleTypes
    <2>4. how = "loaded" => translations'[l] # {}
      BY <2>1, LocaleTypes
    <2>5. LocaleTyped'
      <3>1. pendingLoads' \in [Language -> {"none", "running", "loaded", "rejected"}]
        BY <2>1, LocaleTypes
      <3>2. asking' \in [Transition -> {"none", "loading", "loaded", "rejected", "returned", "threw"}]
        BY <2>1, LocaleTypes
      <3>. QED BY <2>2, <2>3, <3>1, <3>2 DEF LocaleInv, LocaleTyped
    <2>6. \A c \in Transition : want[c] \in Language /\ (asking'[c] = "loaded" => translations'[want[c]] # {})
      BY <2>1, <2>3, <2>4, LocaleTypes DEF LocaleInv
    <2>7. \A c \in Transition : c > localeTransition => asking'[c] = "none"
      BY <2>1 DEF LocaleInv
    <2>8. locale # 0 => locale \in Transition
      BY LocaleTypes DEF Transition
    <2>. QED BY <2>2, <2>3, <2>5, <2>6, <2>7, <2>8, LocaleTypes DEF LocaleInv
  <1>3. ASSUME NEW l \in Language, Forget(l) PROVE LocaleInv'
    <2>1. pendingLoads' \in [Language -> {"none", "running", "loaded", "rejected"}]
      BY <1>3, LocaleTypes DEF Forget
    <2>. QED BY <1>3, <2>1 DEF Forget, LocaleInv, LocaleTyped
  <1>4. ASSUME NEW l \in Language, addTranslations(l) PROVE LocaleInv'
    <2>1. translations' \in [Language -> SUBSET {"options", "loader", "added"}]
          /\ \A k \in Language : translations[k] # {} => translations'[k] # {}
      BY <1>4, LocaleTypes DEF addTranslations
    <2>2. locale # 0 => locale \in Transition
      BY LocaleTypes DEF Transition
    <2>. QED BY <1>4, <2>1, <2>2, LocaleTypes DEF addTranslations, LocaleInv, LocaleTyped
  <1>5. ASSUME NEW c \in Transition, Resume(c) PROVE LocaleInv'
    <2>0. UNCHANGED <<localeTransition, want, translations, pendingLoads>>
      BY <1>5 DEF Resume
    <2>1. /\ asking' \in [Transition -> {"none", "loading", "loaded", "rejected", "returned", "threw"}]
          /\ asking'[c] \in {"returned", "threw"}
          /\ \A d \in Transition \ {c} : asking'[d] = asking[d]
          /\ asking[c] \in {"loaded", "rejected"}
      BY <1>5, LocaleTypes DEF Resume, Activate
    <2>2. \/ UNCHANGED <<locale, stored>>
          \/ asking[c] = "loaded" /\ c = localeTransition /\ locale' = c /\ stored' = c
      BY <1>5, <2>0 DEF Resume, Activate
    <2>3. ~(c > localeTransition) /\ c \in 0..MaxCalls
      BY <2>1, LocaleTypes DEF LocaleInv, Transition
    <2>4. LocaleTyped'
      BY <2>0, <2>1, <2>2, <2>3 DEF LocaleInv, LocaleTyped
    <2>5. locale' <= localeTransition'
      BY <2>0, <2>2, LocaleTypes DEF LocaleInv
    <2>. QED BY <2>0, <2>1, <2>2, <2>3, <2>4, <2>5 DEF LocaleInv
  <1>6. CASE UNCHANGED localeVars
    BY <1>6 DEF localeVars, LocaleInv, LocaleTyped
  <1>. QED
    BY <1>1, <1>2, <1>3, <1>4, <1>5, <1>6 DEF LocaleNext

\* The active locale has translations, and is the one that is stored.
LEMMA LocaleHolds == LocaleInv => LocaleTyped /\ ActiveIsTranslated
  BY LocaleTypes DEF LocaleInv, ActiveIsTranslated, Active

----------------------------------------------------------------------------
\* Navigation.

\* A hop's id was given by the counter, and to no other one.
Hops ==
    /\ \A n \in Router!Nav : /\ hop[n].id <= navigationId
                             /\ navOutcome[n] = "guarding" => hop[n].id > 0
    /\ \A m, n \in Router!Nav : m # n /\ hop[m].id = hop[n].id => hop[n].id = 0

\* The invariant of navigations.
RouterInv == Router!NavigationTyped /\ Router!RouteIsPath /\ Hops

\* What a hop is, and what becomes of a navigation.
HopState == [id : Nat, to : Path, seen : SUBSET Path, passed : 0..Stages]
Outcomes == {"committed", "aborted", "duplicated", "loop", "cancelled", "failed", "idle", "guarding"}

\* What the constants of a router are.
LEMMA RouterBounds ==
    Home \in Path /\ IsFiniteSet(Path) /\ MaxNavigations \in Nat /\ Stages \in Nat \ {0}
    /\ Records \subseteq [Path -> Path]
  <1>1. \A S : Router!IsFiniteSet(S) = IsFiniteSet(S)
    BY DEF Router!IsFiniteSet, IsFiniteSet
  <1>. QED BY <1>1, RouterAssumption DEF Router!NavigationAssumption

\* The types of navigations, apart from everything else.
LEMMA RouterTypes ==
    ASSUME RouterInv
    PROVE  /\ redirect \in Records /\ hashed \in BOOLEAN /\ navigationId \in Nat
           /\ hop \in [Router!Nav -> HopState] /\ navOutcome \in [Router!Nav -> Outcomes]
           /\ route \in Path /\ path \in Path /\ events \in BOOLEAN
  BY DEF RouterInv, Router!NavigationTyped, HopState, Outcomes, Router!Ended

\* Types are kept by whatever assigns to the variables what they may hold.
LEMMA RouterTypesKept ==
    ASSUME redirect' \in Records, hashed' \in BOOLEAN, navigationId' \in Nat,
           hop' \in [Router!Nav -> HopState], navOutcome' \in [Router!Nav -> Outcomes],
           route' \in Path, path' \in Path, events' \in BOOLEAN
    PROVE  Router!NavigationTyped'
  BY DEF Router!NavigationTyped, HopState, Outcomes, Router!Ended

\* No hop has an id before the first navigation.
LEMMA RouterStarts == Router!NavigationInit => RouterInv
  <1> SUFFICES ASSUME Router!NavigationInit PROVE RouterInv
    OBVIOUS
  <1>1. /\ redirect \in Records /\ hashed \in BOOLEAN /\ navigationId = 0
        /\ path = Home /\ route = Home /\ events = FALSE
        /\ navOutcome = [n \in Router!Nav |-> "idle"]
        /\ hop = [n \in Router!Nav |-> [id |-> 0, to |-> Home, seen |-> {}, passed |-> 0]]
    BY DEF Router!NavigationInit
  <1>2. [id |-> 0, to |-> Home, seen |-> {}, passed |-> 0] \in HopState
    BY RouterBounds DEF HopState
  <1>3. hop \in [Router!Nav -> HopState] /\ navOutcome \in [Router!Nav -> Outcomes]
    BY <1>1, <1>2 DEF Outcomes
  <1>4. Router!NavigationTyped
    BY <1>1, <1>3, RouterBounds DEF Router!NavigationTyped, HopState, Outcomes, Router!Ended
  <1>5. Router!RouteIsPath
    BY <1>1 DEF Router!RouteIsPath
  <1>6. Hops
    BY <1>1 DEF Hops
  <1>. QED BY <1>4, <1>5, <1>6 DEF RouterInv

\* A way is not empty and stays among the paths.
LEMMA WayTyped ==
    ASSUME NEW p, NEW seen, NEW way \in Router!Ways(p, seen)
    PROVE  /\ Len(way) \in Nat \ {0}
           /\ \A i \in 1..Len(way) : way[i] \in Path
  <1>1. Cardinality(Path) \in Nat
    BY RouterBounds, FS_CardinalityType
  <1>2. PICK k \in 1..Router!Cardinality(Path) + 1 : way \in [1..k -> Path]
    BY DEF Router!Ways
  <1>3. Router!Cardinality(Path) = Cardinality(Path)
    BY DEF Router!Cardinality, Cardinality
  <1>4. k \in Nat \ {0}
    BY <1>1, <1>2, <1>3
  <1>5. Len(way) = k
    BY <1>2, <1>4
  <1>. QED BY <1>2, <1>4, <1>5

\* navigate(): the hop it ends with has a new id.
LEMMA HopBegins ==
    ASSUME RouterInv, NEW n \in Router!Nav, NEW p, NEW seen \in SUBSET Path,
           Router!navigate(n, p, seen),
           UNCHANGED <<redirect, hashed, route, path, events>>
    PROVE  RouterInv'
  <1>1. PICK way \in Router!Ways(p, seen) :
          LET last == way[Len(way)]
              before == seen \cup {way[i] : i \in 1..Len(way) - 1} IN
          /\ navigationId' = navigationId + Len(way)
          /\ hop' = [hop EXCEPT ![n] = [id |-> navigationId', to |-> last,
                                        seen |-> before \cup {last}, passed |-> 0]]
          /\ navOutcome' = [navOutcome EXCEPT ![n] = IF last \in before THEN "loop"
                                               ELSE IF last = route THEN "duplicated"
                                               ELSE "guarding"]
    BY DEF Router!navigate
  <1> DEFINE last == way[Len(way)]
             before == seen \cup {way[i] : i \in 1..Len(way) - 1}
             new == [id |-> navigationId', to |-> last, seen |-> before \cup {last}, passed |-> 0]
  <1>2. Len(way) \in Nat \ {0} /\ last \in Path /\ before \subseteq Path
    BY WayTyped
  <1>3. navigationId' \in Nat /\ navigationId \in Nat /\ navigationId' > navigationId
    BY <1>1, <1>2, RouterTypes
  <1>4. new \in HopState /\ new.id = navigationId'
    BY <1>2, <1>3, RouterBounds DEF HopState
  <1>5. hop' = [hop EXCEPT ![n] = new]
        /\ navOutcome' \in [Router!Nav -> Outcomes]
        /\ \A m \in Router!Nav \ {n} : navOutcome'[m] = navOutcome[m]
    BY <1>1, RouterTypes DEF Outcomes
  <1> HIDE DEF new
  <1>6. hop' \in [Router!Nav -> HopState] /\ hop'[n].id = navigationId'
        /\ \A m \in Router!Nav \ {n} : hop'[m] = hop[m]
    BY <1>4, <1>5, RouterTypes
  <1>7. Router!NavigationTyped'
    BY <1>3, <1>5, <1>6, RouterTypes, RouterTypesKept
  <1>8. Router!RouteIsPath'
    BY DEF RouterInv, Router!RouteIsPath
  <1>9. \A m \in Router!Nav : hop[m].id \in Nat /\ hop[m].id <= navigationId
    BY RouterTypes DEF RouterInv, Hops, HopState
  <1>10. Hops'
    BY <1>3, <1>5, <1>6, <1>9 DEF RouterInv, Hops
  <1>. QED BY <1>7, <1>8, <1>10 DEF RouterInv

\* Every action of the router keeps its invariant, one step per action.
LEMMA RouterStep == ASSUME RouterInv, [Router!NavigationNext]_navigations PROVE RouterInv'
  <1>1. ASSUME NEW n \in Router!Nav, NEW p \in Path, Router!Push(n, p) PROVE RouterInv'
    <2>1. UNCHANGED <<redirect, hashed, route, path, events>>
      BY <1>1 DEF Router!Push
    <2>2. CASE Router!navigate(n, p, {})
      BY <2>1, <2>2, HopBegins
    <2>3. CASE /\ navigationId' = navigationId + 1
               /\ navOutcome' = [navOutcome EXCEPT ![n] = "aborted"] /\ UNCHANGED hop
      <3>1. navigationId' \in Nat /\ navOutcome' \in [Router!Nav -> Outcomes]
            /\ \A m \in Router!Nav : navOutcome'[m] = "guarding" => navOutcome[m] = "guarding"
        BY <2>3, RouterTypes DEF Outcomes
      <3>2. Router!NavigationTyped'
        BY <2>1, <2>3, <3>1, RouterTypes, RouterTypesKept
      <3>3. \A m \in Router!Nav : hop[m].id \in Nat
        BY RouterTypes DEF HopState
      <3>. QED
        BY <2>1, <2>3, <3>1, <3>2, <3>3, RouterTypes DEF RouterInv, Router!RouteIsPath, Hops
    <2>. QED BY <1>1, <2>2, <2>3 DEF Router!Push
  <1>2. ASSUME NEW n \in Router!Nav, NEW p \in Path, Router!Redirect(n, p) PROVE RouterInv'
    <2>1. hop[n].seen \in SUBSET Path
      BY RouterTypes DEF HopState
    <2>. QED BY <1>2, <2>1, HopBegins DEF Router!Redirect
  <1>3. ASSUME NEW n \in Router!Nav, Router!Allow(n) PROVE RouterInv'
    <2>1. /\ hop' = [hop EXCEPT ![n].passed = @ + 1] /\ hop[n].passed < Stages
          /\ UNCHANGED <<redirect, hashed, navigationId, navOutcome, route, path, events>>
      BY <1>3 DEF Router!Allow
    <2> DEFINE new == [hop[n] EXCEPT !.passed = @ + 1]
    <2>2. new \in HopState /\ new.id = hop[n].id
      <3>1. hop[n] \in HopState /\ hop[n].passed + 1 \in 0..Stages
        BY <2>1, RouterTypes, RouterBounds DEF HopState
      <3>. QED BY <3>1 DEF HopState
    <2>3. hop' = [hop EXCEPT ![n] = new]
      BY <2>1
    <2> HIDE DEF new
    <2>4. hop' \in [Router!Nav -> HopState] /\ \A m \in Router!Nav : hop'[m].id = hop[m].id
      BY <2>2, <2>3, RouterTypes
    <2>5. Router!NavigationTyped'
      BY <2>1, <2>4, RouterTypes, RouterTypesKept
    <2>. QED BY <2>1, <2>4, <2>5 DEF RouterInv, Router!RouteIsPath, Hops
  <1>4. ASSUME NEW n \in Router!Nav, Router!Refuse(n) PROVE RouterInv'
    <2>1. /\ navOutcome' \in [Router!Nav -> Outcomes]
          /\ \A m \in Router!Nav : navOutcome'[m] = "guarding" => navOutcome[m] = "guarding"
      BY <1>4, RouterTypes DEF Router!Refuse, Outcomes
    <2>2. UNCHANGED <<redirect, hashed, navigationId, hop, route, path, events>>
      BY <1>4 DEF Router!Refuse
    <2>3. Router!NavigationTyped'
      BY <2>1, <2>2, RouterTypes, RouterTypesKept
    <2>. QED BY <2>1, <2>2, <2>3 DEF RouterInv, Router!RouteIsPath, Hops
  <1>5. ASSUME NEW n \in Router!Nav, Router!Commit(n) PROVE RouterInv'
    <2>1. /\ UNCHANGED <<redirect, hashed, navigationId, hop>>
          /\ navOutcome' \in [Router!Nav -> Outcomes]
          /\ \A m \in Router!Nav : navOutcome'[m] = "guarding" => navOutcome[m] = "guarding"
      BY <1>5, RouterTypes DEF Router!Commit, Outcomes
    <2>2. /\ path' \in Path /\ route' \in Path /\ events' \in BOOLEAN
          /\ Router!RouteIsPath'
      <3>1. hop[n].to \in Path
        BY RouterTypes DEF HopState
      <3>. QED BY <1>5, <3>1, RouterTypes DEF Router!Commit, RouterInv, Router!RouteIsPath
    <2>3. Router!NavigationTyped'
      BY <2>1, <2>2, RouterTypes, RouterTypesKept
    <2>. QED BY <2>1, <2>2, <2>3 DEF RouterInv, Hops
  <1>6. CASE Router!Traverse
    BY <1>6, RouterTypes, RouterTypesKept DEF Router!Traverse, RouterInv, Router!RouteIsPath, Hops
  <1>7. CASE Router!syncRoute
    BY <1>7, RouterTypes, RouterTypesKept DEF Router!syncRoute, RouterInv, Router!RouteIsPath, Hops
  <1>8. CASE UNCHANGED navigations
    BY <1>8, RouterTypes, RouterTypesKept DEF navigations, RouterInv, Router!RouteIsPath, Hops
  <1>. QED
    BY <1>1, <1>2, <1>3, <1>4, <1>5, <1>6, <1>7, <1>8 DEF Router!NavigationNext

\* Only a hop whose id is the counter's commits.
LEMMA NewestWins ==
    ASSUME RouterInv, [Router!NavigationNext]_navigations,
           NEW n \in Router!Nav, navOutcome[n] # "committed", navOutcome'[n] = "committed",
           NEW m \in Router!Nav, navOutcome[m] = "committed"
    PROVE  hop[m].id < hop[n].id
  <1>1. Router!Commit(n) /\ navOutcome[n] = "guarding" /\ hop[n].id = navigationId
    <2>1. ASSUME NEW k \in Router!Nav, NEW p, NEW seen, Router!navigate(k, p, seen) PROVE FALSE
      BY <2>1, RouterTypes DEF Router!navigate
    <2>2. ASSUME NEW k \in Router!Nav, NEW p \in Path, Router!Push(k, p) PROVE FALSE
      BY <2>1, <2>2, RouterTypes DEF Router!Push
    <2>3. ASSUME NEW k \in Router!Nav, NEW p \in Path, Router!Redirect(k, p) PROVE FALSE
      BY <2>1, <2>3 DEF Router!Redirect
    <2>4. ASSUME NEW k \in Router!Nav, Router!Allow(k) \/ Router!Refuse(k) PROVE FALSE
      BY <2>4, RouterTypes DEF Router!Allow, Router!Refuse
    <2>5. ASSUME NEW k \in Router!Nav, Router!Commit(k)
          PROVE  k = n /\ navOutcome[n] = "guarding" /\ hop[n].id = navigationId
      BY <2>5, RouterTypes DEF Router!Commit
    <2>6. ~Router!Traverse /\ ~Router!syncRoute /\ ~UNCHANGED navigations
      BY DEF Router!Traverse, Router!syncRoute, navigations
    <2>. QED BY <2>2, <2>3, <2>4, <2>5, <2>6 DEF Router!NavigationNext
  <1>2. m # n /\ hop[n].id > 0 /\ hop[m].id <= navigationId /\ hop[m].id \in Nat
        /\ hop[n].id \in Nat
    BY <1>1, RouterTypes DEF RouterInv, Hops, HopState
  <1>3. hop[m].id # hop[n].id
    BY <1>2 DEF RouterInv, Hops
  <1>. QED BY <1>1, <1>2, <1>3, RouterTypes

\* With nothing left to hear from the history, the route is where it is.
LEMMA RouterHolds == RouterInv => Router!NavigationTyped /\ Router!RouteIsPath
  BY DEF RouterInv

----------------------------------------------------------------------------
\* Derived signals: the newest run is not cancelled before cleanup().
PendingInv ==
    /\ TokenInv /\ SelectTyped /\ PendingIsTrue
    /\ \A u \in Update : u > updates => ~isCancelled[u]
    /\ ~released => ~isCancelled[updates]

\* What the constants of derived signals are.
LEMMA UpdateBounds == DerivedAsyncAssumption /\ MaxUpdates \in Nat \ {0} /\ 1 \in Update
  BY AwaitsAssumption DEF DerivedAsyncAssumption, Update

\* The first update is under way at the start.
LEMMA PendingStarts == SelectInit => PendingInv
  <1> SUFFICES ASSUME SelectInit PROVE PendingInv
    OBVIOUS
  <1>1. TokenInv
    BY TokenInit, UpdateBounds
  <1>2. SelectTyped
    BY <1>1, UpdateBounds DEF TokenInv, SelectTyped, SelectInit
  <1>3. PendingIsTrue
    BY UpdateBounds DEF PendingIsTrue, SelectInit
  <1>. QED BY <1>1, <1>2, <1>3, UpdateBounds DEF PendingInv, SelectInit

\* Every action of a derived signal keeps its invariant, one step per action.
LEMMA PendingStep == ASSUME PendingInv, [SelectNext]_selectVars PROVE PendingInv'
  <1>0. TokenInv'
    BY TokenStep, UpdateBounds DEF PendingInv
  <1>a. /\ updates \in Update /\ derived \in 0..MaxUpdates /\ MaxUpdates \in Nat
        /\ Update = 1..MaxUpdates
        /\ selecting \in [Update -> {"none", "running", "fulfilled", "rejected", "handled", "over", "threw"}]
        /\ isCancelled \in [Update -> BOOLEAN] /\ pending \in BOOLEAN /\ released \in BOOLEAN
    BY UpdateBounds DEF PendingInv, SelectTyped, Update
  <1>b. ASSUME derived' \in 0..MaxUpdates, pending' \in BOOLEAN PROVE SelectTyped'
    BY <1>0, <1>b DEF TokenInv, SelectTyped
  <1>c. /\ ~released => (pending <=> selecting[updates] # "over")
        /\ \A u \in Update : u > updates => ~isCancelled[u]
        /\ ~released => ~isCancelled[updates]
    BY <1>a DEF PendingInv, PendingIsTrue
  <1>d. ASSUME SelectTyped', ~released' => (pending' <=> selecting'[updates'] # "over"),
               \A u \in Update : u > updates' => ~isCancelled'[u],
               ~released' => ~isCancelled'[updates']
        PROVE  PendingInv'
    <2>1. PendingIsTrue'
      BY <1>d DEF PendingIsTrue, SelectTyped
    <2>. QED BY <1>0, <1>d, <2>1 DEF PendingInv
  <1>1. CASE update
    <2>1. updates + 1 \in Update /\ updates' = updates + 1 /\ updates < updates + 1
          /\ \A u \in Update : u > updates + 1 => u > updates /\ u # updates
      BY <1>1, <1>a DEF update
    <2>2. PICK how \in {"running", "threw"} : selecting' = [selecting EXCEPT ![updates + 1] = how]
      BY <1>1 DEF update
    <2>3. isCancelled' = [isCancelled EXCEPT ![updates] = TRUE] /\ pending' = TRUE
          /\ UNCHANGED <<derived, released>>
      BY <1>1 DEF update
    <2>4. selecting'[updates'] # "over" /\ ~isCancelled'[updates']
      <3>1. ~isCancelled[updates + 1] /\ updates + 1 # updates
        BY <1>a, <1>c, <2>1
      <3>. QED BY <2>1, <2>2, <2>3, <3>1, <1>a
    <2>5. \A u \in Update : u > updates' => ~isCancelled'[u]
      BY <1>c, <2>1, <2>3, <1>a
    <2>. QED BY <1>a, <1>b, <1>d, <2>3, <2>4, <2>5
  <1>2. CASE cleanupDerived
    <2>1. \A u \in Update : u > updates => u # updates
      BY <1>a
    <2>2. released' /\ isCancelled' = [isCancelled EXCEPT ![updates] = TRUE]
          /\ UNCHANGED <<updates, selecting, derived, pending>>
      BY <1>2 DEF cleanupDerived
    <2>3. \A u \in Update : u > updates' => ~isCancelled'[u]
      BY <1>a, <1>c, <2>1, <2>2
    <2>. QED BY <1>a, <1>b, <1>d, <2>2, <2>3
  <1>3. ASSUME NEW u \in Update, SelectorSettles(u) PROVE PendingInv'
    <2>1. selecting[u] # "over" /\ selecting'[u] # "over"
          /\ \A v \in Update \ {u} : selecting'[v] = selecting[v]
      BY <1>3, <1>a DEF SelectorSettles
    <2>2. UNCHANGED <<updates, isCancelled, derived, pending, released>>
      BY <1>3 DEF SelectorSettles
    <2>3. selecting'[updates] # "over" <=> selecting[updates] # "over"
      BY <1>a, <2>1
    <2>. QED BY <1>a, <1>b, <1>c, <1>d, <2>2, <2>3
  <1>4. ASSUME NEW u \in Update, TakeValue(u) PROVE PendingInv'
    <2>1. selecting[u] # "over" /\ selecting'[u] # "over"
          /\ \A v \in Update \ {u} : selecting'[v] = selecting[v]
      BY <1>4, <1>a DEF TakeValue
    <2>2. UNCHANGED <<updates, isCancelled, pending, released>>
      BY <1>4 DEF TakeValue
    <2>3. derived' \in 0..MaxUpdates
      BY <1>4, <1>a DEF TakeValue
    <2>4. selecting'[updates] # "over" <=> selecting[updates] # "over"
      BY <1>a, <2>1
    <2>. QED BY <1>a, <1>b, <1>c, <1>d, <2>2, <2>3, <2>4
  <1>5. ASSUME NEW u \in Update, EndPending(u) PROVE PendingInv'
    <2>1. selecting[u] = "handled" /\ selecting'[u] = "over"
          /\ \A v \in Update \ {u} : selecting'[v] = selecting[v]
      BY <1>5, <1>a DEF EndPending
    <2>2. pending' \in BOOLEAN /\ (pending' <=> pending /\ isCancelled[u])
      BY <1>5 DEF EndPending
    <2>3. UNCHANGED <<updates, isCancelled, derived, released>>
      BY <1>5 DEF EndPending
    <2>4. ~released => (pending' <=> selecting'[updates] # "over")
      <3>1. CASE u = updates
        BY <1>c, <2>1, <2>2, <3>1
      <3>2. CASE u # updates
        <4>1. isCancelled[u]
          BY <1>a, <2>1, <3>2 DEF PendingInv, TokenInv
        <4>2. selecting'[updates] = selecting[updates]
          BY <1>a, <2>1, <3>2
        <4>. QED BY <1>c, <2>2, <4>1, <4>2
      <3>. QED BY <3>1, <3>2
    <2>. QED BY <1>a, <1>b, <1>c, <1>d, <2>2, <2>3, <2>4
  <1>6. CASE UNCHANGED selectVars
    BY <1>a, <1>b, <1>c, <1>d, <1>6 DEF selectVars
  <1>7. QED
    BY <1>1, <1>2, <1>3, <1>4, <1>5, <1>6 DEF SelectNext

\* pending tells of the newest run.
LEMMA PendingHolds == PendingInv => SelectTyped /\ PendingIsTrue
  BY DEF PendingInv

----------------------------------------------------------------------------
\* The Await component: types.
AwaitTypes == AwaitInv /\ AwaitTyped

\* Nothing is asked for before the first rendering, unless it starts at once.
LEMMA AwaitStarts == AwaitInit => AwaitTypes
  <1>1. 0 \in 0..MaxFetches
    BY AwaitsAssumption DEF AwaitAssumption
  <1>. QED BY <1>1 DEF AwaitInit, AwaitTypes, AwaitInv, AwaitTyped

\* Every action of Await keeps the types, one step per action.
LEMMA AwaitTypesStep == ASSUME AwaitTypes, [AwaitNext]_awaitVars PROVE AwaitTypes'
  <1> USE AwaitsAssumption DEF AwaitAssumption, AwaitTypes, AwaitInv, AwaitTyped, PromiseId
  <1>1. CASE Render
    BY <1>1 DEF Render, activate, startFetch
  <1>2. CASE Start
    BY <1>2 DEF Start, activate, startFetch
  <1>3. CASE PromiseChanges
    BY <1>3 DEF PromiseChanges, startFetch
  <1>4. CASE AwaitDispose
    BY <1>4 DEF AwaitDispose
  <1>5. ASSUME NEW p \in PromiseId, PromiseSettles(p) PROVE AwaitTypes'
    BY <1>5 DEF PromiseSettles
  <1>6. ASSUME NEW p \in PromiseId, Deliver(p) PROVE AwaitTypes'
    BY <1>6 DEF Deliver
  <1>7. CASE UNCHANGED awaitVars
    BY <1>7 DEF awaitVars
  <1>. QED BY <1>1, <1>2, <1>3, <1>4, <1>5, <1>6, <1>7 DEF AwaitNext

----------------------------------------------------------------------------
\* Query: what an uncancelled run has read is no older than the last invalidation at rest.
USE QueryAssumption DEF Run, Version

\* The invariant of a query, with what an invalidation asks.
StaleInv ==
    /\ IInv
    /\ since <= server
    /\ \A r \in Run : runs[r].phase = "read" /\ ~Cancelled(r) => runs[r].read >= since
    /\ InvalidationSticks

\* Nothing was read or invalidated at the start.
LEMMA StaleStarts == QueryInit => StaleInv
  <1> SUFFICES ASSUME QueryInit PROVE StaleInv
    OBVIOUS
  <1>1. \A r \in Run : runs[r].phase = "none"
    BY DEF QueryInit, Nothing
  <1>2. since <= server /\ state.data = 0
    BY DEF QueryInit
  <1>. QED BY <1>1, <1>2, InitIInv DEF StaleInv, InvalidationSticks

\* Every action of a query keeps it, one step per action.
LEMMA StaleStep == ASSUME StaleInv, [QueryNext]_queryVars PROVE StaleInv'
  <1>0. IInv'
    BY StepTypeOK, StepOneRun, StepFetching, StepObserved DEF IInv, StaleInv
  <1>a. /\ runs \in [Run -> RunStates] /\ state \in States
        /\ fetchId \in 0..MaxRuns /\ cancelledFetchId \in 0..MaxRuns
        /\ server \in Nat /\ since \in Nat /\ cancelledFetchId <= fetchId
    BY DEF StaleInv, IInv, OneRun, QueryTyped, RunStates, States
  <1>b. \A r \in Run : runs[r].read \in Nat
    BY <1>a DEF RunStates
  <1>c. state.data \in Nat
    BY <1>a DEF States
  <1>d. /\ since <= server
        /\ \A r \in Run : runs[r].phase = "read" /\ ~Cancelled(r) => runs[r].read >= since
        /\ state.data # 0 /\ state.data < since => state.isInvalidated
    BY DEF StaleInv, InvalidationSticks
  <1>e. ASSUME since' <= server',
               \A r \in Run : runs'[r].phase = "read" /\ r > cancelledFetchId' => runs'[r].read >= since',
               state'.data # 0 /\ state'.data < since' => state'.isInvalidated
        PROVE  StaleInv'
    <2>1. cancelledFetchId' \in 0..MaxRuns
      BY <1>0 DEF IInv, QueryTyped
    <2>2. \A r \in Run : runs'[r].phase = "read" /\ ~(r <= cancelledFetchId') => runs'[r].read >= since'
      BY <1>e, <2>1
    <2>. QED BY <1>0, <1>e, <2>2 DEF StaleInv, InvalidationSticks, Cancelled
  <1>1. CASE Write
    BY <1>1, <1>a, <1>d, <1>e DEF Write, control, Cancelled
  <1>2. CASE Invalidate
    <2>1. state'.isInvalidated = TRUE
      BY <1>2, <1>a DEF Invalidate, States
    <2>2. UNCHANGED <<runs, cancelledFetchId, server>> /\ since' \in {since, server}
      BY <1>2 DEF Invalidate, control
    <2>3. since' # since => \A r \in Run : ~(runs[r].phase = "read" /\ ~Cancelled(r))
      BY <1>2 DEF Invalidate, Live
    <2>. QED BY <1>a, <1>d, <1>e, <2>1, <2>2, <2>3 DEF Cancelled
  <1>3. ASSUME Stopped, state' = [state EXCEPT !.fetchStatus = "idle"],
               UNCHANGED <<runs, server, since>>
        PROVE  StaleInv'
    <2>1. state'.data = state.data /\ state'.isInvalidated = state.isInvalidated
      BY <1>3, <1>a DEF States
    <2>2. cancelledFetchId' = fetchId
      BY <1>3 DEF Stopped
    <2>. QED BY <1>3, <1>a, <1>d, <1>e, <2>1, <2>2 DEF Cancelled
  <1>4. CASE Cancel
    BY <1>3, <1>4 DEF Cancel
  <1>5. CASE Collect
    BY <1>3, <1>5 DEF Collect
  <1>6. CASE Fetch
    <2>1. state'.data = state.data /\ state'.isInvalidated = state.isInvalidated
      BY <1>6, <1>a DEF Fetch, States
    <2>2. cancelledFetchId' = fetchId /\ UNCHANGED <<server, since>> /\ fetchId' = fetchId + 1
      BY <1>6 DEF Fetch, Stopped
    <2>3. \A r \in Run : r # fetchId' => runs'[r] = runs[r]
      BY <1>6, <1>a DEF Fetch
    <2>4. fetchId' \in Run /\ runs'[fetchId'].phase = "calling"
      BY <1>6, <1>a DEF Fetch, Nothing
    <2>. QED BY <1>a, <1>d, <1>e, <2>1, <2>2, <2>3, <2>4 DEF Cancelled
  <1>7. ASSUME NEW r \in Run, Progress(r) PROVE StaleInv'
    <2>1. cancelledFetchId' = cancelledFetchId /\ UNCHANGED <<server, since>>
          /\ \A s \in Run \ {r} : runs'[s] = runs[s]
      BY <1>7, <1>a DEF Progress, Reads, Succeed, CallFails, Retry, Finally, Failed, Settle, control
    <2>2. ASSUME state'.data = state.data, state'.isInvalidated = state.isInvalidated,
                 runs'[r].phase = "read" => runs'[r].read >= since
          PROVE  StaleInv'
      BY <1>a, <1>d, <1>e, <2>1, <2>2 DEF Cancelled
    <2>3. Settle(r) => runs'[r].phase = "settled"
      BY <1>a DEF Settle, RunStates
    <2>4. Failed(r) => /\ runs'[r].phase = "settled"
                       /\ state'.data = state.data /\ state'.isInvalidated = state.isInvalidated
      BY <1>a, <2>3 DEF Failed, States
    <2>5. CASE Reads(r)
      <3>1. runs'[r].read = server /\ UNCHANGED state
        BY <2>5, <1>a DEF Reads, RunStates
      <3>. QED BY <1>a, <1>d, <2>2, <3>1
    <2>6. CASE Succeed(r)
      <3>1. runs[r].phase = "read" /\ runs'[r].phase = "settled"
        BY <2>3, <2>6 DEF Succeed
      <3>2. CASE Cancelled(r)
        BY <2>2, <2>6, <3>1, <3>2 DEF Succeed
      <3>3. CASE ~Cancelled(r)
        <4>1. state'.data = runs[r].read
          BY <2>6, <3>3 DEF Succeed
        <4>2. ~(state'.data < since')
          BY <1>a, <1>b, <1>d, <2>1, <3>1, <3>3, <4>1
        <4>3. \A s \in Run : runs'[s].phase = "read" => runs'[s] = runs[s]
          BY <2>1, <3>1
        <4>. QED BY <1>a, <1>d, <1>e, <2>1, <4>2, <4>3 DEF Cancelled
      <3>. QED BY <3>2, <3>3
    <2>7. CASE CallFails(r)
      <3>1. CASE Failed(r)
        BY <2>2, <2>4, <3>1
      <3>2. CASE ~Failed(r)
        <4>1. runs'[r].phase = "backoff" /\ UNCHANGED state
          BY <1>a, <2>7, <3>2 DEF CallFails, RunStates
        <4>. QED BY <2>2, <4>1
      <3>. QED BY <3>1, <3>2
    <2>8. CASE Retry(r)
      <3>1. CASE Failed(r)
        BY <2>2, <2>4, <3>1
      <3>2. CASE ~Failed(r)
        <4>1. runs'[r].phase = "calling" /\ UNCHANGED state
          BY <1>a, <2>8, <3>2 DEF Retry
        <4>. QED BY <2>2, <4>1
      <3>. QED BY <3>1, <3>2
    <2>9. CASE Finally(r)
      <3>1. runs'[r].phase = "none" /\ UNCHANGED state
        BY <1>a, <2>9 DEF Finally, Nothing
      <3>. QED BY <2>2, <3>1
    <2>. QED BY <1>7, <2>5, <2>6, <2>7, <2>8, <2>9 DEF Progress
  <1>8. ASSUME NEW o \in Observer, AddObserver(o) \/ RemoveObserver(o) PROVE StaleInv'
    BY <1>8, <1>a, <1>d, <1>e DEF AddObserver, RemoveObserver, control, Cancelled
  <1>9. CASE UNCHANGED queryVars
    BY <1>9, <1>a, <1>d, <1>e DEF queryVars, control, Cancelled
  <1>. QED BY <1>1, <1>2, <1>4, <1>5, <1>6, <1>7, <1>8, <1>9 DEF QueryNext

HIDE QueryAssumption DEF Run, Version

----------------------------------------------------------------------------
\* InfiniteQuery.

\* The bounds of infinite queries, with what is known of them.
ListBounds ==
    /\ -Before \in Int /\ After \in Int /\ -Before <= 0 /\ 0 <= After
    /\ MaxPages \in Nat \ {0} /\ Retries \in Nat /\ MaxLoads \in Nat \ {0} /\ Timed \in BOOLEAN

\* What the constants of an infinite query are.
LEMMA ListBoundsHold == ListBounds
  BY ListAssumption DEF ListBounds, List!ConstantsOK

\* Which pages there are, and what is known of one.
Params == -Before..After
PageRecords == [param : Params, run : 0..MaxLoads]

\* Pages follow one another.
Consecutive(s) == \A i \in 1..Len(s) - 1 : s[i + 1].param = s[i].param + 1

\* What each run will put beside the pages it found adjoins them.
Adjoins(r) ==
    /\ kind[r] = "next" => pageBase[r] # << >> /\ param[r] = pageBase[r][Len(pageBase[r])].param + 1
    /\ kind[r] = "previous" => pageBase[r] # << >> /\ param[r] = pageBase[r][1].param - 1

\* Runs that do not overlap: the one under way is the last, and found the pages shown.
OneAtATime ==
    ~overlap =>
        /\ \A r \in List!Run : List!Live(r) => r = fetches /\ (kind[r] # "refetch" => pageBase[r] = pages)
        /\ \A i \in 1..Len(pages) : pages[i].run >= refetched

\* The invariant of an infinite query.
ListInv ==
    /\ List!TypeOK
    /\ Consecutive(pages) /\ \A r \in List!Run : Consecutive(pageBase[r]) /\ Adjoins(r)
    /\ \A r \in List!Run : r > fetches => fetchPhase[r] = "unmade"
    /\ \A r \in List!Run : fetchPhase[r] = "sleeping" => pageAttempt[r] < Retries
    /\ OneAtATime

\* The types of an infinite query, apart from everything else.
LEMMA ListTyped ==
    ASSUME ListInv
    PROVE  /\ overlap \in BOOLEAN
           /\ pages \in Seq(PageRecords) /\ hasNext \in BOOLEAN /\ fetching \in BOOLEAN
           /\ pageStatus \in {"pending", "success", "error"}
           /\ fetches \in 0..MaxLoads /\ controller \in 0..fetches /\ refetched \in 0..fetches
           /\ kind \in [List!Run -> {"refetch", "next", "previous"}]
           /\ pageBase \in [List!Run -> Seq(PageRecords)] /\ param \in [List!Run -> Params]
           /\ fetchPhase \in [List!Run -> {"unmade", "waiting", "sleeping", "answered", "failed", "ended"}]
           /\ pageAttempt \in [List!Run -> 0..Retries] /\ stopped \in [List!Run -> BOOLEAN]
           /\ (pageStatus = "success" => pages # << >>)
           /\ MaxLoads \in Nat /\ List!Run = 1..MaxLoads
  BY ListBoundsHold
     DEF ListInv, List!TypeOK, ListBounds, List!Page, List!Param, PageRecords, Params, List!Run

\* Types are kept by whatever assigns to the variables what they may hold.
LEMMA ListKept ==
    ASSUME overlap' \in BOOLEAN,
           pages' \in Seq(PageRecords), hasNext' \in BOOLEAN, fetching' \in BOOLEAN,
           pageStatus' \in {"pending", "success", "error"},
           fetches' \in 0..MaxLoads, controller' \in 0..fetches', refetched' \in 0..fetches',
           kind' \in [List!Run -> {"refetch", "next", "previous"}],
           pageBase' \in [List!Run -> Seq(PageRecords)], param' \in [List!Run -> Params],
           fetchPhase' \in [List!Run -> {"unmade", "waiting", "sleeping", "answered", "failed", "ended"}],
           pageAttempt' \in [List!Run -> 0..Retries], stopped' \in [List!Run -> BOOLEAN],
           pageStatus' = "success" => pages' # << >>
    PROVE  List!TypeOK'
  BY DEF List!TypeOK, List!Page, List!Param, PageRecords, Params, List!Run

\* A sequence of pages with one more at either end.
LEMMA PagesGrow ==
    ASSUME NEW s \in Seq(PageRecords), NEW p \in PageRecords
    PROVE  /\ <<p>> \in Seq(PageRecords) /\ <<p>> # << >> /\ Len(<<p>>) = 1 /\ <<p>>[1] = p
           /\ s \o <<p>> \in Seq(PageRecords) /\ <<p>> \o s \in Seq(PageRecords)
           /\ s \o <<p>> # << >> /\ <<p>> \o s # << >>
           /\ Len(s \o <<p>>) = Len(s) + 1 /\ Len(<<p>> \o s) = Len(s) + 1 /\ Len(s) \in Nat
           /\ \A i \in 1..Len(s) : (s \o <<p>>)[i] = s[i] /\ s[i] \in PageRecords /\ (<<p>> \o s)[i + 1] = s[i]
           /\ (s \o <<p>>)[Len(s) + 1] = p /\ (<<p>> \o s)[1] = p
           /\ (s # << >> => Len(s) \in 1..Len(s) /\ 1 \in 1..Len(s))
           /\ (s # << >> => s[Len(s)].param \in Params /\ s[1].param \in Params)
  <1>0. /\ <<p>> \in Seq(PageRecords) /\ Len(<<p>>) = 1 /\ <<p>>[1] = p /\ <<p>> # << >>
    OBVIOUS
  <1>1. Len(s) \in Nat /\ \A i \in 1..Len(s) : s[i] \in PageRecords
    OBVIOUS
  <1>2. s # << >> => Len(s) \in 1..Len(s) /\ 1 \in 1..Len(s)
    BY <1>1, EmptySeq
  <1>3. /\ s \o <<p>> \in Seq(PageRecords) /\ Len(s \o <<p>>) = Len(s) + 1
        /\ \A i \in 1..Len(s) + 1 : (s \o <<p>>)[i] = IF i <= Len(s) THEN s[i] ELSE <<p>>[i - Len(s)]
    BY <1>0, ConcatProperties
  <1>4. /\ <<p>> \o s \in Seq(PageRecords) /\ Len(<<p>> \o s) = Len(s) + 1
        /\ \A i \in 1..Len(s) + 1 : (<<p>> \o s)[i] = IF i <= 1 THEN <<p>>[i] ELSE s[i - 1]
    BY <1>0, <1>1, ConcatProperties
  <1>5. (s \o <<p>>)[Len(s) + 1] = p /\ (<<p>> \o s)[1] = p
    <2>1. Len(s) + 1 \in 1..Len(s) + 1 /\ ~(Len(s) + 1 <= Len(s)) /\ 1 \in 1..Len(s) + 1
          /\ (Len(s) + 1) - Len(s) = 1
      BY <1>1
    <2>. QED BY <2>1, <1>0, <1>3, <1>4
  <1>6. \A i \in 1..Len(s) : (s \o <<p>>)[i] = s[i] /\ (<<p>> \o s)[i + 1] = s[i]
    <2> TAKE i \in 1..Len(s)
    <2>1. i \in 1..Len(s) + 1 /\ i <= Len(s) /\ i + 1 \in 1..Len(s) + 1 /\ ~(i + 1 <= 1)
          /\ (i + 1) - 1 = i
      BY <1>1
    <2>. QED BY <2>1, <1>3, <1>4
  <1>7. s \o <<p>> # << >> /\ <<p>> \o s # << >>
    BY <1>1, <1>3, <1>4
  <1>8. s # << >> => s[Len(s)].param \in Params /\ s[1].param \in Params
    BY <1>1, <1>2 DEF PageRecords
  <1>. QED BY <1>0, <1>1, <1>2, <1>3, <1>4, <1>5, <1>6, <1>7, <1>8

\* A page that adjoins pages which follow one another goes on after or before them.
LEMMA FollowOn ==
    ASSUME NEW s \in Seq(PageRecords), Consecutive(s), NEW p \in PageRecords, ListBounds
    PROVE  /\ Consecutive(<<p>>)
           /\ (s # << >> /\ p.param = s[Len(s)].param + 1 => Consecutive(s \o <<p>>))
           /\ (s # << >> /\ p.param = s[1].param - 1 => Consecutive(<<p>> \o s))
  <1>0. \A i \in 1..Len(s) : s[i].param \in Int
    <2>1. \A i \in 1..Len(s) : s[i] \in PageRecords
      OBVIOUS
    <2>. QED BY <2>1 DEF PageRecords, Params, ListBounds
  <1>1. Consecutive(<<p>>)
    BY DEF Consecutive
  <1>2. ASSUME s # << >>, p.param = s[Len(s)].param + 1 PROVE Consecutive(s \o <<p>>)
    <2> DEFINE t == s \o <<p>>
    <2>1. /\ Len(t) = Len(s) + 1 /\ Len(s) \in Nat /\ Len(s) \in 1..Len(s)
          /\ \A i \in 1..Len(s) : t[i] = s[i]
          /\ t[Len(s) + 1] = p
      BY <1>2, PagesGrow
    <2> HIDE DEF t
    <2>2. ASSUME NEW i \in 1..Len(t) - 1 PROVE t[i + 1].param = t[i].param + 1
      <3>1. CASE i = Len(s)
        BY <1>2, <2>1, <3>1
      <3>2. CASE i # Len(s)
        <4>1. i \in 1..Len(s) /\ i + 1 \in 1..Len(s) /\ i \in 1..Len(s) - 1
          BY <2>1, <3>2
        <4>. QED BY <2>1, <4>1 DEF Consecutive
      <3>. QED BY <3>1, <3>2
    <2>. QED BY <2>2 DEF Consecutive, t
  <1>3. ASSUME s # << >>, p.param = s[1].param - 1 PROVE Consecutive(<<p>> \o s)
    <2> DEFINE t == <<p>> \o s
    <2>1. /\ Len(t) = Len(s) + 1 /\ Len(s) \in Nat /\ 1 \in 1..Len(s)
          /\ \A i \in 1..Len(s) : t[i + 1] = s[i]
          /\ t[1] = p
      BY <1>3, PagesGrow
    <2> HIDE DEF t
    <2>2. ASSUME NEW i \in 1..Len(t) - 1 PROVE t[i + 1].param = t[i].param + 1
      <3>1. CASE i = 1
        <4>1. t[i + 1] = s[1] /\ t[i] = p
          BY <2>1, <3>1
        <4>. QED BY <1>0, <1>3, <2>1, <4>1
      <3>2. CASE i # 1
        <4>1. i \in 1..Len(s) /\ i - 1 \in 1..Len(s) /\ i - 1 \in 1..Len(s) - 1 /\ (i - 1) + 1 = i
          BY <2>1, <3>2
        <4>2. t[i + 1] = s[i] /\ t[i] = s[i - 1] /\ s[i].param = s[i - 1].param + 1
          BY <2>1, <4>1 DEF Consecutive
        <4>. QED BY <4>2
      <3>. QED BY <3>1, <3>2
    <2>. QED BY <2>2 DEF Consecutive, t
  <1>. QED BY <1>1, <1>2, <1>3

\* The pages there are at the start are one, or none.
LEMMA ListStarts == List!Init => ListInv
  <1> SUFFICES ASSUME List!Init PROVE ListInv
    OBVIOUS
  <1> USE ListBoundsHold DEF ListBounds, List!Run
  <1>1. [param |-> 0, run |-> 0] \in PageRecords
    BY DEF PageRecords, Params
  <1>2. /\ pages \in Seq(PageRecords) /\ << >> \in Seq(PageRecords) /\ Len(pages) \in {0, 1}
        /\ \A i \in 1..Len(pages) : pages[i].run = 0
    <2>1. CASE pages = << >>
      BY <2>1
    <2>2. CASE pages = <<[param |-> 0, run |-> 0]>>
      BY <1>1, <2>2
    <2>. QED BY <2>1, <2>2 DEF List!Init
  <1>3. List!TypeOK
    <2>1. 0 \in Params /\ 0 \in 0..Retries /\ 0 \in 0..MaxLoads /\ 0 \in 0..0
      BY DEF Params
    <2>2. /\ kind \in [List!Run -> {"refetch", "next", "previous"}]
          /\ pageBase \in [List!Run -> Seq(PageRecords)] /\ param \in [List!Run -> Params]
          /\ fetchPhase \in [List!Run -> {"unmade", "waiting", "sleeping", "answered", "failed", "ended"}]
          /\ pageAttempt \in [List!Run -> 0..Retries] /\ stopped \in [List!Run -> BOOLEAN]
      BY <2>1, <1>2 DEF List!Init
    <2>3. /\ overlap \in BOOLEAN /\ hasNext \in BOOLEAN /\ fetching \in BOOLEAN
          /\ pageStatus \in {"pending", "success", "error"}
          /\ (pageStatus = "success" => pages # << >>)
          /\ fetches = 0 /\ controller = 0 /\ refetched = 0
      BY DEF List!Init
    <2>. HIDE DEF List!Run
    <2>. QED BY <1>2, <2>1, <2>2, <2>3 DEF List!TypeOK, List!Page, List!Param, PageRecords, Params
  <1>4. Consecutive(pages) /\ Consecutive(<< >>)
    BY <1>2 DEF Consecutive
  <1>5. \A r \in List!Run : Consecutive(pageBase[r]) /\ Adjoins(r)
    BY <1>4 DEF List!Init, Adjoins
  <1>6. OneAtATime
    BY <1>2 DEF List!Init, OneAtATime, List!Live
  <1>7. \A r \in List!Run : fetchPhase[r] = "unmade"
    BY DEF List!Init
  <1>. QED BY <1>3, <1>4, <1>5, <1>6, <1>7 DEF ListInv

\* A run is called: k and p say what it fetches.
LEMMA ListBegins ==
    ASSUME ListInv, NEW k \in {"refetch", "next", "previous"}, NEW p \in Params,
           NEW before \in [List!Run -> {"unmade", "waiting", "sleeping", "answered", "failed", "ended"}],
           \A r \in List!Run : /\ before[r] = "unmade" <=> fetchPhase[r] = "unmade"
                               /\ before[r] = "ended" <=> fetchPhase[r] = "ended"
                               /\ before[r] = "sleeping" => fetchPhase[r] = "sleeping",
           List!Start(k, p, before), stopped' \in [List!Run -> BOOLEAN],
           k = "next" => pages # << >> /\ p = pages[Len(pages)].param + 1,
           k = "previous" => pages # << >> /\ p = pages[1].param - 1
    PROVE  ListInv'
  <1>1. /\ fetches' = fetches + 1 /\ fetches' \in 1..MaxLoads /\ fetches' \in List!Run
        /\ kind' = [kind EXCEPT ![fetches'] = k] /\ param' = [param EXCEPT ![fetches'] = p]
        /\ pageBase' = [pageBase EXCEPT ![fetches'] = pages]
        /\ fetchPhase' = [before EXCEPT ![fetches'] = "waiting"]
        /\ controller' = fetches' /\ fetching' = TRUE
        /\ UNCHANGED <<overlap, pages, hasNext, pageStatus, pageAttempt, refetched>>
    BY ListTyped DEF List!Start, List!shown
  <1>2. List!TypeOK'
    <2>1. /\ kind' \in [List!Run -> {"refetch", "next", "previous"}]
          /\ pageBase' \in [List!Run -> Seq(PageRecords)] /\ param' \in [List!Run -> Params]
          /\ fetchPhase' \in [List!Run -> {"unmade", "waiting", "sleeping", "answered", "failed", "ended"}]
      BY <1>1, ListTyped
    <2>2. fetches' \in 0..MaxLoads /\ controller' \in 0..fetches' /\ refetched' \in 0..fetches'
      BY <1>1, ListTyped
    <2>. QED BY <1>1, <2>1, <2>2, ListTyped, ListKept
  <1>3. /\ kind'[fetches'] = k /\ param'[fetches'] = p /\ pageBase'[fetches'] = pages
        /\ \A r \in List!Run \ {fetches'} :
             kind'[r] = kind[r] /\ param'[r] = param[r] /\ pageBase'[r] = pageBase[r]
             /\ fetchPhase'[r] = before[r]
    BY <1>1, ListTyped
  <1>4. Consecutive(pages') /\ \A r \in List!Run : Consecutive(pageBase'[r])
    BY <1>1, <1>3 DEF ListInv
  <1>5. \A r \in List!Run : Adjoins(r)'
    BY <1>1, <1>3 DEF ListInv, Adjoins
  <1>6. OneAtATime'
    <2>1. overlap \/ List!Quiet
      BY DEF List!Start
    <2>2. CASE overlap
      BY <1>1, <2>2 DEF OneAtATime
    <2>3. CASE List!Quiet
      <3>1. \A r \in List!Run \ {fetches'} : ~List!Live(r)'
        BY <1>3, <2>3 DEF List!Quiet, List!Live
      <3>. QED BY <1>1, <1>3, <3>1 DEF ListInv, OneAtATime
    <2>. QED BY <2>1, <2>2, <2>3
  <1>7. \A r \in List!Run : r > fetches' => fetchPhase'[r] = "unmade"
    <2>1. \A r \in List!Run : r > fetches' => r > fetches /\ r # fetches'
      BY <1>1, ListTyped
    <2>. QED BY <1>3, <2>1 DEF ListInv
  <1>8. \A r \in List!Run : fetchPhase'[r] = "sleeping" => pageAttempt'[r] < Retries
    BY <1>1, <1>3 DEF ListInv
  <1>. QED BY <1>2, <1>4, <1>5, <1>6, <1>7, <1>8 DEF ListInv

\* A run goes on, or is told to stop, and nothing else happens.
LEMMA ListGoesOn ==
    ASSUME ListInv, UNCHANGED <<overlap, pages, fetches, kind, pageBase, param, refetched>>,
           fetchPhase' \in [List!Run -> {"unmade", "waiting", "sleeping", "answered", "failed", "ended"}],
           \A r \in List!Run : /\ fetchPhase[r] = "unmade" => fetchPhase'[r] = "unmade"
                               /\ fetchPhase[r] = "ended" => fetchPhase'[r] = "ended"
                               /\ fetchPhase'[r] = "sleeping" => pageAttempt'[r] < Retries,
           pageAttempt' \in [List!Run -> 0..Retries], stopped' \in [List!Run -> BOOLEAN],
           controller' \in {0, controller}, hasNext' \in BOOLEAN, fetching' \in BOOLEAN,
           pageStatus' \in {pageStatus, "error"}
    PROVE  ListInv'
  <1>1. List!TypeOK'
    BY ListTyped, ListKept
  <1>2. \A r \in List!Run : List!Live(r)' => List!Live(r)
    BY DEF List!Live
  <1>3. OneAtATime'
    BY <1>2 DEF ListInv, OneAtATime
  <1>. QED BY <1>1, <1>3 DEF ListInv, Adjoins

\* What fetchPage() tells the runs before it leaves a run where it was, or ends it.
LEMMA ListAborts ==
    ASSUME ListInv
    PROVE  /\ List!Aborted \in [List!Run -> BOOLEAN]
           /\ List!GivenUp \in [List!Run -> {"unmade", "waiting", "sleeping", "answered", "failed", "ended"}]
           /\ \A r \in List!Run : /\ List!GivenUp[r] = "unmade" <=> fetchPhase[r] = "unmade"
                                  /\ List!GivenUp[r] = "ended" <=> fetchPhase[r] = "ended"
                                  /\ List!GivenUp[r] = "sleeping" => fetchPhase[r] = "sleeping"
  BY ListTyped DEF List!Aborted, List!GivenUp

\* A run has its page.
LEMMA ListPublishes == ASSUME ListInv, NEW r \in List!Run, List!Publish(r) PROVE ListInv'
  <1> DEFINE p == [param |-> param[r], run |-> r]
             found == pageBase[r]
  <1>0. p \in PageRecords /\ found \in Seq(PageRecords) /\ p.param = param[r] /\ p.run = r
        /\ Consecutive(found) /\ Adjoins(r) /\ kind[r] \in {"refetch", "next", "previous"}
    <2>1. param[r] \in Params /\ r \in 0..MaxLoads
      BY ListTyped
    <2>. QED BY <2>1, ListTyped DEF PageRecords, ListInv
  <1>1. /\ fetchPhase[r] = "answered" /\ fetchPhase' = [fetchPhase EXCEPT ![r] = "ended"]
        /\ pages' = List!Grown(r) /\ pageStatus' = "success" /\ fetching' = FALSE
        /\ refetched' = (IF kind[r] = "refetch" THEN r ELSE refetched)
        /\ UNCHANGED <<overlap, fetches, kind, pageBase, param, pageAttempt, stopped, controller>>
    BY DEF List!Publish, List!calls
  <1>2. hasNext' \in BOOLEAN
    <2>1. (param[r] < After) \in BOOLEAN /\ hasNext \in BOOLEAN
      BY ListTyped
    <2>2. hasNext' \in {hasNext, param[r] < After}
      BY Zenon DEF List!Publish
    <2>. QED BY <2>1, <2>2, Zenon
  <1>3. pages' = CASE kind[r] = "next" -> found \o <<p>>
                   [] kind[r] = "previous" -> <<p>> \o found
                   [] OTHER -> <<p>>
    BY <1>1 DEF List!Grown
  <1> HIDE DEF p
  <1>4. pages' \in Seq(PageRecords) /\ pages' # << >> /\ Consecutive(pages')
    BY <1>0, <1>3, PagesGrow, FollowOn, ListBoundsHold DEF Adjoins
  <1>5. \A s \in List!Run : List!Live(s)' => List!Live(s) /\ s # r
    BY <1>1, ListTyped DEF List!Live
  <1>6. ASSUME ~overlap PROVE r = fetches /\ \A s \in List!Run : ~List!Live(s)'
    <2>1. List!Live(r)
      BY <1>1 DEF List!Live
    <2>. QED BY <1>5, <1>6, <2>1 DEF ListInv, OneAtATime
  <1>7. List!TypeOK'
    <2>1. fetchPhase' \in [List!Run -> {"unmade", "waiting", "sleeping", "answered", "failed", "ended"}]
      BY <1>1, ListTyped
    <2>2. r <= fetches
      <3>1. ~(r > fetches)
        BY <1>1 DEF ListInv
      <3>. QED BY <3>1, ListTyped
    <2>3. refetched' \in 0..fetches'
      BY <1>1, <2>2, ListTyped
    <2>. QED BY <1>1, <1>2, <1>4, <2>1, <2>3, ListTyped, ListKept
  <1>8. OneAtATime'
    <2> SUFFICES ASSUME ~overlap PROVE \A i \in 1..Len(pages') : pages'[i].run >= refetched'
      BY <1>1, <1>6 DEF OneAtATime
    <2>1. refetched <= r /\ refetched \in Nat /\ r \in Nat
      BY <1>6, ListTyped
    <2>2. CASE kind[r] = "refetch"
      <3>1. pages' = <<p>> /\ refetched' = r
        BY <1>1, <1>3, <2>2
      <3>. QED BY <1>0, <2>1, <3>1, PagesGrow
    <2>3. CASE kind[r] # "refetch"
      <3>1. found = pages /\ refetched' = refetched
        BY <1>1, <1>6, <2>3 DEF ListInv, OneAtATime, List!Live
      <3>2. \A i \in 1..Len(found) : found[i].run >= refetched
        BY <1>6, <2>3, <3>1 DEF ListInv, OneAtATime
      <3>3. Len(found) \in Nat
        BY <1>0
      <3>4. CASE pages' = found \o <<p>>
        <4> DEFINE t == found \o <<p>>
        <4>1. Len(t) = Len(found) + 1
              /\ (\A i \in 1..Len(found) : t[i] = found[i]) /\ t[Len(found) + 1] = p
          BY <1>0, PagesGrow
        <4> HIDE DEF t
        <4>2. ASSUME NEW i \in 1..Len(t) PROVE t[i].run >= refetched
          <5>1. i = Len(found) + 1 \/ i \in 1..Len(found)
            BY <3>3, <4>1
          <5>. QED BY <1>0, <2>1, <3>2, <4>1, <5>1
        <4>. QED BY <3>1, <3>4, <4>2 DEF t
      <3>5. CASE pages' = <<p>> \o found
        <4> DEFINE t == <<p>> \o found
        <4>1. Len(t) = Len(found) + 1 /\ (\A i \in 1..Len(found) : t[i + 1] = found[i]) /\ t[1] = p
          BY <1>0, PagesGrow
        <4> HIDE DEF t
        <4>2. ASSUME NEW i \in 1..Len(t) PROVE t[i].run >= refetched
          <5>1. i = 1 \/ (i - 1 \in 1..Len(found) /\ (i - 1) + 1 = i)
            BY <3>3, <4>1
          <5>. QED BY <1>0, <2>1, <3>2, <4>1, <5>1
        <4>. QED BY <3>1, <3>5, <4>2 DEF t
      <3>. QED BY <1>0, <1>3, <2>3, <3>4, <3>5
    <2>. QED BY <2>2, <2>3
  <1>9. \A s \in List!Run : s > fetches' => fetchPhase'[s] = "unmade"
    <2>1. ~(r > fetches) /\ fetches' = fetches
      BY <1>1 DEF ListInv
    <2>2. \A s \in List!Run \ {r} : fetchPhase'[s] = fetchPhase[s]
      BY <1>1, ListTyped
    <2>. QED BY <2>1, <2>2 DEF ListInv
  <1>10. \A s \in List!Run : fetchPhase'[s] = "sleeping" => pageAttempt'[s] < Retries
    BY <1>1, ListTyped DEF ListInv
  <1>. QED BY <1>1, <1>4, <1>7, <1>8, <1>9, <1>10 DEF ListInv, Adjoins

\* Every action of an infinite query keeps its invariant, one step per action.
LEMMA ListStep == ASSUME ListInv, [List!Next]_lists PROVE ListInv'
  <1> USE ListBoundsHold DEF ListBounds
  <1>a. \A r \in List!Run : fetchPhase[r] = "sleeping" => pageAttempt[r] < Retries
    BY DEF ListInv
  <1>0. pages # << >> => /\ pages[Len(pages)].param \in Params /\ pages[1].param \in Params
    <2>1. pages # << >> => Len(pages) \in 1..Len(pages) /\ 1 \in 1..Len(pages)
      BY ListTyped, EmptySeq
    <2>2. \A i \in 1..Len(pages) : pages[i] \in PageRecords
      BY ListTyped
    <2>. QED BY <2>1, <2>2 DEF PageRecords
  <1>1. CASE List!FetchNextPage
    <2>1. pages[Len(pages)].param + 1 \in Params /\ pages # << >>
      BY <1>0, <1>1 DEF List!FetchNextPage, List!LastShown, Params
    <2>2. List!Start("next", pages[Len(pages)].param + 1, fetchPhase) /\ stopped' = stopped
      BY <1>1 DEF List!FetchNextPage, List!LastShown
    <2>. QED BY <2>1, <2>2, ListBegins, ListTyped
  <1>2. CASE List!FetchPreviousPage
    <2>1. pages[1].param - 1 \in Params /\ pages # << >>
      BY <1>0, <1>2 DEF List!FetchPreviousPage, Params
    <2>2. List!Start("previous", pages[1].param - 1, fetchPhase) /\ stopped' = stopped
      BY <1>2 DEF List!FetchPreviousPage
    <2>. QED BY <2>1, <2>2, ListBegins, ListTyped
  <1>3. CASE List!Refetch
    <2>1. 0 \in Params
      BY DEF Params
    <2>2. List!Start("refetch", 0, List!GivenUp) /\ stopped' = List!Aborted
      BY <1>3 DEF List!Refetch
    <2>. QED BY <2>1, <2>2, ListBegins, ListAborts
  <1>4. CASE List!NoNextPage
    BY <1>4, <1>a, ListTyped, ListGoesOn DEF List!NoNextPage, List!calls
  <1>5. CASE List!Cancel
    BY <1>5, <1>a, ListTyped, ListAborts, ListGoesOn DEF List!Cancel, List!calls, List!shown
  <1>6. ASSUME NEW r \in List!Run,
               NEW how \in {"answered", "failed", "sleeping", "waiting", "ended"},
               fetchPhase[r] \notin {"unmade", "ended"},
               fetchPhase' = [fetchPhase EXCEPT ![r] = how],
               how = "sleeping" => pageAttempt'[r] < Retries,
               pageAttempt' \in [List!Run -> 0..Retries],
               \A s \in List!Run \ {r} : pageAttempt'[s] = pageAttempt[s],
               UNCHANGED <<overlap, pages, fetches, kind, pageBase, param, refetched, stopped, controller>>,
               hasNext' \in BOOLEAN, fetching' \in BOOLEAN, pageStatus' \in {pageStatus, "error"}
        PROVE  ListInv'
    <2>1. fetchPhase' \in [List!Run -> {"unmade", "waiting", "sleeping", "answered", "failed", "ended"}]
      BY <1>6, ListTyped
    <2>2. fetchPhase'[r] = how /\ \A s \in List!Run \ {r} : fetchPhase'[s] = fetchPhase[s]
      BY <1>6, ListTyped
    <2>3. \A s \in List!Run : /\ fetchPhase[s] = "unmade" => fetchPhase'[s] = "unmade"
                              /\ fetchPhase[s] = "ended" => fetchPhase'[s] = "ended"
                              /\ fetchPhase'[s] = "sleeping" => pageAttempt'[s] < Retries
      BY <1>6, <1>a, <2>2
    <2>. QED BY <1>6, <2>1, <2>3, ListTyped, ListGoesOn
  <1>7. ASSUME NEW r \in List!Run, List!Answer(r) PROVE ListInv'
    BY <1>6, <1>7, ListTyped DEF List!Answer, List!calls, List!shown
  <1>8. ASSUME NEW r \in List!Run, List!Throw(r) PROVE ListInv'
    <2> DEFINE how == IF stopped[r] \/ pageAttempt[r] = Retries THEN "failed" ELSE "sleeping"
    <2>1. /\ fetchPhase' = [fetchPhase EXCEPT ![r] = how] /\ fetchPhase[r] = "waiting"
          /\ UNCHANGED <<overlap, pages, hasNext, pageStatus, fetching, fetches, kind, pageBase, param,
                         pageAttempt, stopped, controller, refetched>>
      BY <1>8 DEF List!Throw, List!calls, List!shown
    <2>2. how \in {"failed", "sleeping"} /\ (how = "sleeping" => pageAttempt[r] < Retries)
      BY ListTyped
    <2>. HIDE DEF how
    <2>. QED BY <1>6, <2>1, <2>2, ListTyped
  <1>9. ASSUME NEW r \in List!Run, List!Fail(r) PROVE ListInv'
    BY <1>6, <1>9, ListTyped DEF List!Fail, List!calls
  <1>10. ASSUME NEW r \in List!Run, List!Wake(r) PROVE ListInv'
    <2>0. fetchPhase[r] = "sleeping" /\ pageAttempt[r] < Retries
          /\ UNCHANGED <<overlap, pages, hasNext, pageStatus, fetching, fetches, kind, pageBase, param,
                         stopped, controller, refetched>>
      BY <1>a, <1>10 DEF List!Wake, List!calls, List!shown
    <2>1. pageAttempt' \in [List!Run -> 0..Retries]
          /\ \A s \in List!Run \ {r} : pageAttempt'[s] = pageAttempt[s]
      <3>1. pageAttempt[r] + 1 \in 0..Retries
        BY <2>0, ListTyped
      <3>2. pageAttempt' = pageAttempt \/ pageAttempt' = [pageAttempt EXCEPT ![r] = pageAttempt[r] + 1]
        BY <1>10 DEF List!Wake
      <3>. QED BY <3>1, <3>2, ListTyped
    <2>2. PICK how \in {"failed", "waiting"} : fetchPhase' = [fetchPhase EXCEPT ![r] = how]
      BY <1>10 DEF List!Wake
    <2>. QED BY <1>6, <2>0, <2>1, <2>2, ListTyped
  <1>11. CASE UNCHANGED lists
    BY <1>11, <1>a, ListTyped, ListGoesOn DEF lists
  <1>. QED
    BY <1>1, <1>2, <1>3, <1>4, <1>5, <1>7, <1>8, <1>9, <1>10, <1>11, ListPublishes
    DEF List!Next, List!Uses, List!Proceeds

\* The pages shown follow one another, and are as fresh as the last refetch.
LEMMA ListHolds == ListInv => List!TypeOK /\ List!PagesBelongTogether
  BY DEF ListInv, Consecutive, OneAtATime, List!PagesBelongTogether

----------------------------------------------------------------------------
\* RouterView.

\* What the constants of an outlet are.
LEMMA OutletBounds == MaxChanges \in Nat /\ RoutePage # {} /\ None \notin RoutePage
  BY OutletAssumption DEF Outlet!RouterViewAssumption

\* What components are, what becomes of their promises, and what is shown of them.
Kinds == {"plain", "lazy", "legacy", "none"}
Fates == {"pending", "module", "other", "failed"}
Phases == {"waiting", "caught", "over"}
Views == [page : RoutePage \cup {None}, what : {"empty", "content", "fallback", "error"}]
RenderingsOf(n) == [key : RoutePage, promise : 1..n, phase : Phases]

\* No component throws at once.
Mild == \A p \in throws : pageKind[p] # "plain"

\* A rendering waits for the promise that its page has now, if that is kept, and does
\* not react before the promise is settled.
RenderingsTrue ==
    \A r \in 1..Len(renderings) :
        LET e == renderings[r] IN
        /\ pageKind[e.key] \in {"lazy", "legacy"}
        /\ pageKind[e.key] = "lazy" => e.promise = cachedModule[e.key]
        /\ e.phase = "caught" => e.key \in throws /\ promises[e.promise] = "module"
        /\ e.phase # "waiting" => promises[e.promise] # "pending"

ModulesChecked == \A p \in RoutePage : cachedModule[p] # 0 => promises[cachedModule[p]] # "other"

\* The view has followed the route, and shows what is due unless an answer is outstanding.
Followed ==
    /\ matchedView.page = activeRoute
    /\ pageKind[activeRoute] \in {"none", "plain"} => matchedView.what \in Outlet!Due(activeRoute)
    /\ pageKind[activeRoute] \in {"lazy", "legacy"} =>
         /\ \E r \in 1..Len(renderings) : renderings[r].key = activeRoute
         /\ \/ \E r \in 1..Len(renderings) :
                 renderings[r].key = activeRoute /\ renderings[r].phase # "over"
            \/ matchedView.what \in Outlet!Due(activeRoute)

\* The invariant of an outlet.
OutletInv ==
    /\ Outlet!OutletTyped /\ queuedUpdates \in {0, 1}
    /\ RenderingsTrue /\ ModulesChecked
    /\ Mild => /\ queuedUpdates = 0 <=> lastViewKey = activeRoute
               /\ queuedUpdates = 0 => Followed

\* The types of an outlet, apart from everything else.
LEMMA OutletTypes ==
    ASSUME OutletInv
    PROVE  /\ pageKind \in [RoutePage -> Kinds] /\ throws \subseteq RoutePage
           /\ activeRoute \in RoutePage /\ changed \in 0..MaxChanges
           /\ lastViewKey \in RoutePage \cup {None} /\ queuedUpdates \in {0, 1}
           /\ matchedView \in Views /\ promises \in Seq(Fates) /\ Len(promises) \in Nat
           /\ cachedModule \in [RoutePage -> 0..Len(promises)]
           /\ renderings \in Seq(RenderingsOf(Len(promises))) /\ Len(renderings) \in Nat
           /\ DOMAIN promises = 1..Len(promises) /\ Outlet!Rendering = 1..Len(renderings)
  <1>1. /\ pageKind \in [RoutePage -> Kinds] /\ throws \subseteq RoutePage
        /\ activeRoute \in RoutePage /\ changed \in 0..MaxChanges
        /\ lastViewKey \in RoutePage \cup {None} /\ queuedUpdates \in {0, 1}
        /\ matchedView \in Views /\ promises \in Seq(Fates)
        /\ cachedModule \in [RoutePage -> 0..Len(promises)]
        /\ renderings \in Seq(RenderingsOf(Len(promises)))
    BY DEF OutletInv, Outlet!OutletTyped, Kinds, Fates, Phases, Views, RenderingsOf
  <1>. QED BY <1>1, LenProperties DEF Outlet!Rendering

\* Types are kept by whatever assigns to the variables what they may hold.
LEMMA OutletKept ==
    ASSUME pageKind' \in [RoutePage -> Kinds], throws' \subseteq RoutePage,
           activeRoute' \in RoutePage, changed' \in 0..MaxChanges,
           lastViewKey' \in RoutePage \cup {None}, queuedUpdates' \in {0, 1},
           matchedView' \in Views, promises' \in Seq(Fates),
           cachedModule' \in [RoutePage -> 0..Len(promises')],
           renderings' \in Seq(RenderingsOf(Len(promises')))
    PROVE  Outlet!OutletTyped'
  <1>1. 0..(MaxChanges + 1) = 0..(MaxChanges + 1) /\ queuedUpdates' \in 0..(MaxChanges + 1)
    BY OutletBounds
  <1>. QED BY <1>1 DEF Outlet!OutletTyped, Kinds, Fates, Phases, Views, RenderingsOf

\* A rendering says which page it is for, and what promise it waits for.
LEMMA RenderingTypes ==
    ASSUME OutletInv, NEW r \in 1..Len(renderings)
    PROVE  /\ renderings[r] \in RenderingsOf(Len(promises))
           /\ renderings[r].key \in RoutePage /\ renderings[r].promise \in 1..Len(promises)
           /\ renderings[r].phase \in Phases
           /\ pageKind[renderings[r].key] \in {"lazy", "legacy"}
           /\ (pageKind[renderings[r].key] = "lazy" => renderings[r].promise = cachedModule[renderings[r].key])
           /\ (renderings[r].phase = "caught" =>
                 renderings[r].key \in throws /\ promises[renderings[r].promise] = "module")
           /\ (renderings[r].phase # "waiting" => promises[renderings[r].promise] # "pending")
  <1>1. renderings[r] \in RenderingsOf(Len(promises))
    BY OutletTypes
  <1>. QED BY <1>1 DEF RenderingsOf, OutletInv, RenderingsTrue

\* An outlet starts with nothing shown and its first update queued.
LEMMA OutletStarts == Outlet!OutletInit => OutletInv
  <1> SUFFICES ASSUME Outlet!OutletInit PROVE OutletInv
    OBVIOUS
  <1>1. /\ promises = << >> /\ renderings = << >> /\ Len(promises) = 0 /\ Len(renderings) = 0
        /\ << >> \in Seq(Fates) /\ << >> \in Seq(RenderingsOf(0))
    BY DEF Outlet!OutletInit
  <1>2. Outlet!OutletTyped
    <2>1. cachedModule \in [RoutePage -> 0..Len(promises)] /\ matchedView \in Views
      BY <1>1 DEF Outlet!OutletInit, Outlet!View, Views
    <2>2. changed \in 0..MaxChanges /\ queuedUpdates \in 0..(MaxChanges + 1)
      BY OutletBounds DEF Outlet!OutletInit
    <2>. QED BY <1>1, <2>1, <2>2
         DEF Outlet!OutletInit, Outlet!OutletTyped, Kinds, Fates, Phases, Views, RenderingsOf
  <1>3. RenderingsTrue /\ ModulesChecked
    BY <1>1 DEF RenderingsTrue, ModulesChecked, Outlet!OutletInit
  <1>4. queuedUpdates = 1 /\ lastViewKey # activeRoute
    BY OutletBounds DEF Outlet!OutletInit
  <1>. QED BY <1>2, <1>3, <1>4 DEF OutletInv

\* The route is another one, and the view is to follow.
LEMMA OutletAnotherRoute ==
    ASSUME OutletInv, NEW p \in RoutePage, Outlet!RouteChanges(p)
    PROVE  OutletInv'
  <1>1. /\ activeRoute' = p /\ changed' = changed + 1 /\ changed < MaxChanges
        /\ queuedUpdates = 0 /\ p # activeRoute
        /\ queuedUpdates' = (IF lastViewKey = p THEN queuedUpdates ELSE queuedUpdates + 1)
        /\ UNCHANGED <<pageKind, throws, lastViewKey, matchedView, promises, cachedModule, renderings>>
    BY DEF Outlet!RouteChanges, Outlet!application
  <1>2. changed' \in 0..MaxChanges
    BY <1>1, OutletTypes, OutletBounds
  <1>3. Outlet!OutletTyped' /\ queuedUpdates' \in {0, 1}
    BY <1>1, <1>2, OutletTypes, OutletKept
  <1>4. RenderingsTrue' /\ ModulesChecked'
    BY <1>1 DEF OutletInv, RenderingsTrue, ModulesChecked
  <1>5. ASSUME Mild PROVE queuedUpdates' = 1 /\ lastViewKey' # activeRoute'
    BY <1>1, <1>5 DEF OutletInv
  <1>. QED BY <1>1, <1>3, <1>4, <1>5 DEF OutletInv, Mild

\* A promise is settled.
LEMMA OutletSettles ==
    ASSUME OutletInv, NEW q \in DOMAIN promises, NEW how \in {"module", "other", "failed"},
           Outlet!PromiseSettles(q, how)
    PROVE  OutletInv'
  <1>1. /\ promises[q] = "pending" /\ promises' = [promises EXCEPT ![q] = how]
        /\ (how = "other" => \A p \in RoutePage : cachedModule[p] # q)
        /\ UNCHANGED <<pageKind, throws, activeRoute, changed, lastViewKey, matchedView, queuedUpdates,
                       cachedModule, renderings>>
    BY DEF Outlet!PromiseSettles, Outlet!application
  <1>2. /\ promises' \in Seq(Fates) /\ Len(promises') = Len(promises)
        /\ \A i \in 1..Len(promises) : promises'[i] = IF i = q THEN how ELSE promises[i]
    BY <1>1, OutletTypes, ExceptSeq DEF Fates
  <1>3. Outlet!OutletTyped' /\ queuedUpdates' \in {0, 1}
    BY <1>1, <1>2, OutletTypes, OutletKept
  <1>4. RenderingsTrue'
    <2>1. ASSUME NEW r \in 1..Len(renderings)
          PROVE  /\ (renderings[r].phase = "caught" => promises'[renderings[r].promise] = "module")
                 /\ (renderings[r].phase # "waiting" => promises'[renderings[r].promise] # "pending")
      BY <1>1, <1>2, <2>1, RenderingTypes
    <2>. QED BY <1>1, <2>1, RenderingTypes DEF RenderingsTrue
  <1>5. ModulesChecked'
    <2>1. \A p \in RoutePage : cachedModule[p] # 0 => cachedModule[p] \in 1..Len(promises)
      BY OutletTypes
    <2>. QED BY <1>1, <1>2, <2>1 DEF OutletInv, ModulesChecked
  <1>6. ASSUME Followed PROVE Followed'
    <2>1. CASE pageKind[activeRoute] = "lazy" /\ cachedModule[activeRoute] = q
      <3>1. PICK r \in 1..Len(renderings) : renderings[r].key = activeRoute
        BY <1>6, <2>1 DEF Followed
      <3>2. renderings[r].phase # "over"
        BY <1>1, <2>1, <3>1, RenderingTypes
      <3>. QED BY <1>1, <1>6, <2>1, <3>1, <3>2 DEF Followed
    <2>2. CASE pageKind[activeRoute] = "lazy" /\ cachedModule[activeRoute] # q
      <3>1. PICK r \in 1..Len(renderings) : renderings[r].key = activeRoute
        BY <1>6, <2>2 DEF Followed
      <3>2. cachedModule[activeRoute] \in 1..Len(promises)
        BY <2>2, <3>1, RenderingTypes
      <3>3. promises'[cachedModule[activeRoute]] = promises[cachedModule[activeRoute]]
        BY <1>2, <2>2, <3>2
      <3>4. Outlet!Due(activeRoute)' = Outlet!Due(activeRoute)
        BY <1>1, <2>2, <3>3 DEF Outlet!Due
      <3>. QED BY <1>1, <1>6, <3>4 DEF Followed
    <2>3. CASE pageKind[activeRoute] # "lazy"
      <3>1. Outlet!Due(activeRoute)' = Outlet!Due(activeRoute)
        BY <1>1, <2>3, OutletTypes DEF Outlet!Due, Kinds
      <3>. QED BY <1>1, <1>6, <3>1 DEF Followed
    <2>. QED BY <2>1, <2>2, <2>3
  <1>. QED BY <1>1, <1>3, <1>4, <1>5, <1>6 DEF OutletInv, Mild

\* A component is asked for, or the promise it has is taken.
LEMMA OutletAsks ==
    ASSUME OutletInv, pageKind[activeRoute] \in {"lazy", "legacy"},
           Outlet!renderLazyComponent(activeRoute), queuedUpdates' = 0,
           UNCHANGED <<pageKind, throws, activeRoute, changed>>
    PROVE  OutletInv'
  <1> DEFINE p == activeRoute
             cached == pageKind[p] = "lazy" /\ cachedModule[p] # 0
             q == IF cached THEN cachedModule[p] ELSE Len(promises) + 1
             e == [key |-> p, promise |-> q, phase |-> "waiting"]
  <1>1. /\ promises' = (IF cached THEN promises ELSE Append(promises, "pending"))
        /\ cachedModule' = (IF pageKind[p] = "lazy" THEN [cachedModule EXCEPT ![p] = q] ELSE cachedModule)
        /\ renderings' = Append(renderings, e)
        /\ lastViewKey' = p /\ matchedView' = [page |-> p, what |-> "fallback"]
    BY DEF Outlet!renderLazyComponent, Outlet!View
  <1>2. /\ promises' \in Seq(Fates) /\ Len(promises') \in Nat /\ Len(promises) <= Len(promises')
        /\ q \in 1..Len(promises')
        /\ \A i \in 1..Len(promises) : promises'[i] = promises[i] /\ i \in 1..Len(promises')
        /\ (~cached => promises'[q] = "pending")
    <2>1. CASE cached
      <3>1. promises' = promises /\ q = cachedModule[p] /\ q \in 1..Len(promises)
        BY <1>1, <2>1, OutletTypes
      <3>. QED BY <2>1, <3>1, OutletTypes
    <2>2. CASE ~cached
      <3>1. promises' = Append(promises, "pending") /\ q = Len(promises) + 1
        BY <1>1, <2>2
      <3>2. "pending" \in Fates
        BY DEF Fates
      <3>3. /\ promises' \in Seq(Fates) /\ Len(promises') = Len(promises) + 1
            /\ \A i \in 1..Len(promises) : promises'[i] = promises[i]
            /\ promises'[q] = "pending"
        BY <3>1, <3>2, OutletTypes, AppendProperties
      <3>. QED BY <3>1, <3>3, OutletTypes
    <2>. QED BY <2>1, <2>2
  <1>3. p \in RoutePage /\ p = activeRoute /\ pageKind[p] \in {"lazy", "legacy"}
        /\ (cached => pageKind[p] = "lazy" /\ cachedModule[p] = q)
    BY OutletTypes
  <1>. HIDE DEF p, cached, q
  <1>4. cachedModule' \in [RoutePage -> 0..Len(promises')]
        /\ (pageKind[p] = "lazy" => cachedModule'[p] = q)
        /\ \A x \in RoutePage : x # p \/ pageKind[p] # "lazy" => cachedModule'[x] = cachedModule[x]
    BY <1>1, <1>2, <1>3, OutletTypes
  <1>5. /\ renderings' \in Seq(RenderingsOf(Len(promises')))
        /\ Len(renderings') = Len(renderings) + 1
        /\ \A r \in 1..Len(renderings) : renderings'[r] = renderings[r]
        /\ renderings'[Len(renderings) + 1] = e
    <2>1. RenderingsOf(Len(promises)) \subseteq RenderingsOf(Len(promises'))
      BY <1>2, OutletTypes DEF RenderingsOf
    <2>2. renderings \in Seq(RenderingsOf(Len(promises')))
      BY <2>1, OutletTypes, SeqMonotonic
    <2>3. e \in RenderingsOf(Len(promises'))
      BY <1>2, <1>3 DEF RenderingsOf, Phases
    <2>. QED BY <1>1, <2>2, <2>3, AppendProperties
  <1>6. Outlet!OutletTyped' /\ queuedUpdates' \in {0, 1}
    <2>1. matchedView' \in Views
      BY <1>1, <1>3 DEF Views
    <2>. QED BY <1>1, <1>2, <1>3, <1>4, <1>5, <2>1, OutletTypes, OutletKept
  <1>7. RenderingsTrue'
    <2>1. ASSUME NEW r \in 1..Len(renderings')
          PROVE  LET f == renderings'[r] IN
                 /\ pageKind[f.key] \in {"lazy", "legacy"}
                 /\ pageKind[f.key] = "lazy" => f.promise = cachedModule'[f.key]
                 /\ f.phase = "caught" => f.key \in throws /\ promises'[f.promise] = "module"
                 /\ f.phase # "waiting" => promises'[f.promise] # "pending"
      <3>1. r \in 1..Len(renderings) \/ r = Len(renderings) + 1
        BY <1>5, <2>1, OutletTypes
      <3>2. CASE r = Len(renderings) + 1
        BY <1>3, <1>4, <1>5, <3>2
      <3>3. CASE r \in 1..Len(renderings)
        <4>1. renderings'[r] = renderings[r] /\ renderings[r].key \in RoutePage
              /\ promises'[renderings[r].promise] = promises[renderings[r].promise]
          BY <1>2, <1>5, <3>3, RenderingTypes
        <4>2. ASSUME pageKind[renderings[r].key] = "lazy"
              PROVE  renderings[r].promise = cachedModule'[renderings[r].key]
          <5>1. CASE renderings[r].key # p
            BY <1>4, <3>3, <4>1, <4>2, <5>1, RenderingTypes
          <5>2. CASE renderings[r].key = p
            <6>1. cachedModule[p] # 0
              BY <3>3, <4>2, <5>2, RenderingTypes, OutletTypes
            <6>2. cached
              BY <4>2, <5>2, <6>1 DEF cached
            <6>. QED BY <1>3, <1>4, <3>3, <4>2, <5>2, <6>2, RenderingTypes
          <5>. QED BY <5>1, <5>2
        <4>. QED BY <3>3, <4>1, <4>2, RenderingTypes
      <3>. QED BY <3>1, <3>2, <3>3
    <2>. QED BY <2>1 DEF RenderingsTrue
  <1>8. ModulesChecked'
    <2> SUFFICES ASSUME NEW x \in RoutePage, cachedModule'[x] # 0 PROVE promises'[cachedModule'[x]] # "other"
      BY DEF ModulesChecked
    <2>1. CASE cachedModule'[x] = cachedModule[x]
      <3>1. cachedModule[x] \in 1..Len(promises)
        BY <2>1, OutletTypes
      <3>. QED BY <1>2, <2>1, <3>1 DEF OutletInv, ModulesChecked
    <2>2. CASE cachedModule'[x] # cachedModule[x]
      <3>1. x = p /\ cachedModule'[x] = q /\ ~cached
        BY <1>3, <1>4, <2>2
      <3>. QED BY <1>2, <3>1
    <2>. QED BY <2>1, <2>2
  <1>9. Followed' /\ lastViewKey' = activeRoute'
    <2>1. Len(renderings) + 1 \in 1..Len(renderings') /\ renderings'[Len(renderings) + 1].key = p
          /\ renderings'[Len(renderings) + 1].phase # "over"
      BY <1>5, OutletTypes
    <2>2. matchedView'.page = p /\ activeRoute' = p
          /\ pageKind'[activeRoute'] \in {"lazy", "legacy"}
      BY <1>1, <1>3
    <2>. QED BY <1>1, <1>3, <2>1, <2>2 DEF Followed
  <1>. QED BY <1>6, <1>7, <1>8, <1>9 DEF OutletInv

\* A queued update of the view.
LEMMA OutletUpdates == ASSUME OutletInv, Outlet!updateView PROVE OutletInv'
  <1>1. /\ queuedUpdates = 1 /\ queuedUpdates' = 0
        /\ UNCHANGED <<pageKind, throws, activeRoute, changed>>
    BY OutletTypes DEF Outlet!updateView, Outlet!application
  <1>2. CASE lastViewKey = activeRoute \/ (pageKind[activeRoute] = "plain" /\ activeRoute \in throws)
    <2>1. UNCHANGED <<lastViewKey, matchedView, promises, cachedModule, renderings>>
      BY <1>2 DEF Outlet!updateView
    <2>2. ~Mild
      BY <1>1, <1>2 DEF OutletInv, Mild
    <2>3. Outlet!OutletTyped'
      BY <1>1, <2>1, OutletTypes, OutletKept
    <2>4. RenderingsTrue' /\ ModulesChecked'
      BY <1>1, <2>1 DEF OutletInv, RenderingsTrue, ModulesChecked
    <2>. QED BY <1>1, <2>2, <2>3, <2>4 DEF OutletInv, Mild
  <1>3. CASE /\ ~(lastViewKey = activeRoute \/ (pageKind[activeRoute] = "plain" /\ activeRoute \in throws))
             /\ pageKind[activeRoute] \in {"lazy", "legacy"}
    BY <1>1, <1>3, OutletAsks DEF Outlet!updateView
  <1>4. CASE /\ ~(lastViewKey = activeRoute \/ (pageKind[activeRoute] = "plain" /\ activeRoute \in throws))
             /\ pageKind[activeRoute] \notin {"lazy", "legacy"}
    <2>1. /\ lastViewKey' = activeRoute
          /\ matchedView' = [page |-> activeRoute, what |-> IF pageKind[activeRoute] = "none" THEN "empty" ELSE "content"]
          /\ UNCHANGED <<promises, cachedModule, renderings>>
      BY <1>4 DEF Outlet!updateView, Outlet!View
    <2>2. matchedView' \in Views
      BY <2>1, OutletTypes DEF Views
    <2>3. Outlet!OutletTyped'
      BY <1>1, <2>1, <2>2, OutletTypes, OutletKept
    <2>4. RenderingsTrue' /\ ModulesChecked'
      BY <1>1, <2>1 DEF OutletInv, RenderingsTrue, ModulesChecked
    <2>5. Followed'
      <3>1. pageKind[activeRoute] \in {"plain", "none"}
        BY <1>4, OutletTypes DEF Kinds
      <3>2. matchedView'.page = activeRoute
            /\ matchedView'.what = IF pageKind[activeRoute] = "none" THEN "empty" ELSE "content"
        BY <2>1
      <3>. QED BY <1>1, <3>1, <3>2 DEF Followed, Outlet!Due
    <2>. QED BY <1>1, <2>1, <2>3, <2>4, <2>5 DEF OutletInv
  <1>. QED BY <1>2, <1>3, <1>4

\* A rendering reacts to its promise: it goes on to a phase, and the view may show what.
LEMMA OutletReacts ==
    ASSUME OutletInv, NEW r \in 1..Len(renderings), NEW phase1 \in {"caught", "over"},
           renderings' = [renderings EXCEPT ![r].phase = phase1],
           UNCHANGED <<pageKind, throws, activeRoute, changed, lastViewKey, queuedUpdates, promises, cachedModule>>,
           promises[renderings[r].promise] # "pending",
           phase1 = "caught" =>
               renderings[r].key \in throws /\ promises[renderings[r].promise] = "module",
           IF phase1 = "over" /\ renderings[r].key = activeRoute
           THEN \E what \in {"content", "error"} :
                    /\ matchedView' = [page |-> activeRoute, what |-> what]
                    /\ what \in Outlet!Due(activeRoute)
           ELSE matchedView' = matchedView
    PROVE  OutletInv'
  <1> DEFINE e == [renderings[r] EXCEPT !.phase = phase1]
  <1>1. /\ e.key = renderings[r].key /\ e.promise = renderings[r].promise /\ e.phase = phase1
        /\ e \in RenderingsOf(Len(promises))
    BY RenderingTypes DEF RenderingsOf, Phases
  <1>2. /\ renderings' \in Seq(RenderingsOf(Len(promises))) /\ Len(renderings') = Len(renderings)
        /\ \A s \in 1..Len(renderings) : renderings'[s] = IF s = r THEN e ELSE renderings[s]
    <2>1. renderings' = [renderings EXCEPT ![r] = e]
      OBVIOUS
    <2>. HIDE DEF e
    <2>2. renderings \in Seq(RenderingsOf(Len(promises)))
      BY OutletTypes
    <2>3. /\ [renderings EXCEPT ![r] = e] \in Seq(RenderingsOf(Len(promises)))
          /\ Len([renderings EXCEPT ![r] = e]) = Len(renderings)
          /\ \A s \in 1..Len(renderings) : [renderings EXCEPT ![r] = e][s] = IF s = r THEN e ELSE renderings[s]
      BY <1>1, <2>2, ExceptSeq
    <2>. QED BY <2>1, <2>3
  <1>. HIDE DEF e
  <1>3. matchedView' \in Views
    BY OutletTypes DEF Views
  <1>4. Outlet!OutletTyped' /\ queuedUpdates' \in {0, 1}
    BY <1>2, <1>3, OutletTypes, OutletKept
  <1>5. \A s \in 1..Len(renderings) :
          /\ renderings'[s].key = renderings[s].key
          /\ renderings'[s].promise = renderings[s].promise
          /\ (s # r => renderings'[s].phase = renderings[s].phase)
    BY <1>1, <1>2
  <1>6. RenderingsTrue'
    <2>1. ASSUME NEW s \in 1..Len(renderings)
          PROVE  /\ renderings'[s].phase = "caught" =>
                       renderings[s].key \in throws /\ promises[renderings[s].promise] = "module"
                 /\ renderings'[s].phase # "waiting" => promises[renderings[s].promise] # "pending"
      BY <1>1, <1>2, RenderingTypes
    <2>. QED BY <1>2, <1>5, <2>1, RenderingTypes DEF RenderingsTrue
  <1>7. ModulesChecked'
    BY DEF OutletInv, ModulesChecked
  <1>8. ASSUME Followed PROVE Followed'
    <2>0. Outlet!Due(activeRoute)' = Outlet!Due(activeRoute)
      BY DEF Outlet!Due
    <2>1. CASE renderings[r].key # activeRoute
      <3>1. matchedView' = matchedView
        BY <2>1
      <3>2. \A s \in 1..Len(renderings) : renderings[s].key = activeRoute => renderings'[s] = renderings[s]
        BY <1>2, <2>1
      <3>. QED BY <1>2, <1>5, <1>8, <2>0, <3>1, <3>2 DEF Followed
    <2>2. CASE renderings[r].key = activeRoute /\ phase1 = "caught"
      <3>1. renderings'[r].key = activeRoute /\ renderings'[r].phase # "over"
            /\ matchedView' = matchedView
        BY <1>1, <1>2, <2>2
      <3>. QED BY <1>2, <1>8, <2>0, <3>1 DEF Followed
    <2>3. CASE renderings[r].key = activeRoute /\ phase1 = "over"
      <3>1. matchedView'.page = activeRoute /\ matchedView'.what \in Outlet!Due(activeRoute)
        BY <2>3
      <3>2. renderings'[r].key = activeRoute
        BY <1>5, <2>3
      <3>. QED BY <1>2, <1>8, <2>0, <3>1, <3>2 DEF Followed
    <2>. QED BY <2>1, <2>2, <2>3
  <1>. QED BY <1>4, <1>6, <1>7, <1>8 DEF OutletInv, Mild

\* Every action of the outlet keeps its invariant, one step per action.
LEMMA OutletStep == ASSUME OutletInv, [Outlet!OutletNext]_outlet PROVE OutletInv'
  <1>0. ASSUME NEW r \in 1..Len(renderings), renderings[r].key = activeRoute
        PROVE  /\ pageKind[activeRoute] \in {"lazy", "legacy"}
               /\ pageKind[activeRoute] = "lazy" => renderings[r].promise = cachedModule[activeRoute]
               /\ pageKind[activeRoute] = "lazy" => promises[renderings[r].promise] # "other"
    <2>1. pageKind[activeRoute] = "lazy" => cachedModule[activeRoute] # 0
      BY <1>0, RenderingTypes
    <2>. QED BY <1>0, <2>1, RenderingTypes, OutletTypes DEF OutletInv, ModulesChecked
  <1>1. ASSUME NEW r \in Outlet!Rendering, Outlet!Resolved(r) PROVE OutletInv'
    <2>0. r \in 1..Len(renderings)
      BY OutletTypes
    <2>1. /\ renderings[r].phase = "waiting"
          /\ promises[renderings[r].promise] \in {"module", "other"}
          /\ UNCHANGED <<pageKind, throws, activeRoute, changed, lastViewKey, queuedUpdates, promises, cachedModule>>
      BY <1>1 DEF Outlet!Resolved, Outlet!application
    <2>2. CASE activeRoute # renderings[r].key
      BY <1>1, <2>0, <2>1, <2>2, OutletReacts DEF Outlet!Resolved, Outlet!Reacted
    <2>3. CASE activeRoute = renderings[r].key /\ promises[renderings[r].promise] = "other"
      <3>1. "error" \in Outlet!Due(activeRoute)
        BY <1>0, <2>0, <2>3 DEF Outlet!Due
      <3>2. renderings' = [renderings EXCEPT ![r].phase = "over"]
            /\ matchedView' = [page |-> activeRoute, what |-> "error"]
        BY <1>1, <2>3 DEF Outlet!Resolved, Outlet!Reacted, Outlet!View
      <3>. QED BY <2>0, <2>1, <2>3, <3>1, <3>2, OutletReacts
    <2>4. CASE /\ activeRoute = renderings[r].key /\ promises[renderings[r].promise] # "other"
               /\ renderings[r].key \in throws
      <3>1. renderings' = [renderings EXCEPT ![r].phase = "caught"] /\ matchedView' = matchedView
        BY <1>1, <2>4 DEF Outlet!Resolved, Outlet!Reacted
      <3>. QED BY <2>0, <2>1, <2>4, <3>1, OutletReacts
    <2>5. CASE /\ activeRoute = renderings[r].key /\ promises[renderings[r].promise] # "other"
               /\ renderings[r].key \notin throws
      <3>1. "content" \in Outlet!Due(activeRoute)
        BY <1>0, <2>0, <2>1, <2>5 DEF Outlet!Due
      <3>2. renderings' = [renderings EXCEPT ![r].phase = "over"]
            /\ matchedView' = [page |-> activeRoute, what |-> "content"]
        BY <1>1, <2>5 DEF Outlet!Resolved, Outlet!Reacted, Outlet!View
      <3>. QED BY <2>0, <2>1, <2>5, <3>1, <3>2, OutletReacts
    <2>. QED BY <2>2, <2>3, <2>4, <2>5
  <1>2. ASSUME NEW r \in Outlet!Rendering, Outlet!Rejected(r) PROVE OutletInv'
    <2>0. r \in 1..Len(renderings)
      BY OutletTypes
    <2>1. /\ \/ renderings[r].phase = "caught"
             \/ renderings[r].phase = "waiting" /\ promises[renderings[r].promise] = "failed"
          /\ renderings' = [renderings EXCEPT ![r].phase = "over"]
          /\ matchedView' = IF activeRoute = renderings[r].key THEN [page |-> activeRoute, what |-> "error"]
                            ELSE matchedView
          /\ UNCHANGED <<pageKind, throws, activeRoute, changed, lastViewKey, queuedUpdates, promises, cachedModule>>
      BY <1>2 DEF Outlet!Rejected, Outlet!Reacted, Outlet!View, Outlet!application
    <2>2. promises[renderings[r].promise] # "pending"
      BY <2>0, <2>1, RenderingTypes
    <2>3. activeRoute = renderings[r].key => "error" \in Outlet!Due(activeRoute)
      BY <1>0, <2>0, <2>1, RenderingTypes DEF Outlet!Due
    <2>. QED BY <2>0, <2>1, <2>2, <2>3, OutletReacts
  <1>3. CASE UNCHANGED outlet
    <2>1. UNCHANGED <<pageKind, throws, activeRoute, changed, lastViewKey, matchedView,
                      queuedUpdates, promises, cachedModule, renderings>>
      BY <1>3 DEF outlet
    <2>2. Outlet!OutletTyped'
      BY <2>1, OutletTypes, OutletKept
    <2>3. RenderingsTrue' /\ ModulesChecked' /\ (Followed => Followed')
      BY <2>1 DEF OutletInv, RenderingsTrue, ModulesChecked, Followed, Outlet!Due
    <2>. QED BY <2>1, <2>2, <2>3 DEF OutletInv, Mild
  <1>. QED
    BY <1>1, <1>2, <1>3, OutletAnotherRoute, OutletSettles, OutletUpdates DEF Outlet!OutletNext

\* At rest the outlet shows what is due for the route.
LEMMA OutletHolds == OutletInv => Outlet!OutletTyped /\ Outlet!ViewFollowsRoute
  <1> SUFFICES ASSUME OutletInv, Mild, Outlet!AtRest
               PROVE  matchedView.page = activeRoute /\ matchedView.what \in Outlet!Due(activeRoute)
    BY DEF OutletInv, Mild, Outlet!ViewFollowsRoute
  <1>1. Followed
    BY DEF OutletInv, Outlet!AtRest
  <1>2. pageKind[activeRoute] \in Kinds
    BY OutletTypes
  <1>. QED BY <1>1, <1>2, OutletTypes DEF Followed, Outlet!AtRest, Kinds

----------------------------------------------------------------------------
\* MutationHook.

\* What the constants of mutation hooks are.
LEMMA ChangeBounds ==
    /\ MaxCalls \in Nat \ {0} /\ Hook # {} /\ Change!Call = 1..MaxCalls
    /\ 0 \in 0..MaxCalls /\ \A c \in Change!Call : c \in 0..MaxCalls /\ c # 0
  BY ChangeAssumption DEF Change!ConstantsOK, Change!Call

\* Where calls, promises and hooks can be; what is cached is there.
CallPhases == {"unmade", "starting", "preparing", "sent", "done"}
PromiseFates == {"pending", "resolved", "rejected", "cancelled"}
HookStatuses == {"idle", "pending", "success", "error"}
Entries == {e \in Change!Entry : e.data # {} \/ e.invalid => e.there}

\* Who has called what.
CallsTyped ==
    /\ use \in Change!Uses /\ made \in 0..MaxCalls
    /\ owner \in [Change!Call -> Hook] /\ callPhase \in [Change!Call -> CallPhases]
    /\ outcome \in [Change!Call -> PromiseFates]
    /\ active \in [Hook -> 0..MaxCalls] /\ newest \in [Hook -> 0..MaxCalls]
    /\ callStatus \in [Hook -> HookStatuses] /\ hookDisposed \in [Hook -> BOOLEAN]

\* What they did to the data.
DataTyped ==
    /\ snapshot \in [Change!Call -> Entries] /\ entry \in Entries
    /\ starting \in Seq(Change!Call) /\ finishing \in 0..MaxCalls /\ success \in BOOLEAN
    /\ accepted \subseteq Change!Call

\* The types in two parts: of the calls, and of the data.
LEMMA ChangeTypes == Change!TypeOK <=> CallsTyped /\ DataTyped
  <1>1. (snapshot \in [Change!Call -> Change!Entry] /\ entry \in Change!Entry
         /\ \A e \in {entry} \cup {snapshot[c] : c \in Change!Call} : e.data # {} \/ e.invalid => e.there)
        <=> snapshot \in [Change!Call -> Entries] /\ entry \in Entries
    BY DEF Entries
  <1>. QED BY <1>1 DEF Change!TypeOK, CallsTyped, DataTyped, CallPhases, PromiseFates, HookStatuses

\* Types are kept by whatever assigns to the variables what they may hold.
LEMMA ChangeTypesKept ==
    ASSUME CallsTyped', snapshot' \in [Change!Call -> Entries], entry' \in Entries,
           starting' \in Seq(Change!Call), finishing' \in 0..MaxCalls, success' \in BOOLEAN,
           accepted' \subseteq Change!Call
    PROVE  CallsTyped' /\ DataTyped'
  BY DEF DataTyped

\* What shows every change that was reported, and none that failed.
Shows(e) ==
    \A c \in Change!Call :
        /\ c \in e.data => callPhase[c] \in {"preparing", "sent", "done"}
        /\ outcome[c] = "resolved" => c \in e.data
        /\ outcome[c] = "rejected" /\ c \notin accepted => c \notin e.data

\* The call of a hook that is not over.
Outstanding(c) == callPhase[c] \in {"preparing", "sent"} \/ finishing = c

\* If calls are awaited there is one at a time, and it can be taken back.
Awaited ==
    /\ \A h \in Hook : ~hookDisposed[h]
    /\ \A c \in Change!Call : callPhase[c] = "unmade" <=> c > made
    /\ \A c \in Change!Call : callPhase[c] = "starting" \/ Outstanding(c) => c = made
    /\ \A c \in Change!Call : callPhase[c] = "starting" => starting = <<c>> /\ newest[owner[c]] = c
    /\ starting # << >> => callPhase[made] = "starting" /\ starting = <<made>> /\ made \in Change!Call
    /\ \A c \in Change!Call :
         /\ callPhase[c] \in {"preparing", "sent"} => active[owner[c]] = c /\ newest[owner[c]] = c
         /\ finishing = c => callPhase[c] = "done" /\ (success => c \in accepted)
         /\ outcome[c] \in {"resolved", "rejected"} => callPhase[c] = "done" /\ finishing # c
         /\ outcome[c] = "resolved" => c \in accepted
         /\ c \in accepted => callPhase[c] \in {"sent", "done"}
         /\ Outstanding(c) => c \in entry.data /\ c \notin snapshot[c].data /\ Shows(snapshot[c])
    /\ Shows(entry)

\* The invariant of the hooks: who does not await calls sees the types only.
ChangeInv == CallsTyped /\ DataTyped /\ (use = "calm" => Awaited)

\* No call is made at the start.
LEMMA ChangeStarts == Change!Init => ChangeInv
  <1> SUFFICES ASSUME Change!Init PROVE ChangeInv
    OBVIOUS
  <1>1. Change!Absent \in Entries /\ [Change!Absent EXCEPT !.there = TRUE] \in Entries
        /\ Change!Absent.data = {} /\ [Change!Absent EXCEPT !.there = TRUE].data = {}
    BY DEF Change!Absent, Entries, Change!Entry
  <1>2. entry \in Entries /\ entry.data = {}
    BY <1>1 DEF Change!Init
  <1>3. CallsTyped
    <2>1. owner \in [Change!Call -> Hook]
      <3>1. (CHOOSE h \in Hook : TRUE) \in Hook
        BY ChangeBounds
      <3>. QED BY <3>1 DEF Change!Init
    <2>2. /\ callPhase \in [Change!Call -> CallPhases] /\ outcome \in [Change!Call -> PromiseFates]
          /\ callStatus \in [Hook -> HookStatuses] /\ hookDisposed \in [Hook -> BOOLEAN]
      BY DEF Change!Init, CallPhases, PromiseFates, HookStatuses
    <2>4. active \in [Hook -> 0..MaxCalls] /\ newest \in [Hook -> 0..MaxCalls]
      BY ChangeBounds DEF Change!Init
    <2>3. use \in Change!Uses /\ made \in 0..MaxCalls
      BY ChangeBounds DEF Change!Init
    <2>. QED BY <2>1, <2>2, <2>3, <2>4 DEF CallsTyped
  <1>4. DataTyped
    <2>1. snapshot \in [Change!Call -> Entries]
      BY <1>1 DEF Change!Init
    <2>2. starting = << >> /\ finishing = 0 /\ success = FALSE /\ accepted = {}
      BY DEF Change!Init
    <2>. QED BY <1>2, <2>1, <2>2, ChangeBounds, EmptySeq DEF DataTyped
  <1>5. Awaited
    <2>1. \A c \in Change!Call : callPhase[c] = "unmade" /\ c > made /\ outcome[c] = "pending"
      BY ChangeBounds DEF Change!Init
    <2>2. finishing = 0 /\ starting = << >> /\ accepted = {} /\ \A h \in Hook : ~hookDisposed[h]
      BY DEF Change!Init
    <2>. QED BY <1>2, <2>1, <2>2, ChangeBounds DEF Awaited, Outstanding, Shows
  <1>. QED BY <1>3, <1>4, <1>5 DEF ChangeInv

\* The types of mutation hooks, apart from everything else.
LEMMA HooksTyped ==
    ASSUME ChangeInv
    PROVE  /\ use \in Change!Uses /\ made \in 0..MaxCalls
           /\ owner \in [Change!Call -> Hook] /\ callPhase \in [Change!Call -> CallPhases]
           /\ outcome \in [Change!Call -> PromiseFates]
           /\ active \in [Hook -> 0..MaxCalls] /\ newest \in [Hook -> 0..MaxCalls]
           /\ callStatus \in [Hook -> HookStatuses] /\ hookDisposed \in [Hook -> BOOLEAN]
           /\ snapshot \in [Change!Call -> Entries] /\ entry \in Entries
           /\ starting \in Seq(Change!Call) /\ finishing \in 0..MaxCalls /\ success \in BOOLEAN
           /\ accepted \subseteq Change!Call
  BY DEF ChangeInv, CallsTyped, DataTyped

\* A call is made: the first signal of the hook is being written.
LEMMA ChangeMutates ==
    ASSUME ChangeInv, NEW h \in Hook, Change!Mutate(h)
    PROVE  ChangeInv'
  <1>1. /\ made < MaxCalls /\ made' = made + 1
        /\ owner' = [owner EXCEPT ![made'] = h]
        /\ callPhase' = [callPhase EXCEPT ![made'] = "starting"]
        /\ outcome' = Change!Cancelled(h)
        /\ active' = [active EXCEPT ![h] = 0] /\ newest' = [newest EXCEPT ![h] = made']
        /\ callStatus' = [callStatus EXCEPT ![h] = "pending"]
        /\ starting' = <<made'>> \o starting
        /\ UNCHANGED <<use, snapshot, hookDisposed, finishing, success, entry, accepted>>
    BY DEF Change!Mutate
  <1>2. made' \in Change!Call /\ made' \in 0..MaxCalls
    BY <1>1, HooksTyped, ChangeBounds, SMTT(30)
  <1>3. outcome' \in [Change!Call -> PromiseFates]
    BY <1>1, HooksTyped DEF Change!Cancelled, PromiseFates
  <1>4. /\ owner' \in [Change!Call -> Hook] /\ callPhase' \in [Change!Call -> CallPhases]
        /\ active' \in [Hook -> 0..MaxCalls] /\ newest' \in [Hook -> 0..MaxCalls]
        /\ callStatus' \in [Hook -> HookStatuses]
    BY <1>1, <1>2, HooksTyped, ChangeBounds DEF CallPhases, HookStatuses
  <1>5. starting' \in Seq(Change!Call)
    <2>1. <<made'>> \in Seq(Change!Call)
      BY <1>2
    <2>. QED BY <1>1, <2>1, HooksTyped, ConcatProperties
  <1>6. CallsTyped' /\ DataTyped'
    <2>1. CallsTyped'
      BY <1>1, <1>2, <1>3, <1>4, HooksTyped DEF CallsTyped
    <2>. QED BY <1>1, <1>5, <2>1, HooksTyped, ChangeTypesKept
  <1>7. ASSUME use = "calm" PROVE Awaited'
    <2>1. starting = << >> /\ finishing = 0 /\ \A k \in Hook : active[k] = 0
      BY <1>7 DEF Change!Mutate, Change!Acting, Change!Idle, Change!MayCall
    <2>2. Awaited
      BY <1>7 DEF ChangeInv
    <2>3. \A c \in Change!Call : callPhase[c] \notin {"starting", "preparing", "sent"} /\ finishing # c
      BY <2>1, <2>2, HooksTyped, ChangeBounds DEF Awaited
    <2>4. \A c \in Change!Call : outcome'[c] = outcome[c]
      BY <1>1, <2>1, ChangeBounds, HooksTyped DEF Change!Cancelled
    <2>5. /\ callPhase[made'] = "unmade" /\ callPhase'[made'] = "starting"
          /\ owner'[made'] = h /\ newest'[h] = made'
          /\ \A c \in Change!Call \ {made'} : callPhase'[c] = callPhase[c]
      <3>1. made' > made
        BY <1>1, HooksTyped
      <3>. QED BY <1>1, <1>2, <2>2, <3>1, HooksTyped DEF Awaited
    <2>6. starting' = <<made'>>
      BY <1>1, <1>2, <2>1, ConcatEmptySeq
    <2>7. \A c \in Change!Call : callPhase'[c] = "unmade" <=> c > made'
      <3>1. made' = made + 1 /\ made \in Nat
        BY <1>1, HooksTyped
      <3>2. \A c \in Nat : c > made' <=> c > made /\ c # made'
        BY <3>1
      <3>3. \A c \in Change!Call : c \in Nat
        BY ChangeBounds
      <3>. QED BY <2>2, <2>5, <3>2, <3>3 DEF Awaited
    <2>8. Shows(entry)'
      <3>1. \A c \in Change!Call : c \in entry.data => c # made'
        BY <2>2, <2>5 DEF Awaited, Shows
      <3>. QED BY <1>1, <2>2, <2>4, <2>5, <3>1 DEF Awaited, Shows
    <2>9. \A c \in Change!Call : ~Outstanding(c)'
      BY <1>1, <2>3, <2>5 DEF Outstanding
    <2>10. \A c \in Change!Call :
             /\ callPhase'[c] \notin {"preparing", "sent"} /\ finishing' # c
             /\ outcome'[c] \in {"resolved", "rejected"} => callPhase'[c] = "done"
             /\ outcome'[c] = "resolved" => c \in accepted'
             /\ c \in accepted' => callPhase'[c] \in {"sent", "done"}
      BY <1>1, <2>2, <2>3, <2>4, <2>5 DEF Awaited
    <2>11. \A c \in Change!Call : callPhase'[c] = "starting" => c = made'
      BY <2>3, <2>5
    <2>12. \A k \in Hook : ~hookDisposed'[k]
      BY <1>1, <2>2 DEF Awaited
    <2>. QED BY <1>2, <2>5, <2>6, <2>7, <2>8, <2>9, <2>10, <2>11, <2>12 DEF Awaited
  <1>. QED BY <1>1, <1>6, <1>7 DEF ChangeInv

\* A step of one call: of the calls only its own phase moves on, and its promise stays.
LEMMA ChangeMoves ==
    ASSUME ChangeInv, NEW c \in Change!Call, NEW p \in {"preparing", "sent", "done"},
           callPhase' = [callPhase EXCEPT ![c] = p],
           UNCHANGED <<use, made, owner, outcome, newest, callStatus, hookDisposed>>,
           active' \in [Hook -> 0..MaxCalls]
    PROVE  /\ CallsTyped'
           /\ callPhase'[c] = p /\ \A d \in Change!Call \ {c} : callPhase'[d] = callPhase[d]
  BY HooksTyped DEF CallsTyped, CallPhases

\* onMutate applies the change and keeps what there was.
LEMMA ChangeBegins == ASSUME ChangeInv, NEW c \in Change!Call, Change!Begin(c) PROVE ChangeInv'
  <1> DEFINE after == [there |-> TRUE, data |-> entry.data \cup {c}, invalid |-> FALSE]
  <1>1. /\ starting # << >> /\ Head(starting) = c /\ starting' = Tail(starting)
        /\ callPhase' = [callPhase EXCEPT ![c] = "preparing"]
        /\ active' = [active EXCEPT ![owner[c]] = c]
        /\ snapshot' = [snapshot EXCEPT ![c] = entry] /\ entry' = after
        /\ UNCHANGED <<use, made, owner, outcome, newest, callStatus, hookDisposed, finishing, success, accepted>>
    BY DEF Change!Begin
  <1>2. active' \in [Hook -> 0..MaxCalls] /\ owner[c] \in Hook /\ active'[owner[c]] = c
    BY <1>1, HooksTyped, ChangeBounds
  <1>3. CallsTyped' /\ callPhase'[c] = "preparing"
        /\ \A d \in Change!Call \ {c} : callPhase'[d] = callPhase[d]
    BY <1>1, <1>2, ChangeMoves
  <1>4. snapshot' \in [Change!Call -> Entries] /\ entry' \in Entries
        /\ entry'.data = entry.data \cup {c}
        /\ snapshot'[c] = entry /\ \A d \in Change!Call \ {c} : snapshot'[d] = snapshot[d]
    <2>1. entry.data \subseteq Change!Call
      BY HooksTyped DEF Entries, Change!Entry
    <2>. QED BY <1>1, <2>1, HooksTyped DEF Entries, Change!Entry
  <1>5. starting' \in Seq(Change!Call)
    BY <1>1, HooksTyped, HeadTailProperties
  <1>6. CallsTyped' /\ DataTyped'
    BY <1>1, <1>3, <1>4, <1>5, HooksTyped, ChangeTypesKept
  <1>7. ASSUME use = "calm" PROVE Awaited'
    <2>1. Awaited
      BY <1>7 DEF ChangeInv
    <2>2. c = made /\ callPhase[c] = "starting" /\ starting = <<c>> /\ newest[owner[c]] = c
          /\ starting' = << >>
      <3>1. starting = <<made>> /\ made \in Change!Call /\ callPhase[made] = "starting"
        BY <1>1, <2>1 DEF Awaited
      <3>2. Head(<<made>>) = made /\ Tail(<<made>>) = << >>
        OBVIOUS
      <3>. QED BY <1>1, <2>1, <3>1, <3>2 DEF Awaited
    <2>3. \A d \in Change!Call : Outstanding(d)' => d = c
      BY <1>1, <1>3, <2>1, <2>2 DEF Awaited, Outstanding
    <2>4. Shows(entry)' /\ c \notin entry.data /\ Shows(snapshot[c])'
      <3>1. Shows(entry) /\ c \notin entry.data /\ outcome[c] \notin {"resolved", "rejected"}
        BY <2>1, <2>2 DEF Awaited, Shows
      <3>2. \A d \in Change!Call : d \in entry'.data <=> d = c \/ d \in entry.data
        BY <1>4
      <3>. QED BY <1>1, <1>3, <1>4, <3>1, <3>2 DEF Shows
    <2>5. Outstanding(c)' => c \in entry'.data /\ c \notin snapshot'[c].data /\ Shows(snapshot[c])'
      BY <1>4, <2>4
    <2>6. \A d \in Change!Call : finishing' # d
      BY <1>1, <2>1, <2>2 DEF Awaited, Outstanding
    <2>7. \A d \in Change!Call :
            /\ callPhase'[d] = "unmade" <=> d > made'
            /\ callPhase'[d] # "starting"
            /\ callPhase'[d] \in {"preparing", "sent"} => active'[owner'[d]] = d /\ newest'[owner'[d]] = d
            /\ outcome'[d] \in {"resolved", "rejected"} => callPhase'[d] = "done"
            /\ outcome'[d] = "resolved" => d \in accepted'
            /\ d \in accepted' => callPhase'[d] \in {"sent", "done"}
      <3>1. \A d \in Change!Call : /\ callPhase[d] = "unmade" <=> d > made
                                   /\ callPhase[d] = "starting" \/ Outstanding(d) => d = c
                                   /\ outcome[d] \in {"resolved", "rejected"} => callPhase[d] = "done"
                                   /\ outcome[d] = "resolved" => d \in accepted
                                   /\ d \in accepted => callPhase[d] \in {"sent", "done"}
        BY <2>1, <2>2 DEF Awaited
      <3>. QED BY <1>1, <1>2, <1>3, <2>2, <3>1 DEF Outstanding
    <2>8. \A k \in Hook : ~hookDisposed'[k]
      BY <1>1, <2>1 DEF Awaited
    <2>. QED BY <1>1, <2>2, <2>3, <2>4, <2>5, <2>6, <2>7, <2>8 DEF Awaited
  <1>. QED BY <1>1, <1>6, <1>7 DEF ChangeInv

\* What is under way when nothing is being written.
LEMMA AwaitedFacts ==
    ASSUME ChangeInv, use = "calm"
    PROVE  /\ \A h \in Hook : ~hookDisposed[h]
           /\ \A c \in Change!Call :
                /\ callPhase[c] = "unmade" <=> c > made
                /\ callPhase[c] \in {"starting", "preparing", "sent"} => c = made
                /\ callPhase[c] = "starting" => starting = <<c>> /\ newest[owner[c]] = c
                /\ callPhase[c] \in {"preparing", "sent"} => active[owner[c]] = c /\ newest[owner[c]] = c
                /\ finishing = c => c = made /\ callPhase[c] = "done" /\ (success => c \in accepted)
                /\ outcome[c] \in {"resolved", "rejected"} => callPhase[c] = "done" /\ finishing # c
                /\ outcome[c] = "resolved" => c \in accepted
                /\ c \in accepted => callPhase[c] \in {"sent", "done"}
                /\ callPhase[c] \in {"preparing", "sent"} \/ finishing = c =>
                     c \in entry.data /\ c \notin snapshot[c].data /\ Shows(snapshot[c])
           /\ starting # << >> => callPhase[made] = "starting" /\ starting = <<made>> /\ made \in Change!Call
           /\ Shows(entry)
  BY DEF ChangeInv, Awaited, Outstanding

\* The request is sent.
LEMMA ChangeProceeds == ASSUME ChangeInv, NEW c \in Change!Call, Change!Proceed(c) PROVE ChangeInv'
  <1> DEFINE p == IF Change!Current(c) THEN "sent" ELSE "done"
  <1>1. /\ Change!Idle /\ callPhase[c] = "preparing" /\ callPhase' = [callPhase EXCEPT ![c] = p]
        /\ UNCHANGED <<use, made, owner, outcome, snapshot, active, newest, callStatus, hookDisposed,
                       starting, finishing, success, entry, accepted>>
    BY DEF Change!Proceed, Change!hooks
  <1>2. p \in {"sent", "done"} /\ (use = "calm" => p = "sent")
    BY <1>1, AwaitedFacts, HooksTyped DEF Change!Current
  <1>. HIDE DEF p
  <1>3. CallsTyped' /\ callPhase'[c] = p
        /\ \A d \in Change!Call \ {c} : callPhase'[d] = callPhase[d]
    BY <1>1, <1>2, ChangeMoves, HooksTyped
  <1>4. CallsTyped' /\ DataTyped'
    BY <1>1, <1>3, HooksTyped, ChangeTypesKept
  <1>5. ASSUME use = "calm" PROVE Awaited'
    <2>1. callPhase'[c] = "sent" /\ starting = << >>
      BY <1>1, <1>2, <1>3, <1>5 DEF Change!Idle
    <2>2. Shows(entry)' /\ (Shows(snapshot[c]) => Shows(snapshot[c])')
      BY <1>1, <1>3, <1>5, <2>1, AwaitedFacts DEF Shows
    <2>3. \A d \in Change!Call : Outstanding(d)' <=> Outstanding(d)
      BY <1>1, <1>3, <2>1 DEF Outstanding
    <2>4. \A d \in Change!Call : Outstanding(d) => d = made /\ d = c
      BY <1>1, <1>5, AwaitedFacts DEF Outstanding, Change!Idle
    <2>. QED BY <1>1, <1>3, <1>5, <2>1, <2>2, <2>3, <2>4, AwaitedFacts DEF Awaited, Outstanding
  <1>. QED BY <1>1, <1>4, <1>5 DEF ChangeInv

\* The server makes a change.
LEMMA ChangeAccepted == ASSUME ChangeInv, NEW c \in Change!Call, Change!Accept(c) PROVE ChangeInv'
  <1>1. /\ callPhase[c] = "sent" /\ accepted' = accepted \cup {c}
        /\ UNCHANGED <<use, made, owner, callPhase, outcome, snapshot, active, newest, callStatus,
                       hookDisposed, starting, finishing, success, entry>>
    BY DEF Change!Accept, Change!calls, Change!hooks
  <1>2. CallsTyped' /\ DataTyped'
    BY <1>1, HooksTyped, ChangeTypesKept DEF CallsTyped
  <1>3. ASSUME use = "calm" PROVE Awaited'
    <2>1. Shows(entry)' /\ \A d \in Change!Call : Shows(snapshot[d]) => Shows(snapshot[d])'
      BY <1>1, <1>3, AwaitedFacts DEF Shows
    <2>. QED BY <1>1, <1>3, <2>1, AwaitedFacts DEF Awaited, Outstanding
  <1>. QED BY <1>1, <1>2, <1>3 DEF ChangeInv

\* The request is over: a call that is current begins to finish.
LEMMA ChangeAnswers ==
    ASSUME ChangeInv, NEW c \in Change!Call, NEW ok \in BOOLEAN, Change!Finish(c, ok)
    PROVE  ChangeInv'
  <1>1. /\ Change!Idle /\ callPhase[c] = "sent" /\ (ok => c \in accepted)
        /\ callPhase' = [callPhase EXCEPT ![c] = "done"]
        /\ IF Change!Current(c)
           THEN finishing' = c /\ success' = ok /\ active' = [active EXCEPT ![owner[c]] = 0]
           ELSE UNCHANGED <<finishing, success, active>>
        /\ UNCHANGED <<use, made, owner, outcome, snapshot, newest, callStatus, hookDisposed,
                       starting, entry, accepted>>
    BY DEF Change!Finish
  <1>2. active' \in [Hook -> 0..MaxCalls] /\ finishing' \in 0..MaxCalls /\ success' \in BOOLEAN
    <2>1. CASE Change!Current(c)
      BY <1>1, <2>1, HooksTyped, ChangeBounds, ZenonT(40)
    <2>2. CASE ~Change!Current(c)
      BY <1>1, <2>2, HooksTyped
    <2>. QED BY <2>1, <2>2
  <1>3. CallsTyped' /\ callPhase'[c] = "done"
        /\ \A d \in Change!Call \ {c} : callPhase'[d] = callPhase[d]
    BY <1>1, <1>2, ChangeMoves
  <1>4. CallsTyped' /\ DataTyped'
    BY <1>1, <1>2, <1>3, HooksTyped, ChangeTypesKept
  <1>5. ASSUME use = "calm" PROVE Awaited'
    <2>1. Change!Current(c)
      BY <1>1, <1>5, AwaitedFacts, HooksTyped DEF Change!Current
    <2>2. finishing' = c /\ success' = ok /\ c = made /\ starting = << >> /\ finishing = 0
          /\ outcome[c] \notin {"resolved", "rejected"}
      BY <1>1, <1>5, <2>1, AwaitedFacts DEF Change!Idle
    <2>3. Shows(entry)' /\ (Shows(snapshot[c]) => Shows(snapshot[c])')
      BY <1>1, <1>3, <1>5, AwaitedFacts DEF Shows
    <2>4. \A d \in Change!Call : (Outstanding(d)' <=> d = c) /\ (Outstanding(d) <=> d = c)
      BY <1>1, <1>3, <1>5, <2>2, AwaitedFacts, ChangeBounds DEF Outstanding
    <2>5. \A d \in Change!Call : callPhase'[d] \notin {"starting", "preparing", "sent"}
      BY <1>1, <1>3, <1>5, <2>2, AwaitedFacts
    <2>6. Outstanding(c) => c \in entry.data /\ c \notin snapshot[c].data /\ Shows(snapshot[c])
      BY <1>5, AwaitedFacts DEF Outstanding
    <2>7. \A d \in Change!Call :
            /\ callPhase'[d] = "unmade" <=> d > made'
            /\ outcome'[d] \in {"resolved", "rejected"} => callPhase'[d] = "done" /\ finishing' # d
            /\ outcome'[d] = "resolved" => d \in accepted'
            /\ d \in accepted' => callPhase'[d] \in {"sent", "done"}
      BY <1>1, <1>3, <1>5, <2>2, AwaitedFacts
    <2>8. \A k \in Hook : ~hookDisposed'[k]
      BY <1>1, <1>5, AwaitedFacts
    <2>. QED BY <1>1, <1>3, <2>2, <2>3, <2>4, <2>5, <2>6, <2>7, <2>8 DEF Awaited
  <1>. QED BY <1>1, <1>4, <1>5 DEF ChangeInv

\* The rest of it: the promise, and the cached data.
LEMMA ChangeConcludes == ASSUME ChangeInv, NEW c \in Change!Call, Change!Conclude(c) PROVE ChangeInv'
  <1> DEFINE o == IF success THEN "resolved" ELSE "rejected"
             s == IF success THEN "success" ELSE "error"
  <1>1. /\ finishing = c /\ starting = << >>
        /\ callStatus' = [callStatus EXCEPT ![owner[c]] = s]
        /\ outcome' = [outcome EXCEPT ![c] = o]
        /\ entry' = (IF success THEN [entry EXCEPT !.invalid = entry.there] ELSE snapshot[c])
        /\ finishing' = 0 /\ success' = FALSE
        /\ UNCHANGED <<use, made, owner, callPhase, snapshot, active, newest, hookDisposed, starting, accepted>>
    BY DEF Change!Conclude
  <1>2. o \in PromiseFates /\ s \in HookStatuses
        /\ (o = "resolved" <=> success) /\ (o = "rejected" <=> ~success)
    BY DEF PromiseFates, HookStatuses
  <1>. HIDE DEF o, s
  <1>3. outcome' \in [Change!Call -> PromiseFates] /\ outcome'[c] = o
        /\ \A d \in Change!Call \ {c} : outcome'[d] = outcome[d]
    BY <1>1, <1>2, HooksTyped
  <1>4. callStatus' \in [Hook -> HookStatuses]
    BY <1>1, <1>2, HooksTyped
  <1>5. entry' \in Entries /\ entry'.data = IF success THEN entry.data ELSE snapshot[c].data
    BY <1>1, HooksTyped DEF Entries, Change!Entry
  <1>6. CallsTyped' /\ DataTyped'
    <2>1. CallsTyped'
      BY <1>1, <1>3, <1>4, HooksTyped DEF CallsTyped
    <2>. QED BY <1>1, <1>5, <2>1, HooksTyped, ChangeBounds, ChangeTypesKept
  <1>7. ASSUME use = "calm" PROVE Awaited'
    <2>1. /\ c = made /\ callPhase[c] = "done" /\ (success => c \in accepted)
          /\ c \in entry.data /\ c \notin snapshot[c].data /\ Shows(snapshot[c]) /\ Shows(entry)
      BY <1>1, <1>7, AwaitedFacts
    <2>2. Shows(entry)'
      <3>1. CASE success
        BY <1>1, <1>2, <1>3, <1>5, <2>1, <3>1 DEF Shows
      <3>2. CASE ~success
        BY <1>1, <1>2, <1>3, <1>5, <2>1, <3>2 DEF Shows
      <3>. QED BY <3>1, <3>2
    <2>3. \A d \in Change!Call : callPhase[d] \notin {"starting", "preparing", "sent"}
      BY <1>7, <2>1, AwaitedFacts
    <2>4. \A d \in Change!Call : ~Outstanding(d)' /\ finishing' # d
      BY <1>1, <2>3, ChangeBounds DEF Outstanding
    <2>5. \A d \in Change!Call :
            /\ callPhase'[d] = "unmade" <=> d > made'
            /\ outcome'[d] \in {"resolved", "rejected"} => callPhase'[d] = "done"
            /\ outcome'[d] = "resolved" => d \in accepted'
            /\ d \in accepted' => callPhase'[d] \in {"sent", "done"}
      BY <1>1, <1>2, <1>3, <1>7, <2>1, AwaitedFacts
    <2>6. \A k \in Hook : ~hookDisposed'[k]
      BY <1>1, <1>7, AwaitedFacts
    <2>. QED BY <1>1, <2>2, <2>3, <2>4, <2>5, <2>6 DEF Awaited
  <1>. QED BY <1>1, <1>6, <1>7 DEF ChangeInv

\* What an application does to a hook when it does not await its calls.
LEMMA ChangeRestless ==
    ASSUME ChangeInv, NEW h \in Hook, Change!Reset(h) \/ Change!Dispose(h)
    PROVE  ChangeInv'
  <1>1. /\ use # "calm" /\ outcome' = Change!Cancelled(h)
        /\ active' = [active EXCEPT ![h] = 0] /\ newest' = [newest EXCEPT ![h] = 0]
        /\ UNCHANGED <<use, made, owner, callPhase, snapshot, starting, finishing, success, entry, accepted>>
    BY DEF Change!Reset, Change!Dispose
  <1>2. callStatus' \in [Hook -> HookStatuses] /\ hookDisposed' \in [Hook -> BOOLEAN]
    BY HooksTyped DEF Change!Reset, Change!Dispose, HookStatuses
  <1>3. outcome' \in [Change!Call -> PromiseFates]
    BY <1>1, HooksTyped DEF Change!Cancelled, PromiseFates
  <1>4. CallsTyped'
    BY <1>1, <1>2, <1>3, HooksTyped, ChangeBounds DEF CallsTyped
  <1>. QED BY <1>1, <1>4, HooksTyped, ChangeTypesKept DEF ChangeInv

\* Somebody fetches the query, or it is removed.
LEMMA ChangeElsewhere == ASSUME ChangeInv, Change!Refetch \/ Change!Evict PROVE ChangeInv'
  <1>1. /\ Change!Idle
        /\ UNCHANGED <<use, made, owner, callPhase, outcome, snapshot, active, newest, callStatus,
                       hookDisposed, starting, finishing, success, accepted>>
        /\ entry' \in {[there |-> TRUE, data |-> accepted, invalid |-> FALSE], Change!Absent}
    BY DEF Change!Refetch, Change!Evict, Change!calls, Change!hooks
  <1>2. entry' \in Entries
    <2>1. [there |-> TRUE, data |-> accepted, invalid |-> FALSE] \in Entries
      BY HooksTyped DEF Entries, Change!Entry
    <2>2. Change!Absent \in Entries
      BY DEF Entries, Change!Entry, Change!Absent
    <2>. QED BY <1>1, <2>1, <2>2
  <1>3. CallsTyped' /\ DataTyped'
    BY <1>1, <1>2, HooksTyped, ChangeTypesKept DEF CallsTyped
  <1>4. ASSUME use = "calm" PROVE Awaited'
    <2>1. Change!Refetch
      BY <1>4 DEF Change!Evict
    <2>2. \A c \in Change!Call : callPhase[c] \notin {"starting", "preparing", "sent"} /\ finishing # c
      BY <1>4, <2>1 DEF Change!Refetch, Change!UnderWay
    <2>3. entry'.data = accepted
      BY <2>1 DEF Change!Refetch
    <2>4. Shows(entry)'
      BY <1>1, <1>4, <2>3, AwaitedFacts DEF Shows
    <2>5. \A c \in Change!Call : ~Outstanding(c)'
      BY <1>1, <2>2 DEF Outstanding
    <2>. QED BY <1>1, <1>4, <2>2, <2>4, <2>5, AwaitedFacts DEF Awaited
  <1>. QED BY <1>1, <1>3, <1>4 DEF ChangeInv

\* A step of anything else leaves the hooks as they are.
LEMMA ChangeRests == ASSUME ChangeInv, UNCHANGED changes PROVE ChangeInv'
  <1>1. UNCHANGED <<use, made, owner, callPhase, outcome, snapshot, active, newest, callStatus,
                    hookDisposed, starting, finishing, success, entry, accepted>>
    BY DEF changes
  <1>2. CallsTyped' /\ DataTyped'
    BY <1>1, HooksTyped, ChangeTypesKept DEF CallsTyped
  <1>3. Awaited => Awaited'
    BY <1>1 DEF Awaited, Outstanding, Shows
  <1>. QED BY <1>1, <1>2, <1>3 DEF ChangeInv

\* Every action of the hooks keeps their invariant, one step per action.
LEMMA ChangeStep == ASSUME ChangeInv, [Change!Next]_changes PROVE ChangeInv'
  <1>1. ASSUME NEW c \in Change!Call, Change!Runs(c) PROVE ChangeInv'
    BY <1>1, ChangeBegins, ChangeProceeds, ChangeAnswers, ChangeConcludes
       DEF Change!Runs, Change!Answer
  <1>2. ASSUME NEW h \in Hook, Change!Handles(h) PROVE ChangeInv'
    BY <1>2, ChangeMutates, ChangeRestless DEF Change!Handles
  <1>. QED BY <1>1, <1>2, ChangeAccepted, ChangeElsewhere, ChangeRests DEF Change!Next

\* If calls are awaited, the query shows what the server did.
LEMMA ChangeHolds == ChangeInv => Change!TypeOK /\ Change!ShownIsTrue
  <1> SUFFICES ASSUME ChangeInv PROVE Change!TypeOK /\ Change!ShownIsTrue
    OBVIOUS
  <1>1. Change!TypeOK
    BY ChangeTypes DEF ChangeInv
  <1>2. 1..made \subseteq Change!Call
    BY HooksTyped, ChangeBounds
  <1>. QED BY <1>1, <1>2, AwaitedFacts DEF Shows, Change!ShownIsTrue

----------------------------------------------------------------------------
\* All of them together: a step is one of a component, or leaves it as it is.

answers == <<part, vars, loads, queryVars, lists, changes, awaitVars, localeVars, selectVars,
             work, navigations, outlet>>

\* What a step of anything is to each component.
Stepped ==
    /\ part' = part
    /\ [Next]_vars /\ [Load!Next]_loads /\ [QueryNext]_queryVars /\ [List!Next]_lists
    /\ [Change!Next]_changes /\ [AwaitNext]_awaitVars /\ [LocaleNext]_localeVars
    /\ [SelectNext]_selectVars /\ [Wrapped!WorkNext]_work
    /\ [Router!NavigationNext]_navigations /\ [Outlet!OutletNext]_outlet

\* A step of one component is one that the component takes alone.
LEMMA StepOfQueue == ASSUME QueueNext PROVE Stepped
  <1>1. /\ UNCHANGED <<part, loads, queryVars, lists, changes, awaitVars, localeVars, selectVars,
                       work, navigations, outlet>>
        /\ Next
    BY DEF QueueNext, OfQueue, Next, Answer
  <1>. QED BY <1>1 DEF Stepped

\* A step of a load.
LEMMA StepOfLoad == ASSUME LoadNext PROVE Stepped
  <1>1. /\ UNCHANGED <<part, vars, queryVars, lists, changes, awaitVars, localeVars, selectVars,
                       work, navigations, outlet>>
        /\ Load!Next
    BY DEF LoadNext, OfLoad, Load!Next, Load!Answer
  <1>. QED BY <1>1 DEF Stepped

\* A step of a query.
LEMMA StepOfQuery == ASSUME RunsNext PROVE Stepped
  <1>1. /\ UNCHANGED <<part, vars, loads, lists, changes, awaitVars, localeVars, selectVars,
                       work, navigations, outlet>>
        /\ QueryNext
    BY DEF RunsNext, OfQuery, QueryNext, Progress
  <1>. QED BY <1>1 DEF Stepped

\* A step of an infinite query.
LEMMA StepOfPages == ASSUME ListNext PROVE Stepped
  <1>1. /\ UNCHANGED <<part, vars, loads, queryVars, changes, awaitVars, localeVars, selectVars,
                       work, navigations, outlet>>
        /\ List!Next
    BY DEF ListNext, OfPages, List!Next, List!Uses, List!Proceeds
  <1>. QED BY <1>1 DEF Stepped

\* A step of mutation hooks.
LEMMA StepOfChange == ASSUME ChangeNext PROVE Stepped
  <1>1. /\ UNCHANGED <<part, vars, loads, queryVars, lists, awaitVars, localeVars, selectVars,
                       work, navigations, outlet>>
        /\ Change!Next
    BY DEF ChangeNext, OfChange, Change!Next, Change!Runs, Change!Handles
  <1>. QED BY <1>1 DEF Stepped

\* A step of what refines Newest.
LEMMA StepOfNewest == ASSUME NewestAnswersNext PROVE Stepped
  <1>1. /\ UNCHANGED <<part, vars, loads, queryVars, lists, changes, work, navigations, outlet>>
        /\ \/ AwaitNext /\ UNCHANGED <<localeVars, selectVars>>
           \/ LocaleNext /\ UNCHANGED <<awaitVars, selectVars>>
           \/ SelectNext /\ UNCHANGED <<awaitVars, localeVars>>
    BY DEF NewestAnswersNext, OfAwait, OfLocale, OfDerive, AwaitNext, LocaleNext, SelectNext
  <1>. QED BY <1>1 DEF Stepped

\* A step of wrapped actions.
LEMMA StepOfWork == ASSUME WorkNext PROVE Stepped
  <1>1. /\ UNCHANGED <<part, vars, loads, queryVars, lists, changes, awaitVars, localeVars,
                       selectVars, navigations, outlet>>
        /\ Wrapped!WorkNext
    BY DEF WorkNext, OfWork, Wrapped!WorkNext
  <1>. QED BY <1>1 DEF Stepped

\* A step of the router.
LEMMA StepOfRouter == ASSUME RouterNext PROVE Stepped
  <1>1. /\ UNCHANGED <<part, vars, loads, queryVars, lists, changes, awaitVars, localeVars,
                       selectVars, work, outlet>>
        /\ Router!NavigationNext
    BY DEF RouterNext, OfRouter, Router!NavigationNext
  <1>. QED BY <1>1 DEF Stepped

\* A step of the outlet.
LEMMA StepOfOutlet == ASSUME OutletNext PROVE Stepped
  <1>1. /\ UNCHANGED <<part, vars, loads, queryVars, lists, changes, awaitVars, localeVars,
                       selectVars, work, navigations>>
        /\ Outlet!OutletNext
    BY DEF OutletNext, OfOutlet, Outlet!OutletNext
  <1>. QED BY <1>1 DEF Stepped

\* A step of anything.
LEMMA StepOfAnswers == [MCAnswersNext]_answers => Stepped
  <1>1. CASE UNCHANGED answers
    BY <1>1 DEF answers, Stepped
  <1>. QED
    BY <1>1, StepOfQueue, StepOfLoad, StepOfQuery, StepOfPages, StepOfChange, StepOfNewest,
       StepOfWork, StepOfRouter, StepOfOutlet DEF MCAnswersNext

AnswersInv ==
    /\ part \in Parts /\ RoughInv /\ (Gentle => SettledInv)
    /\ LoadInv /\ StaleInv /\ ListInv /\ ChangeInv /\ AwaitTypes /\ LocaleInv /\ PendingInv
    /\ WorkInv /\ RouterInv /\ OutletInv

\* The invariants of the components hold of all of them together.
LEMMA AnswersInvariant == MCAnswersSpec => []AnswersInv
  <1>1. MCAnswersInit => AnswersInv
    BY RoughInit, SettledInit, LoadStarts, StaleStarts, ListStarts, ChangeStarts, AwaitStarts,
       LocaleStarts, PendingStarts, WorkStarts, RouterStarts, OutletStarts
       DEF MCAnswersInit, AnswersInv
  <1>2. AnswersInv /\ [MCAnswersNext]_answers => AnswersInv'
    <2> SUFFICES ASSUME AnswersInv, [MCAnswersNext]_answers PROVE AnswersInv'
      OBVIOUS
    <2>0. Stepped
      BY StepOfAnswers
    <2>1. part' \in Parts /\ RoughInv'
      BY <2>0, RoughStep DEF AnswersInv, Stepped
    <2>2. Gentle' => SettledInv'
      BY <2>0, SettledStep, EffectsStay DEF AnswersInv, Stepped, Gentle
    <2>3. LoadInv' /\ StaleInv' /\ ListInv' /\ ChangeInv'
      BY <2>0, LoadStep, StaleStep, ListStep, ChangeStep DEF AnswersInv, Stepped
    <2>4. AwaitTypes' /\ LocaleInv' /\ PendingInv'
      BY <2>0, AwaitTypesStep, LocaleKept, PendingStep DEF AnswersInv, Stepped
    <2>5. WorkInv' /\ RouterInv' /\ OutletInv'
      BY <2>0, WorkStep, RouterStep, OutletStep DEF AnswersInv, Stepped
    <2>. QED BY <2>1, <2>2, <2>3, <2>4, <2>5 DEF AnswersInv
  <1>. QED
    BY <1>1, <1>2, PTL DEF MCAnswersSpec, answers

\* Whatever is asked, answered, retried, cancelled and disposed of, every variable of the
\* component that runs keeps its type.
THEOREM AnswersAreTyped == MCAnswersSpec => []AllTyped
  <1>1. AnswersInv => AllTyped
    <2> SUFFICES ASSUME AnswersInv PROVE AllTyped
      OBVIOUS
    <2>1. TypeOK /\ Load!TypeOK /\ QueryTyped /\ List!TypeOK
      BY LoadHolds, ListHolds DEF AnswersInv, RoughInv, StaleInv, IInv
    <2>2. Change!TypeOK /\ AwaitTyped /\ LocaleTyped /\ SelectTyped
      BY ChangeHolds, LocaleHolds, PendingHolds DEF AnswersInv, AwaitTypes
    <2>3. Wrapped!WorkTyped /\ Router!NavigationTyped /\ Outlet!OutletTyped
      BY WorkHolds, RouterHolds, OutletHolds DEF AnswersInv
    <2>. QED BY <2>1, <2>2, <2>3 DEF AllTyped, AnswersInv, Parts
  <1>. QED
    BY <1>1, AnswersInvariant, PTL

\* For every number of mutations and retries: a late answer never brings back what was rolled
\* back, if effects are gentle, an ending is reported once, and whatever effects do a request
\* that outlives its mutation was aborted (optimistic.ts:322, :358, :493).
THEOREM MutationsAlwaysEndOnce == MCAnswersSpec => []MutationsEndOnce
  <1>1. (Gentle => SettledInv) => RolledBackIsGone
    BY DEF SettledInv, RoughInv, TypeOK, RolledBackIsGone, NothingComesBack, ReportedOnce,
           Pending
  <1>2. RoughInv => AbandonedIsAborted
    BY DEF RoughInv, AbandonedIsAborted, Pending
  <1>3. AnswersInv => MutationsEndOnce
    BY <1>1, <1>2 DEF AnswersInv, MutationsEndOnce
  <1>. QED
    BY <1>3, AnswersInvariant, PTL

\* For every number of sources, runs and retries: at rest and without an error a load shows
\* the value of its present source, and whatever still runs for nothing was told to stop
\* (async-computed.ts run, refresh, dispose).
THEOREM LoadsStayCurrent == MCAnswersSpec => []LoadsAreCurrent
  <1>1. AnswersInv => LoadsAreCurrent
    BY LoadHolds DEF AnswersInv, LoadsAreCurrent
  <1>. QED
    BY <1>1, AnswersInvariant, PTL

\* For every number of runs, pages and hooks: a run that read before an invalidation does
\* not undo it, pages that overlapping runs fetch follow one another, and optimistic data
\* of calls that are awaited is what the server did (Query.ts invalidate, InfiniteQuery.ts
\* fetchPage, useMutation.ts mutate).
THEOREM QueriesStayTrue == MCAnswersSpec => []QueriesShowTruth
  <1>1. AnswersInv => QueriesShowTruth
    BY ListHolds, ChangeHolds DEF AnswersInv, StaleInv, QueriesShowTruth
  <1>. QED
    BY <1>1, AnswersInvariant, PTL

\* For every number of calls, updates, hops and changes of the route: one task runs that was
\* not told to stop, pending tells of the newest run, the active locale is translated, the
\* route is where the history is, and the outlet at rest shows the route.
THEOREM WorkStaysOrderly == MCAnswersSpec => []WorkIsOrderly
  <1>1. AnswersInv => WorkIsOrderly
    BY WorkHolds, PendingHolds, LocaleHolds, RouterHolds, OutletHolds
       DEF AnswersInv, WorkIsOrderly
  <1>. QED
    BY <1>1, AnswersInvariant, PTL

\* Whatever guards redirect and records lead on, a navigation that commits began its last hop
\* after every one that was committed before it (router.ts navigate).
THEOREM NewestNavigationWins == MCAnswersSpec => NavigationHolds
  <1>1. AnswersInv /\ [MCAnswersNext]_answers
           => [\A n \in Router!Nav : navOutcome[n] # "committed" /\ navOutcome'[n] = "committed"
                 => \A m \in Router!Nav : navOutcome[m] = "committed" => hop[m].id < hop[n].id]_navOutcome
    BY StepOfAnswers, NewestWins DEF AnswersInv, Stepped
  <1>. QED
    BY <1>1, AnswersInvariant, PTL
       DEF MCAnswersSpec, answers, NavigationHolds, Router!NewestHopWins
=============================================================================
