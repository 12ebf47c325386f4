----------------------------- MODULE Optimistic -----------------------------
(***************************************************************************)
(* The queue of optimistic mutations of packages/core/src/reactivity/       *)
(* optimistic.ts: a confirmed base with pending changes projected over it.  *)
(*                                                                         *)
(* A mutation is the number of its handle.  Entries are appended and        *)
(* filtered out, so the queue is the set of its entries, projected in the   *)
(* order of their numbers; base counts how often an answer was folded in.   *)
(* Effects that watch the value run inside a write of the queue and may call *)
(* back: they roll other mutations back, "meddling" ones the mutation being *)
(* settled too, and "throwing" ones throw.                                 *)
(***************************************************************************)
EXTENDS Naturals

CONSTANTS
    Mutation,      \* handles, 1 to some bound on the calls of mutate()
    MaxRetries,    \* retry.attempts
    Reconciles,    \* there is a reconcile option
    Effects        \* the kinds of effects an application may have

ASSUME QueueAssumption ==
    /\ Mutation \subseteq Nat \ {0} /\ MaxRetries \in Nat
    /\ Reconciles \in BOOLEAN /\ Effects \subseteq {"gentle", "meddling", "throwing"}

VARIABLES
    effects,     \* the kind of effects that watch the value
    status, attempt,
    queue,       \* entries whose change is projected
    base,        \* how often each answer was folded into the base
    phase,       \* where runCommit is
    aborted,     \* entries whose signal was aborted
    settled,     \* entries whose settled promise is resolved
    onRollback, onCommit,   \* how often each was called
    disposed,
    waiter, awaited         \* a whenSettled() call and the promises it awaits

entries == <<status, attempt, queue, base, phase, aborted, settled, onRollback, onCommit>>
vars == <<effects, entries, disposed, waiter, awaited>>

Pending == {m \in Mutation : status[m] = "pending"}
Unmade == {m \in Mutation : status[m] = "unmade"}

Init ==
    /\ effects \in Effects
    /\ status = [m \in Mutation |-> "unmade"] /\ attempt = [m \in Mutation |-> 0]
    /\ queue = {} /\ base = [m \in Mutation |-> 0]
    /\ phase = [m \in Mutation |-> "idle"]
    /\ aborted = {} /\ settled = {}
    /\ onRollback = [m \in Mutation |-> 0] /\ onCommit = [m \in Mutation |-> 0]
    /\ disposed = FALSE /\ waiter = "none" /\ awaited = {}

Set(f, ms, v) == [m \in Mutation |-> IF m \in ms THEN v ELSE f[m]]
Count(f, ms) == [m \in Mutation |-> IF m \in ms THEN f[m] + 1 ELSE f[m]]

\* An abort wakes a run that is sleeping, which ends; a request goes on.
Woken(ms) == {m \in ms : phase[m] = "backoff"}

\* Mutation: the request is not told.
RollbackUnaborted(ms) ==
    /\ status' = Set(status, ms, "rolled-back")
    /\ queue' = queue \ ms
    /\ settled' = settled \cup ms
    /\ onRollback' = Count(onRollback, ms)
    /\ UNCHANGED aborted

\* rollbackEntry() for pending entries.
RollbackEntries(ms) ==
    /\ status' = Set(status, ms, "rolled-back")
    /\ queue' = queue \ ms
    /\ aborted' = aborted \cup ms
    /\ settled' = settled \cup ms
    /\ onRollback' = Count(onRollback, ms)

\* What effects roll back when m is being settled.
Meddling(m) == SUBSET IF effects = "meddling" THEN Pending ELSE Pending \ {m}

----------------------------------------------------------------------------
Mutate(m) ==
    /\ m \in Unmade /\ \A k \in Unmade : m <= k
    /\ IF disposed
       THEN /\ status' = [status EXCEPT ![m] = "rolled-back"]
            /\ settled' = settled \cup {m}
            /\ UNCHANGED <<queue, phase>>
       ELSE /\ status' = [status EXCEPT ![m] = "pending"]
            /\ queue' = queue \cup {m}
            /\ phase' = [phase EXCEPT ![m] = "sent"]
            /\ UNCHANGED settled
    /\ UNCHANGED <<attempt, base, aborted, onRollback, onCommit, disposed, waiter, awaited, effects>>

\* Mutation: whether the mutation was rolled back meanwhile is not looked at.
CommitLate(m) ==
    /\ phase[m] = "sent" /\ ~disposed
    /\ base' = IF Reconciles THEN Count(base, {m}) ELSE base
    /\ status' = Set(status, {m}, "committed")
    /\ queue' = queue \ {m}
    /\ phase' = Set(phase, {m}, "ended")
    /\ settled' = settled \cup {m}
    /\ onCommit' = Count(onCommit, {m})
    /\ UNCHANGED <<aborted, onRollback, attempt, disposed, waiter, awaited, effects>>

\* The server accepts.  The status is set after the batch has run the effects.
Commit(m) ==
    /\ phase[m] = "sent" /\ m \in Pending /\ ~disposed
    /\ base' = IF Reconciles THEN Count(base, {m}) ELSE base
    /\ \E others \in Meddling(m) :
         /\ status' = Set(Set(status, others, "rolled-back"), {m}, "committed")
         /\ queue' = queue \ (others \cup {m})
         /\ phase' = Set(phase, {m} \cup Woken(others), "ended")
         /\ aborted' = aborted \cup others
         /\ settled' = settled \cup others \cup {m}
         /\ onRollback' = Count(onRollback, others)
    /\ onCommit' = Count(onCommit, {m})
    /\ UNCHANGED <<attempt, disposed, waiter, awaited, effects>>

\* Mutation: one retry too many.
RetryAgain(m) == attempt[m] <= MaxRetries

MayRetry(m) == attempt[m] < MaxRetries

\* The catch block of runCommit: shouldRetry is the application's to decide.
Caught(m) ==
    \/ /\ MayRetry(m)
       /\ phase' = Set(phase, {m}, "backoff")
       /\ queue' = queue \ (IF base' = base THEN {} ELSE {m})
       /\ UNCHANGED <<status, aborted, settled, onRollback>>
    \/ /\ phase' = Set(phase, {m}, "ended")
       /\ RollbackEntries({m})

Fail(m) ==
    /\ phase[m] = "sent" /\ m \in Pending /\ ~disposed
    /\ UNCHANGED base
    /\ Caught(m)
    /\ UNCHANGED <<attempt, onCommit, disposed, waiter, awaited, effects>>

\* An effect throws in the batch that commits: the base and the queue are written,
\* and the exception looks like a failed request.
CommitThrown(m) ==
    /\ effects = "throwing"
    /\ phase[m] = "sent" /\ m \in Pending /\ ~disposed
    /\ Reconciles /\ base' = Count(base, {m})
    /\ Caught(m)
    /\ UNCHANGED <<attempt, onCommit, disposed, waiter, awaited, effects>>

\* An answer to a mutation that was rolled back or whose queue was disposed of.
AnswerLate(m) ==
    /\ phase[m] = "sent" /\ (m \notin Pending \/ disposed)
    /\ phase' = Set(phase, {m}, "ended")
    /\ UNCHANGED <<status, attempt, queue, base, aborted, settled, onRollback, onCommit>>
    /\ UNCHANGED <<disposed, waiter, awaited, effects>>

BackoffOver(m) ==
    /\ phase[m] = "backoff"
    /\ phase' = Set(phase, {m}, "sent")
    /\ attempt' = Count(attempt, {m})
    /\ UNCHANGED <<status, queue, base, aborted, settled, onRollback, onCommit>>
    /\ UNCHANGED <<disposed, waiter, awaited, effects>>

----------------------------------------------------------------------------
\* Mutation: a handle whose mutation is settled rolls back all the same.
RollbackAnyway(m) ==
    /\ m \notin Unmade
    /\ phase' = Set(phase, Woken({m}), "ended")
    /\ RollbackEntries({m})
    /\ UNCHANGED <<attempt, base, onCommit, disposed, waiter, awaited, effects>>

\* handle.rollback(), with what effects roll back when they see the queue shrink.
\* When that is m itself, m is rolled back within its own rollback.
Rollback(m) ==
    /\ m \in Pending
    /\ \E others \in Meddling(m) :
         /\ phase' = Set(phase, Woken(others \cup {m}), "ended")
         /\ status' = Set(status, others \cup {m}, "rolled-back")
         /\ queue' = queue \ (others \cup {m})
         /\ aborted' = aborted \cup others \cup {m}
         /\ settled' = settled \cup others \cup {m}
         /\ onRollback' = Count(Count(onRollback, others), {m})
    /\ UNCHANGED <<attempt, base, onCommit, disposed, waiter, awaited, effects>>

\* An effect throws when the entry leaves the queue: the rollback ends there.
RollbackThrown(m) ==
    /\ effects = "throwing" /\ m \in Pending /\ m \in queue
    /\ queue' = queue \ {m} /\ aborted' = aborted \cup {m}
    /\ phase' = Set(phase, Woken({m}), "ended")
    /\ UNCHANGED <<status, attempt, base, settled, onRollback, onCommit>>
    /\ UNCHANGED <<disposed, waiter, awaited, effects>>

RollbackAll ==
    /\ queue # {}
    /\ phase' = Set(phase, Woken(queue \cap Pending), "ended")
    /\ RollbackEntries(queue \cap Pending)
    /\ UNCHANGED <<attempt, base, onCommit, disposed, waiter, awaited, effects>>

\* Mutation: the handles' promises are left as they are.
DisposeHanging ==
    /\ ~disposed /\ disposed' = TRUE
    /\ status' = Set(status, queue, "rolled-back")
    /\ phase' = Set(phase, Woken(queue), "ended")
    /\ aborted' = aborted \cup queue
    /\ queue' = {}
    /\ UNCHANGED <<attempt, base, settled, onRollback, onCommit, waiter, awaited, effects>>

Dispose ==
    /\ ~disposed /\ disposed' = TRUE
    /\ status' = Set(status, queue, "rolled-back")
    /\ phase' = Set(phase, Woken(queue), "ended")
    /\ aborted' = aborted \cup queue
    /\ settled' = settled \cup queue
    /\ queue' = {}
    /\ UNCHANGED <<attempt, base, onRollback, onCommit, waiter, awaited, effects>>

\* One round of whenSettled().
Look ==
    /\ waiter' = IF queue = {} THEN "released" ELSE "waiting"
    /\ awaited' = queue
    /\ UNCHANGED <<effects, entries, disposed>>
WhenSettled == waiter = "none" /\ Look
WakeUp == waiter = "waiting" /\ awaited \subseteq settled /\ Look

Answer(m) == Commit(m) \/ CommitThrown(m) \/ Fail(m) \/ AnswerLate(m)

Next ==
    \/ \E m \in Mutation :
         Mutate(m) \/ Answer(m) \/ BackoffOver(m) \/ Rollback(m) \/ RollbackThrown(m)
    \/ RollbackAll \/ Dispose \/ WhenSettled \/ WakeUp

\* Requests are answered, timers fire and promises resume their awaiters.
Fairness ==
    /\ \A m \in Mutation : WF_vars(Answer(m)) /\ WF_vars(BackoffOver(m))
    /\ WF_vars(WakeUp)

Spec == Init /\ [][Next]_vars /\ Fairness

----------------------------------------------------------------------------
\* Every variable keeps its type.
TypeOK ==
    /\ effects \in {"gentle", "meddling", "throwing"}
    /\ status \in [Mutation -> {"unmade", "pending", "committed", "rolled-back"}]
    /\ attempt \in [Mutation -> 0..MaxRetries]
    /\ phase \in [Mutation -> {"idle", "sent", "backoff", "ended"}]
    /\ base \in [Mutation -> Nat]
    /\ onRollback \in [Mutation -> Nat] /\ onCommit \in [Mutation -> Nat]
    /\ queue \subseteq Mutation /\ aborted \subseteq Mutation /\ settled \subseteq Mutation
    /\ disposed \in BOOLEAN
    /\ waiter \in {"none", "waiting", "released"} /\ awaited \subseteq Mutation

\* Effects neither throw nor settle what is being settled.
Gentle == effects = "gentle"

\* What is projected over the base is exactly what is pending.
QueueIsPending == Gentle => queue = Pending

\* Nothing lingers that was settled, even when effects throw and entries leave the
\* queue without being settled.
NothingLingers == queue \subseteq Pending

\* The value never shows a change twice, in the base and over it.
ShowsOnce == Gentle => \A m \in Mutation : base[m] <= 1 /\ (m \in queue => base[m] = 0)

\* A mutation that was rolled back is gone for good, whenever its answer arrives.
NothingComesBack == Gentle => \A m \in aborted : m \notin queue /\ base[m] = 0

\* The application hears how a mutation ended, once.
ReportedOnce ==
    Gentle =>
      \A m \in Mutation :
         /\ onRollback[m] + onCommit[m] <= 1
         /\ onCommit[m] = 1 <=> status[m] = "committed"
         /\ onRollback[m] = 1 => status[m] = "rolled-back"

\* A mutation that was given up stays so, and each ends once.
RolledBackIsGone == NothingComesBack /\ ReportedOnce

\* What still runs for a mutation nobody waits for knows that it is abandoned.
AbandonedIsAborted ==
    \A m \in Mutation :
       phase[m] \in {"sent", "backoff"} /\ m \notin Pending => m \in aborted /\ phase[m] = "sent"

\* Whoever waits for the queue to settle is released in the end: through commits,
\* retries, rollbacks, mutations made meanwhile, and disposal.
NobodyWaits == Gentle => waiter # "waiting"
WaiterReleased == []<>NobodyWaits
=============================================================================
