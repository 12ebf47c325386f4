----------------------------- MODULE StoreLock -------------------------------
(***************************************************************************)
(* The lock of a session store on a key-value driver:                       *)
(* packages/auth/src/server/storage-session-store.ts, acquireLock() and the  *)
(* handle's release(), for one key and the processes that contend for it.   *)
(*                                                                         *)
(* A driver operation is atomic; between two of them anything may happen,    *)
(* another attempt, another release and the end of the time included.       *)
(* A token is random and outlives neither its attempt nor the record that   *)
(* holds it, so the process stands for it.  Refusals change nothing and are  *)
(* stuttering steps.                                                       *)
(***************************************************************************)
EXTENDS Integers

CONSTANTS
    Process, None,
    Ttl,          \* lockTtlMs, in instants
    MaxCrashes    \* bound on deaths of processes

ASSUME LockAssumption ==
    /\ None \notin Process
    /\ Ttl \in Nat \ {0} /\ MaxCrashes \in Nat

VARIABLES
    driver,        \* whether it drops records whose time is over
    token, left,   \* the LockRecord: whose it is, and its time left
    at,            \* of each process: the call it is about to make
    lease,         \* the time left of the lock a process has written, in its attempt
    crashes,
    \* histories:
    given,         \* those that were given the lock since a process has read the record
    robbed         \* those whose record was replaced or deleted by what was decided before

vars == <<driver, token, left, at, lease, crashes, given, robbed>>

Calls == {"look", "set", "confirm", "hold", "delete"}

Init ==
    /\ driver \in {"drops", "keeps"}
    /\ token = None /\ left = 0
    /\ at = [p \in Process |-> "look"]
    /\ lease = [p \in Process |-> 0]
    /\ crashes = 0
    /\ given = [p \in Process |-> {}] /\ robbed = {}

Go(p, call) == at' = [at EXCEPT ![p] = call]
Ends(p) == Go(p, "look") /\ lease' = [lease EXCEPT ![p] = 0]
Honoured == driver = "drops"
Free == token = None \/ left = 0

\* Mutation: a record whose time is over still refuses the lock.
LookUnexpired(p) ==
    /\ at[p] = "look" /\ token = None
    /\ Go(p, "set")
    /\ UNCHANGED <<driver, token, left, lease, crashes, given, robbed>>

\* locks.get(): no record, or one whose time is over.
Look(p) ==
    /\ at[p] = "look" /\ Free
    /\ Go(p, "set")
    /\ UNCHANGED <<driver, token, left, lease, crashes, given, robbed>>

\* What a write does to those that came since its process has read the record.
Overtakes(p) ==
    /\ robbed' = (robbed \cup given[p]) \ {p}
    /\ given' = [given EXCEPT ![p] = {}]

\* locks.set() with a fresh token and the time from now on.
Set(p) ==
    /\ at[p] = "set"
    /\ token' = p /\ left' = Ttl /\ lease' = [lease EXCEPT ![p] = Ttl]
    /\ Overtakes(p) /\ Go(p, "confirm")
    /\ UNCHANGED <<driver, crashes>>

\* Every process between its read and its write is passed by p, which is given the lock.
Passes(p) ==
    given' = [q \in Process |-> IF at[q] \in {"set", "delete"} THEN given[q] \cup {p} ELSE given[q]]

\* Mutation: the record is not read back.
ConfirmUnread(p) ==
    /\ at[p] = "confirm"
    /\ Go(p, "hold") /\ Passes(p)
    /\ UNCHANGED <<driver, token, left, lease, crashes, robbed>>

\* locks.get() again: the handle, unless another token has replaced ours.
Confirm(p) ==
    /\ at[p] = "confirm"
    /\ IF token = p
       THEN Go(p, "hold") /\ Passes(p) /\ UNCHANGED lease
       ELSE Ends(p) /\ UNCHANGED given
    /\ UNCHANGED <<driver, token, left, crashes, robbed>>

\* Mutation: release() does not compare tokens.
ReleaseAnyway(p) ==
    /\ at[p] = "hold"
    /\ Go(p, "delete")
    /\ UNCHANGED <<driver, token, left, lease, crashes, given, robbed>>

\* release(): locks.get() and the comparison of tokens...
Release(p) ==
    /\ at[p] = "hold"
    /\ IF token = p THEN Go(p, "delete") /\ UNCHANGED lease ELSE Ends(p)
    /\ UNCHANGED <<driver, token, left, crashes, given, robbed>>

\* ... and locks.delete(), of whatever record is there by now.
Delete(p) ==
    /\ at[p] = "delete"
    /\ token' = None /\ left' = 0
    /\ Overtakes(p) /\ Ends(p)
    /\ UNCHANGED <<driver, crashes>>

\* A process dies between two calls and starts anew.
Crash(p) ==
    /\ at[p] # "look" /\ crashes < MaxCrashes
    /\ crashes' = crashes + 1
    /\ given' = [given EXCEPT ![p] = {}] /\ Ends(p)
    /\ UNCHANGED <<driver, token, left, robbed>>

Less(n) == IF n = 0 THEN 0 ELSE n - 1

\* An instant passes; a driver that honours ttlMs drops what is over.
Tick ==
    /\ left' = Less(left)
    /\ lease' = [p \in Process |-> Less(lease[p])]
    /\ token' = IF Honoured /\ left' = 0 THEN None ELSE token
    /\ UNCHANGED <<driver, at, crashes, given, robbed>>

Attempt(p) == Look(p) \/ Set(p) \/ Confirm(p)
Finish(p) == Release(p) \/ Delete(p)
Next == Tick \/ \E p \in Process : Attempt(p) \/ Finish(p) \/ Crash(p)

\* A process that wants the lock tries again, and one that has it releases it.
Fairness ==
    /\ WF_vars(Tick)
    /\ \A p \in Process : WF_vars(Attempt(p)) /\ WF_vars(Finish(p))

Spec == Init /\ [][Next]_vars /\ Fairness

----------------------------------------------------------------------------
\* Every variable keeps its type.
TypeOK ==
    /\ driver \in {"drops", "keeps"}
    /\ token \in Process \cup {None} /\ left \in 0..Ttl
    /\ at \in [Process -> Calls] /\ lease \in [Process -> 0..Ttl]
    /\ crashes \in 0..MaxCrashes
    /\ given \in [Process -> SUBSET Process] /\ robbed \subseteq Process

\* The processes that have a handle within its time, and were not given it between the two
\* calls of an attempt or of a release that wrote afterwards.
InTime == {p \in Process : at[p] \in {"hold", "delete"} /\ lease[p] > 0}
Holders == InTime \ robbed

\* Of two processes that have a handle within its time, one was given it between the read
\* and the write of another process.
Exclusive == \A p, q \in Holders : p = q

\* But for these, the lock is the lease that SessionStore promises.
Promise == INSTANCE Lease WITH holders <- Holders
PromiseKept == Promise!Spec

\* Whoever dies with it, the lock is given out again and again, as long as the
\* driver in the end answers an attempt before the time of its lock is over.
Prompt == \A p \in Process : at[p] = "confirm" => lease[p] > 0
GivenIfPrompt == Prompt => \E p \in Process : at[p] = "hold"
LockIsGiven == []<>GivenIfPrompt
=============================================================================
