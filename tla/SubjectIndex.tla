---------------------------- MODULE SubjectIndex -----------------------------
(***************************************************************************)
(* The subject-to-sessions index of a session store on a key-value driver:   *)
(* packages/auth/src/server/storage-session-store.ts, write(), destroy() and *)
(* destroyForSubject(), for one subject.                                    *)
(*                                                                         *)
(* The driver offers get, set and delete of one key, so the index is read,   *)
(* changed and written back.  Each step below ends with one driver call, any *)
(* calls overlap, and any driver call may fail.                             *)
(***************************************************************************)
EXTENDS FiniteSets, Naturals

CONSTANTS
    Request,   \* requests that use the store, one call each at a time
    Id,        \* session ids
    Ttl,       \* ttlMs, in instants
    Ceiling    \* absoluteTtlMs: what a session has at most, from its first write on

\* create-auth-server.ts passes the absolute lifetime as ttlMs.
ConstantsOK == Ttl \in Nat /\ Ceiling \in 1..Ttl

VARIABLES
    sessions,   \* the ids with a stored session
    index,      \* the ids under the subject's key
    left,       \* the time left of the record under the subject's key
    issued,     \* every id a write() has been called for
    usable,     \* of each session: the time until its absoluteExpiresAt
    at, own,    \* of each request: the call it is about to make, for which session
    seen,       \* the ids it has read, or has yet to delete
    \* histories:
    beside,     \* the sessions whose write() was under way since it read the index
    loose       \* the sessions whose write() failed, or that a writing back of the index missed

vars == <<sessions, index, left, issued, usable, at, own, seen, beside, loose>>

Calls == {"idle", "write-look", "write-index", "delete", "prune-look", "prune", "sign-out"}
Writes(r) == at[r] \in {"write-look", "write-index"}

Init ==
    /\ sessions = {} /\ index = {} /\ left = 0 /\ issued = {} /\ loose = {}
    /\ usable = [i \in Id |-> 0]
    /\ at = [r \in Request |-> "idle"]
    /\ own = [r \in Request |-> {}]
    /\ seen = [r \in Request |-> {}] /\ beside = [r \in Request |-> {}]

Go(r, call) == at' = [at EXCEPT ![r] = call]

Ends(r) ==
    /\ Go(r, "idle")
    /\ own' = [own EXCEPT ![r] = {}] /\ seen' = [seen EXCEPT ![r] = {}]
    /\ beside' = [beside EXCEPT ![r] = {}]

\* subjects.get(), while other requests write their sessions.
BeingWritten(r) == UNION {own[s] : s \in {q \in Request \ {r} : Writes(q)}}
Reads(r, kept) ==
    /\ seen' = [seen EXCEPT ![r] = index]
    /\ beside' = [beside EXCEPT ![r] = BeingWritten(r) \cup kept]

\* Mutation: the record keeps the time it had.
StoreAging(r, ids) ==
    /\ index' = ids
    /\ left' = IF ids = {} THEN 0 ELSE IF left = 0 THEN Ttl ELSE left
    /\ loose' = loose \cup beside[r]

\* subjects.set() with ttlMs, or subjects.delete() of none: it misses whoever was written since
\* the read.
Store(r, ids) ==
    /\ index' = ids /\ left' = IF ids = {} THEN 0 ELSE Ttl
    /\ loose' = loose \cup beside[r]

\* write(): sessions.set(), of a new session or again of one that was stored.
Write(r, i) ==
    /\ at[r] = "idle"
    /\ sessions' = sessions \cup {i} /\ issued' = issued \cup {i} /\ loose' = loose \ {i}
    /\ IF i \in issued
       THEN UNCHANGED usable
       ELSE \E t \in 1..Ceiling : usable' = [usable EXCEPT ![i] = t]
    /\ own' = [own EXCEPT ![r] = {i}] /\ Go(r, "write-look")
    /\ beside' = [s \in Request |->
          IF s = r \/ at[s] = "idle" THEN beside[s] ELSE beside[s] \cup {i}]
    /\ UNCHANGED <<index, left, seen>>

\* indexSubject(): subjects.get(), and nothing more when it has the id.
WriteLook(r) ==
    /\ at[r] = "write-look"
    /\ IF own[r] \subseteq index
       THEN Ends(r)
       ELSE Reads(r, {}) /\ Go(r, "write-index") /\ UNCHANGED own
    /\ UNCHANGED <<sessions, index, left, issued, usable, loose>>

\* indexSubject(): subjects.set() with the id added to what was read.
WriteIndex(r) ==
    /\ at[r] = "write-index"
    /\ Store(r, seen[r] \cup own[r]) /\ Ends(r)
    /\ UNCHANGED <<sessions, issued, usable>>

\* Mutation: whether to prune is what the request had read before, of whatever session.
DestroyUnread(r, i) ==
    /\ at[r] = "idle" /\ i \in issued
    /\ own' = [own EXCEPT ![r] = {i}] /\ Go(r, "delete")
    /\ seen' = [seen EXCEPT ![r] = sessions]
    /\ UNCHANGED <<sessions, index, left, issued, usable, beside, loose>>

\* destroy(): sessions.get() tells whether the index is to be pruned.
Destroy(r, i) ==
    /\ at[r] = "idle" /\ i \in issued
    /\ own' = [own EXCEPT ![r] = {i}] /\ Go(r, "delete")
    /\ seen' = [seen EXCEPT ![r] = sessions \cap {i}]
    /\ beside' = [beside EXCEPT ![r] = BeingWritten(r)]
    /\ UNCHANGED <<sessions, index, left, issued, usable, loose>>

\* destroy(): sessions.delete().
DestroyDelete(r) ==
    /\ at[r] = "delete"
    /\ sessions' = sessions \ own[r]
    /\ IF seen[r] = {} THEN Ends(r) ELSE Go(r, "prune-look") /\ UNCHANGED <<own, seen, beside>>
    /\ UNCHANGED <<index, left, issued, usable, loose>>

\* destroy(): subjects.get(); its session may have been written since destroy() began.
PruneLook(r) ==
    /\ at[r] = "prune-look" /\ Reads(r, beside[r] \cap own[r]) /\ Go(r, "prune")
    /\ UNCHANGED <<sessions, index, left, issued, usable, own, loose>>

\* destroy(): subjects.set() of the other ids, or subjects.delete() of none.
Prune(r) ==
    /\ at[r] = "prune"
    /\ Store(r, seen[r] \ own[r]) /\ Ends(r)
    /\ UNCHANGED <<sessions, issued, usable>>

\* destroyForSubject(): subjects.get().
SignOut(r) ==
    /\ at[r] = "idle"
    /\ Reads(r, {}) /\ Go(r, "sign-out")
    /\ UNCHANGED <<sessions, index, left, issued, usable, own, loose>>

\* destroyForSubject(): sessions.delete() of the ids read, in any order.
SignOutDelete(r, i) ==
    /\ at[r] = "sign-out" /\ i \in seen[r]
    /\ sessions' = sessions \ {i} /\ seen' = [seen EXCEPT ![r] = @ \ {i}]
    /\ UNCHANGED <<index, left, issued, usable, at, own, beside, loose>>

\* Mutation: the sessions are left to be deleted after the call has returned.
SignOutEarly(r) ==
    /\ at[r] = "sign-out"
    /\ Store(r, {}) /\ Ends(r)
    /\ UNCHANGED <<sessions, issued, usable>>

\* destroyForSubject(): subjects.delete(), when all of them are deleted.
SignOutEnds(r) ==
    /\ at[r] = "sign-out" /\ seen[r] = {}
    /\ Store(r, {}) /\ Ends(r)
    /\ UNCHANGED <<sessions, issued, usable>>

\* A driver call fails, and the call that made it with it.
Fails(r) ==
    /\ at[r] # "idle"
    /\ loose' = IF Writes(r) THEN loose \cup own[r] ELSE loose
    /\ Ends(r)
    /\ UNCHANGED <<sessions, index, left, issued, usable>>

\* The driver drops a session: its ttlMs are over, or it makes room.
Expire(i) ==
    /\ i \in sessions
    /\ sessions' = sessions \ {i}
    /\ UNCHANGED <<index, left, issued, usable, at, own, seen, beside, loose>>

Less(n) == IF n = 0 THEN 0 ELSE n - 1

\* An instant passes, and the driver drops an index whose own ttlMs are over.
Tick ==
    /\ usable' = [i \in Id |-> Less(usable[i])]
    /\ left' = Less(left)
    /\ index' = IF left' = 0 THEN {} ELSE index
    /\ UNCHANGED <<sessions, issued, at, own, seen, beside, loose>>

Writing(r) == WriteLook(r) \/ WriteIndex(r) \/ \E i \in Id : Write(r, i)
Destroying(r) == DestroyDelete(r) \/ PruneLook(r) \/ Prune(r) \/ \E i \in Id : Destroy(r, i)
SigningOut(r) == SignOut(r) \/ SignOutEnds(r) \/ \E i \in Id : SignOutDelete(r, i)
Next ==
    \/ Tick
    \/ \E r \in Request : Writing(r) \/ Destroying(r) \/ SigningOut(r) \/ Fails(r)
    \/ \E i \in Id : Expire(i)
Spec == Init /\ [][Next]_vars

----------------------------------------------------------------------------
\* A record under the subject's key has ids and time, and what is read belongs to the call
\* that read it.
TypeOK ==
    /\ sessions \subseteq issued /\ index \subseteq issued
    /\ issued \subseteq Id /\ loose \subseteq Id
    /\ left \in 0..Ttl /\ (left = 0 <=> index = {}) /\ usable \in [Id -> 0..Ceiling]
    /\ at \in [Request -> Calls] /\ own \in [Request -> SUBSET Id]
    /\ seen \in [Request -> SUBSET Id] /\ beside \in [Request -> SUBSET Id]
    /\ \A r \in Request : at[r] = "delete" => seen[r] \subseteq own[r]

\* When destroyForSubject() is over, a session that is left and still has time before its
\* ceiling is one whose write() failed, or was under way between the read of the index by
\* some call and its writing back: nothing else is lost from the index, whatever it is
\* renewed by, pruned of and outlived by.
Live == {i \in sessions : usable[i] > 0}
SignOutIsTotal == [][\A r \in Request : SignOutEnds(r) => Live \subseteq loose']_vars

=============================================================================
