---------------------------- MODULE MutationHook -----------------------------
(***************************************************************************)
(* useMutation and useOptimisticMutation: packages/query/src/hooks/          *)
(* useMutation.ts, hooks that change one cached query at once and roll the   *)
(* change back when the server refuses it.                                  *)
(*                                                                         *)
(* Cached data is the set of calls whose change it shows.  Of generation and *)
(* the tokens only their comparison matters: newest is the call whose token  *)
(* is the hook's generation.  Effects of the application run while a call    *)
(* that starts writes 'pending', before it is the active request, and while  *)
(* one that finishes writes its first signal, before its last.              *)
(***************************************************************************)
EXTENDS Integers, Sequences

CONSTANTS
    Hook,
    MaxCalls    \* bound on calls of mutate()

ConstantsOK == MaxCalls \in Nat \ {0} /\ Hook # {}

VARIABLES
    use,                        \* what the application does with the hooks
    made,                       \* how many calls of mutate() there were
    owner, phase, outcome, snapshot,   \* of each call: its hook, request, promise, context
    active, newest,             \* of each hook: activeRequest (0: null), see above
    status, disposed,
    starting,                   \* the calls that are writing 'pending', innermost first
    finishing,                  \* a call between its first signal and its last, or 0
    success,                    \* how that call ends
    entry,                      \* the query in the client's cache
    accepted                    \* the changes the server has made

calls == <<made, owner, phase, outcome, snapshot>>
hooks == <<active, newest, status, disposed>>
vars == <<use, calls, hooks, starting, finishing, success, entry, accepted>>

Call == 1..MaxCalls
Entry == [there : BOOLEAN, data : SUBSET Call, invalid : BOOLEAN]
Absent == [there |-> FALSE, data |-> {}, invalid |-> FALSE]

\* A calm application awaits each call and leaves the query alone meanwhile; a
\* restless one supersedes calls, resets and disposes of hooks, and fetches and removes
\* the query; in a reacting one effects call back into the hook as well.
Uses == {"calm", "restless", "reacting"}

Init ==
    /\ use \in Uses
    /\ made = 0
    /\ owner = [c \in Call |-> CHOOSE h \in Hook : TRUE]
    /\ phase = [c \in Call |-> "unmade"] /\ outcome = [c \in Call |-> "pending"]
    /\ snapshot = [c \in Call |-> Absent]
    /\ active = [h \in Hook |-> 0] /\ newest = [h \in Hook |-> 0]
    /\ status = [h \in Hook |-> "idle"]
    /\ disposed = [h \in Hook |-> FALSE]
    /\ starting = <<>> /\ finishing = 0 /\ success = FALSE
    /\ entry \in {Absent, [Absent EXCEPT !.there = TRUE]} /\ accepted = {}

Idle == starting = <<>> /\ finishing = 0
UnderWay(c) == phase[c] \in {"starting", "preparing", "sent"} \/ finishing = c
Current(c) == LET h == owner[c] IN ~disposed[h] /\ active[h] = c /\ newest[h] = c

\* Application code runs: between events, or as an effect.
Acting == Idle \/ use = "reacting"
MayCall == use # "calm" \/ \A h \in Hook : active[h] = 0

\* Mutation: a newer call leaves the previous one waiting.
CancelledNever(h) == outcome

\* cancelActive(): the promise of the active call is rejected, its fiber interrupted.
Cancelled(h) == [c \in Call |-> IF active[h] = c THEN "cancelled" ELSE outcome[c]]

\* mutate(), up to the write of 'pending': the active call is cancelled.
Mutate(h) ==
    /\ Acting /\ ~disposed[h] /\ MayCall /\ made < MaxCalls
    /\ made' = made + 1
    /\ owner' = [owner EXCEPT ![made'] = h]
    /\ phase' = [phase EXCEPT ![made'] = "starting"]
    /\ outcome' = Cancelled(h)
    /\ active' = [active EXCEPT ![h] = 0] /\ newest' = [newest EXCEPT ![h] = made']
    /\ status' = [status EXCEPT ![h] = "pending"]
    /\ starting' = <<made'>> \o starting
    /\ UNCHANGED <<use, snapshot, disposed, finishing, success, entry, accepted>>

\* Mutation: onMutate computes the change from nothing.
BeginAfresh(c) ==
    /\ starting # <<>> /\ Head(starting) = c
    /\ starting' = Tail(starting)
    /\ phase' = [phase EXCEPT ![c] = "preparing"]
    /\ active' = [active EXCEPT ![owner[c]] = c]
    /\ snapshot' = [snapshot EXCEPT ![c] = entry]
    /\ entry' = [there |-> TRUE, data |-> {c}, invalid |-> FALSE]
    /\ UNCHANGED <<use, made, owner, outcome, newest, status, disposed, finishing, success, accepted>>

\* The rest of it: the call becomes the active one and onMutate keeps a snapshot of
\* the query and applies the change (setOptimistic, which makes a fresh entry).
Begin(c) ==
    /\ starting # <<>> /\ Head(starting) = c
    /\ starting' = Tail(starting)
    /\ phase' = [phase EXCEPT ![c] = "preparing"]
    /\ active' = [active EXCEPT ![owner[c]] = c]
    /\ snapshot' = [snapshot EXCEPT ![c] = entry]
    /\ entry' = [there |-> TRUE, data |-> entry.data \cup {c}, invalid |-> FALSE]
    /\ UNCHANGED <<use, made, owner, outcome, newest, status, disposed, finishing, success, accepted>>

\* onMutate has been awaited: the request is sent if the call is still current.
Proceed(c) ==
    /\ Idle /\ phase[c] = "preparing"
    /\ phase' = [phase EXCEPT ![c] = IF Current(c) THEN "sent" ELSE "done"]
    /\ UNCHANGED <<use, made, owner, outcome, snapshot, hooks, starting, finishing, success, entry, accepted>>

\* The server makes the change, whether or not anybody still waits for it.
Accept(c) ==
    /\ Idle /\ phase[c] = "sent" /\ c \notin accepted
    /\ accepted' = accepted \cup {c}
    /\ UNCHANGED <<use, calls, hooks, starting, finishing, success, entry>>

\* finishSuccess(), finishError(): nothing unless the call is current; else it is
\* settled and writes its first signal, whose effects run before the rest.
Finish(c, ok) ==
    /\ Idle /\ phase[c] = "sent" /\ (ok => c \in accepted)
    /\ phase' = [phase EXCEPT ![c] = "done"]
    /\ IF Current(c)
       THEN /\ finishing' = c /\ success' = ok
            /\ active' = [active EXCEPT ![owner[c]] = 0]
       ELSE UNCHANGED <<finishing, success, active>>
    /\ UNCHANGED <<use, made, owner, outcome, snapshot, newest, status, disposed, starting, entry, accepted>>

\* The rest of them: the status, the hook's callbacks (invalidateKeys, or the
\* rollback to the snapshot) and the promise.
Conclude(c) ==
    /\ finishing = c /\ starting = <<>>
    /\ status' = [status EXCEPT ![owner[c]] = IF success THEN "success" ELSE "error"]
    /\ outcome' = [outcome EXCEPT ![c] = IF success THEN "resolved" ELSE "rejected"]
    /\ entry' = IF success THEN [entry EXCEPT !.invalid = entry.there] ELSE snapshot[c]
    /\ finishing' = 0 /\ success' = FALSE
    /\ UNCHANGED <<use, made, owner, phase, snapshot, active, newest, disposed, starting, accepted>>

Reset(h) ==
    /\ Acting /\ use # "calm"
    /\ outcome' = Cancelled(h)
    /\ active' = [active EXCEPT ![h] = 0] /\ newest' = [newest EXCEPT ![h] = 0]
    /\ status' = [status EXCEPT ![h] = "idle"]
    /\ UNCHANGED <<use, made, owner, phase, snapshot, disposed, starting, finishing, success, entry, accepted>>

\* dispose(), also called when the component is unmounted.
Dispose(h) ==
    /\ Acting /\ use # "calm" /\ ~disposed[h]
    /\ outcome' = Cancelled(h)
    /\ active' = [active EXCEPT ![h] = 0] /\ newest' = [newest EXCEPT ![h] = 0]
    /\ disposed' = [disposed EXCEPT ![h] = TRUE]
    /\ UNCHANGED <<use, made, owner, phase, snapshot, status, starting, finishing, success, entry, accepted>>

\* Somebody fetches the query and stores what the server has.
Refetch ==
    /\ Idle /\ (use # "calm" \/ \A c \in Call : ~UnderWay(c))
    /\ entry' = [there |-> TRUE, data |-> accepted, invalid |-> FALSE]
    /\ UNCHANGED <<use, calls, hooks, starting, finishing, success, accepted>>

\* The client removes the query, or collects it.
Evict ==
    /\ Idle /\ use # "calm" /\ entry.there
    /\ entry' = Absent
    /\ UNCHANGED <<use, calls, hooks, starting, finishing, success, accepted>>

Answer(c) == \E ok \in BOOLEAN : Finish(c, ok)
Runs(c) == Begin(c) \/ Proceed(c) \/ Answer(c) \/ Conclude(c)
Handles(h) == Mutate(h) \/ Reset(h) \/ Dispose(h)
Next == Refetch \/ Evict \/ (\E c \in Call : Runs(c) \/ Accept(c)) \/ \E h \in Hook : Handles(h)

\* The event loop goes on and every request ends, by its timeout if not by an answer.
Fairness == \A c \in Call : WF_vars(Runs(c))
Spec == Init /\ [][Next]_vars /\ Fairness

----------------------------------------------------------------------------
\* Every variable keeps its type.
TypeOK ==
    /\ use \in Uses
    /\ made \in 0..MaxCalls /\ owner \in [Call -> Hook]
    /\ phase \in [Call -> {"unmade", "starting", "preparing", "sent", "done"}]
    /\ outcome \in [Call -> {"pending", "resolved", "rejected", "cancelled"}]
    /\ snapshot \in [Call -> Entry] /\ entry \in Entry
    /\ active \in [Hook -> 0..MaxCalls] /\ newest \in [Hook -> 0..MaxCalls]
    /\ starting \in Seq(Call)
    /\ status \in [Hook -> {"idle", "pending", "success", "error"}]
    /\ disposed \in [Hook -> BOOLEAN]
    /\ finishing \in 0..MaxCalls /\ success \in BOOLEAN /\ accepted \subseteq Call
    /\ \A e \in {entry} \cup {snapshot[c] : c \in Call} : e.data # {} \/ e.invalid => e.there

\* Every promise of mutateAsync() is settled, unless effects call back into the hook.
PromisesSettled ==
    use # "reacting" => \A c \in Call : phase[c] # "unmade" => outcome[c] # "pending"
PromisesEnd == []<>PromisesSettled

\* If calls are awaited, a change the server made and reported is shown, or the query is
\* marked to be fetched again, and one whose call failed is shown no more.
ShownIsTrue ==
    use = "calm" =>
      \A c \in 1..made :
        /\ outcome[c] = "resolved" => c \in entry.data \/ entry.invalid \/ ~entry.there
        /\ outcome[c] = "rejected" /\ c \notin accepted => c \notin entry.data

=============================================================================
