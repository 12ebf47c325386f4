---------------------------- MODULE SyncedSignal ----------------------------
(***************************************************************************)
(* A signal shared by browser tabs: syncedSignal                            *)
(* (packages/core/src/sync/synced-signal.ts) over the broadcast transport   *)
(* of transport.ts.  A local write is stamped with a logical time and       *)
(* broadcast; a peer's write is adopted when it is the later of the two,    *)
(* origins breaking ties.  A suspended tab may miss messages and asks its   *)
(* peers for their state when it becomes visible again.                     *)
(*                                                                         *)
(* The tabs of one machine share its clock, so now() is one variable.       *)
(* Reaction[t] is an effect of the application in tab t that reads the      *)
(* signal and may write it back (a clamp, a normalisation); the identity    *)
(* stands for an application that has none.                                 *)
(***************************************************************************)
EXTENDS Integers, Sequences

CONSTANTS
    Tab,          \* origins, ordered as the code's strings are
    Value,        \* values the signal takes
    Initial,      \* the value every tab's signal is created with
    Founders,     \* the tabs open from the start; the others may open later
    Reaction,     \* Reaction[t][v]: what tab t's own effect makes of v
    MaxClock,     \* bound on the clock
    MaxWrites,    \* bound on writes by the application
    MaxSleeps     \* bound on suspensions

ASSUME TabAssumption == Tab \subseteq Nat /\ Founders \subseteq Tab
ASSUME ValueAssumption == Initial \in Value
ASSUME ReactionAssumption ==
    /\ Reaction \in [Tab -> [Value -> Value]]
    /\ \A t \in Tab, v \in Value : Reaction[t][Reaction[t][v]] = Reaction[t][v]
ASSUME BoundAssumption == MaxClock \in Nat /\ MaxWrites \in Nat /\ MaxSleeps \in Nat

VARIABLES
    clock,     \* Date.now()
    phase,     \* "unopened", "open", "asleep" or "disposed"
    source,    \* source.value
    local,     \* the versioned value this tab holds
    highest,   \* highestSeenAt
    born,      \* observer: the stamp of the value the tab was created with
    inbox,     \* messages on their way to the tab, in posting order
    writes,    \* writes so far
    sleeps     \* suspensions so far

vars == <<clock, phase, source, local, highest, born, inbox, writes, sleeps>>

Versioned == [value : Value, at : Nat, origin : Tab]
Update(entry) == [type |-> "update", entry |-> entry]
Request(from) == [type |-> "request", from |-> from]
Message == [type : {"update"}, entry : Versioned] \cup [type : {"request"}, from : Tab]

Later(m, n) == IF m >= n THEN m ELSE n

\* Strictly later, an exact tie of stamps going to the larger origin.
Beats(theirs, mine) ==
    \/ theirs.at > mine.at
    \/ theirs.at = mine.at /\ theirs.origin > mine.origin

\* Mutation: ties left to arrival order.
TiesToArrival(mine, theirs) == IF theirs.at >= mine.at THEN theirs ELSE mine

lastWriteWins(mine, theirs) == IF Beats(theirs, mine) THEN theirs ELSE mine

Stamped(t, v) == [value |-> v, at |-> clock, origin |-> t]

\* A tab hears the channel from its creation to its disposal.
Hears(t) == phase[t] \in {"open", "asleep"}

\* transport.post: every other tab gets the messages, in order.
Posted(queues, from, messages) ==
    [t \in Tab |-> IF t # from /\ Hears(t) THEN queues[t] \o messages ELSE queues[t]]

Init ==
    /\ clock = 0
    /\ phase = [t \in Tab |-> IF t \in Founders THEN "open" ELSE "unopened"]
    /\ source = [t \in Tab |-> Initial]
    /\ local = [t \in Tab |-> Stamped(t, Initial)]
    /\ highest = [t \in Tab |-> clock]
    /\ born = [t \in Tab |-> clock]
    /\ inbox = [t \in Tab |-> <<>>]
    /\ writes = 0
    /\ sleeps = 0

----------------------------------------------------------------------------
\* syncedSignal(): the tab takes up the value its source has, as of now.
Open(t) ==
    /\ phase[t] = "unopened"
    /\ phase' = [phase EXCEPT ![t] = "open"]
    /\ local' = [local EXCEPT ![t] = Stamped(t, source[t])]
    /\ highest' = [highest EXCEPT ![t] = clock]
    /\ born' = [born EXCEPT ![t] = clock]
    /\ UNCHANGED <<clock, source, inbox, writes, sleeps>>

\* Mutations: a stamp that may repeat; the wall clock alone.
RepeatableStamp(seen) == Later(clock, seen)
WallClockStamp(seen) == clock

\* nextStamp()
NextStamp(seen) == Later(clock, seen + 1)

\* One run of the broadcasting effect: a value other than the one held is
\* stamped, held and sent.  side is what the run reads and changes.
Share(side, t, v) ==
    IF v = side.local.value THEN side
    ELSE LET entry == [value |-> v, at |-> NextStamp(side.highest), origin |-> t]
         IN [local |-> entry, highest |-> entry.at,
             sent |-> Append(side.sent, Update(entry))]

\* The application writes v.  Its own effect runs before or after the
\* broadcasting one, which runs again for what that effect writes.
Write(t, v) ==
    /\ phase[t] = "open"
    /\ v # source[t]
    /\ writes < MaxWrites
    /\ writes' = writes + 1
    /\ LET before == [local |-> local[t], highest |-> highest[t], sent |-> <<>>]
       IN \E first \in {v, Reaction[t][v]} :
            LET after == Share(Share(before, t, first), t, Reaction[t][v])
            IN /\ source' = [source EXCEPT ![t] = Reaction[t][v]]
               /\ local' = [local EXCEPT ![t] = after.local]
               /\ highest' = [highest EXCEPT ![t] = after.highest]
               /\ inbox' = Posted(inbox, t, after.sent)
    /\ UNCHANGED <<clock, phase, born, sleeps>>

\* The application's effect also runs on an adopted value, but the broadcasting
\* one returns at once while applying is set.
Applied(t, v) == IF v = source[t] THEN v ELSE Reaction[t][v]

Incoming(t, type) ==
    /\ phase[t] = "open"
    /\ inbox[t] # <<>>
    /\ Head(inbox[t]).type = type

Handled(t) == [inbox EXCEPT ![t] = Tail(@)]

\* Mutation: the whole message held as the value.
HoldMessage(t) ==
    /\ Incoming(t, "update")
    /\ local' = [local EXCEPT ![t] = Head(inbox[t])]
    /\ inbox' = Handled(t)
    /\ UNCHANGED <<clock, phase, source, highest, born, writes, sleeps>>

\* A peer's value: the winner is held and applied unless it is the one held.
OnUpdate(t) ==
    /\ Incoming(t, "update")
    /\ LET incoming == Head(inbox[t]).entry
           winner == lastWriteWins(local[t], incoming)
       IN IF incoming.origin = t
          THEN UNCHANGED <<source, local, highest>>
          ELSE /\ highest' = [highest EXCEPT ![t] = Later(@, incoming.at)]
               /\ local' = [local EXCEPT ![t] = winner]
               /\ source' = IF winner = local[t] THEN source
                            ELSE [source EXCEPT ![t] = Applied(t, winner.value)]
    /\ inbox' = Handled(t)
    /\ UNCHANGED <<clock, phase, born, writes, sleeps>>

\* A waking peer asks: answer with what this tab holds.
OnRequest(t) ==
    /\ Incoming(t, "request")
    /\ inbox' = Posted(Handled(t), t, <<Update(local[t])>>)
    /\ UNCHANGED <<clock, phase, source, local, highest, born, writes, sleeps>>

Dispose(t) ==
    /\ phase[t] = "open"
    /\ phase' = [phase EXCEPT ![t] = "disposed"]
    /\ inbox' = [inbox EXCEPT ![t] = <<>>]
    /\ UNCHANGED <<clock, source, local, highest, born, writes, sleeps>>

----------------------------------------------------------------------------
\* The browser suspends a tab, drops what it should have heard, and shows it
\* again; becoming visible posts the request.
Sleep(t) ==
    /\ phase[t] = "open"
    /\ sleeps < MaxSleeps
    /\ sleeps' = sleeps + 1
    /\ phase' = [phase EXCEPT ![t] = "asleep"]
    /\ UNCHANGED <<clock, source, local, highest, born, inbox, writes>>

Lose(t) ==
    /\ phase[t] = "asleep"
    /\ inbox[t] # <<>>
    /\ inbox' = Handled(t)
    /\ UNCHANGED <<clock, phase, source, local, highest, born, writes, sleeps>>

Wake(t) ==
    /\ phase[t] = "asleep"
    /\ phase' = [phase EXCEPT ![t] = "open"]
    /\ inbox' = Posted(inbox, t, <<Request(t)>>)
    /\ UNCHANGED <<clock, source, local, highest, born, writes, sleeps>>

Tick ==
    /\ clock < MaxClock
    /\ clock' = clock + 1
    /\ UNCHANGED <<phase, source, local, highest, born, inbox, writes, sleeps>>

Receive(t) == OnUpdate(t) \/ OnRequest(t)

Next ==
    \/ \E t \in Tab :
        \/ Open(t) \/ Receive(t) \/ Dispose(t) \/ Sleep(t) \/ Lose(t) \/ Wake(t)
        \/ \E v \in Value : Write(t, v)
    \/ Tick

\* The browser delivers what an open tab has waiting and wakes a suspended one.
Fairness == \A t \in Tab : WF_vars(Receive(t)) /\ WF_vars(Wake(t))

Spec == Init /\ [][Next]_vars /\ Fairness

----------------------------------------------------------------------------
\* Every variable keeps its type.
TypeOK ==
    /\ clock \in 0..MaxClock
    /\ phase \in [Tab -> {"unopened", "open", "asleep", "disposed"}]
    /\ source \in [Tab -> Value]
    /\ local \in [Tab -> Versioned]
    /\ highest \in [Tab -> Nat]
    /\ born \in [Tab -> Nat]
    /\ inbox \in [Tab -> Seq(Message)]
    /\ writes \in 0..MaxWrites
    /\ sleeps \in 0..MaxSleeps

\* The versions a queue of messages carries, all those in flight, those held.
Carried(q) == {q[i].entry : i \in {j \in DOMAIN q : q[j].type = "update"}}
InFlight == UNION {Carried(inbox[t]) : t \in Tab}
Held == {local[t] : t \in Tab}

\* A stamp and an origin name one write: no two values ever carry both.
StampNamesWrite ==
    \A e, f \in InFlight \cup Held : e.at = f.at /\ e.origin = f.origin => e = f

\* No tab holds or is sent a version its origin has not stamped yet, and a tab's
\* own next stamp is above everything it has seen.
StampsCovered ==
    /\ \A t \in Tab : local[t].at <= highest[t]
    /\ \A e \in InFlight \cup Held : e.at <= highest[e.origin]

\* What an open tab holds is only ever replaced by a later version.
HoldsLater ==
    [][\A t \in Tab : Hears(t) => local'[t] = local[t] \/ Beats(local'[t], local[t])]_vars

\* A version nobody wrote: the value its tab happened to be created with.
Unwritten(e) == e.at = born[e.origin]

\* An answer never replaces a written value by one nobody wrote.
WritesOutliveDefaults ==
    [][\A t \in Tab : Hears(t) /\ ~Unwritten(local[t]) => ~Unwritten(local[t])']_vars

Quiet ==
    /\ \A t \in Tab : inbox[t] = <<>>
    /\ \A t \in Tab : phase[t] # "asleep"
Showing == {t \in Tab : phase[t] = "open"}

\* A tab shows the value it holds, as its own effect leaves it, and with nothing
\* left in flight all open tabs hold the same value.
Agreement ==
    /\ \A t \in Showing : source[t] = Reaction[t][local[t].value]
    /\ Quiet => \A t, u \in Showing : local[t].value = local[u].value
=============================================================================
