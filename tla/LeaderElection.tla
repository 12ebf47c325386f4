--------------------------- MODULE LeaderElection ---------------------------
(***************************************************************************)
(* Cross-tab leader election by heartbeat: the strategy createLeaderElection *)
(* (packages/core/src/sync/leader.ts) falls back to where the Web Locks API *)
(* is absent.  Every tab runs the same code over a broadcast channel that   *)
(* delivers each post to every other open tab, in posting order, within     *)
(* Delay units of time.                                                     *)
(*                                                                         *)
(* Time is counted in units and is only ever measured as an age or as the   *)
(* remainder of a timer, so no absolute clock is kept: silent[t] is         *)
(* now() - lastSeenLeaderAt, capped at Timeout, beyond which the code does  *)
(* not tell ages apart.  A suspended tab (backgrounded, or a busy main      *)
(* thread) neither fires timers nor handles messages; what is sent to it    *)
(* waits in its inbox, up to InboxCap, or is lost.                          *)
(***************************************************************************)
EXTENDS Integers, Sequences, FiniteSets, FiniteSetTheorems, SequenceTheorems, TLAPS

CONSTANTS
    Tab,          \* participant ids, ordered as the code's strings are
    Heartbeat,    \* heartbeatMs, in units of time
    Timeout,      \* timeoutMs, in units of time
    Delay,        \* the longest a message to an awake tab is in flight
    InboxCap,     \* messages a suspended tab's event queue keeps (a bound)
    MaxCrashes,   \* bound on crashes
    MaxSuspends,  \* bound on suspensions
    SplitCap      \* bound on the observer's counter split

TabsOrdered == Tab \subseteq Nat
TimesPositive == Heartbeat \in Nat \ {0} /\ Timeout \in Nat \ {0} /\ Delay \in Nat
BoundsNatural ==
    InboxCap \in Nat /\ MaxCrashes \in Nat /\ MaxSuspends \in Nat /\ SplitCap \in Nat \ {0}
Parameters == TabsOrdered /\ TimesPositive /\ BoundsNatural

VARIABLES
    phase,     \* "unborn", "awake", "suspended", "disposed" or "crashed"
    leader,    \* the closure variable leader
    known,     \* knownLeaderId
    silent,    \* now() - lastSeenLeaderAt, capped at Timeout
    timer,     \* the one pending schedule() call: which callback, due when
    inbox,     \* messages posted to the tab and not yet handled
    crashes,   \* crashes so far
    suspends,  \* suspensions so far
    split      \* observer: units of time two awake tabs have both led

vars == <<phase, leader, known, silent, timer, inbox, crashes, suspends, split>>

NoTab == -1    \* knownLeaderId === undefined

MessageType == {"heartbeat", "claim", "resign"}
Message == [type : MessageType, from : Tab, left : 0..Delay]
Timer == [fires : {"tick", "confirm"}, left : 0..Heartbeat]

Open == {t \in Tab : phase[t] \in {"awake", "suspended"}}
Awake == {t \in Tab : phase[t] = "awake"}
Leaders == {t \in Open : leader[t]}
AwakeLeaders == Leaders \cap Awake

\* One unit of time less, never below zero.
Sooner(n) == IF n = 0 THEN 0 ELSE n - 1

In(callback, units) == [fires |-> callback, left |-> units]

Init ==
    /\ phase = [t \in Tab |-> "unborn"]
    /\ leader = [t \in Tab |-> FALSE]
    /\ known = [t \in Tab |-> NoTab]
    /\ silent = [t \in Tab |-> Timeout]
    /\ timer = [t \in Tab |-> In("tick", Heartbeat)]
    /\ inbox = [t \in Tab |-> <<>>]
    /\ crashes = 0
    /\ suspends = 0
    /\ split = 0

----------------------------------------------------------------------------
\* transport.post: every other open tab gets the message.
Accepts(t, from) ==
    /\ t # from
    /\ t \in Open
    /\ t \in Awake \/ Len(inbox[t]) < InboxCap

Posted(queues, from, type) ==
    [t \in Tab |->
        IF Accepts(t, from)
        THEN Append(queues[t], [type |-> type, from |-> from, left |-> Delay])
        ELSE queues[t]]

\* A tab joins: its first tick is one heartbeat away and, lastSeenLeaderAt
\* being zero, it starts out as if a leader had long been silent.
Join(t) ==
    /\ phase[t] = "unborn"
    /\ phase' = [phase EXCEPT ![t] = "awake"]
    /\ UNCHANGED <<leader, known, silent, timer, inbox, crashes, suspends, split>>

Due(t, callback) ==
    /\ t \in Awake
    /\ timer[t].fires = callback
    /\ timer[t].left = 0

\* tick() in a leader: announce and rearm.
TickLeading(t) ==
    /\ Due(t, "tick")
    /\ leader[t]
    /\ inbox' = Posted(inbox, t, "heartbeat")
    /\ timer' = [timer EXCEPT ![t] = In("tick", Heartbeat)]
    /\ UNCHANGED <<phase, leader, known, silent, crashes, suspends, split>>

\* tick() in a follower whose leader is not yet presumed dead.
TickFollowing(t) ==
    /\ Due(t, "tick")
    /\ ~leader[t]
    /\ silent[t] < Timeout
    /\ timer' = [timer EXCEPT ![t] = In("tick", Heartbeat)]
    /\ UNCHANGED <<phase, leader, known, silent, inbox, crashes, suspends, split>>

\* Mutation: the claim is not recorded.
ClaimUnrecorded(t) ==
    /\ Due(t, "tick")
    /\ ~leader[t]
    /\ silent[t] >= Timeout
    /\ inbox' = Posted(inbox, t, "claim")
    /\ timer' = [timer EXCEPT ![t] = In("confirm", Heartbeat)]
    /\ UNCHANGED <<phase, leader, known, silent, crashes, suspends, split>>

\* tick() in a follower that has heard nothing for timeoutMs: claim, then wait
\* one heartbeat to see whether the claim stands.
TickClaiming(t) ==
    /\ Due(t, "tick")
    /\ ~leader[t]
    /\ silent[t] >= Timeout
    /\ known' = [known EXCEPT ![t] = t]
    /\ inbox' = Posted(inbox, t, "claim")
    /\ timer' = [timer EXCEPT ![t] = In("confirm", Heartbeat)]
    /\ UNCHANGED <<phase, leader, silent, crashes, suspends, split>>

\* The callback a claim schedules.
Confirm(t) ==
    /\ Due(t, "confirm")
    /\ timer' = [timer EXCEPT ![t] = In("tick", Heartbeat)]
    /\ IF known[t] = t
       THEN /\ leader' = [leader EXCEPT ![t] = TRUE]
            /\ inbox' = Posted(inbox, t, "heartbeat")
            /\ silent' = [silent EXCEPT ![t] = 0]
       ELSE UNCHANGED <<leader, inbox, silent>>
    /\ UNCHANGED <<phase, known, crashes, suspends, split>>

Incoming(t, type) ==
    /\ t \in Awake
    /\ inbox[t] # <<>>
    /\ Head(inbox[t]).type = type

Handled(t) == [inbox EXCEPT ![t] = Tail(@)]

\* Mutation: a leader that hears a smaller one does not stand down.
NeverStandDown(t) ==
    /\ Incoming(t, "heartbeat")
    /\ silent' = [silent EXCEPT ![t] = 0]
    /\ known' = [known EXCEPT ![t] = Head(inbox[t]).from]
    /\ inbox' = Handled(t)
    /\ UNCHANGED <<phase, leader, timer, crashes, suspends, split>>

\* A heartbeat names the leader; of two leaders the smaller id keeps the role.
OnHeartbeat(t) ==
    /\ Incoming(t, "heartbeat")
    /\ LET sender == Head(inbox[t]).from IN
        /\ silent' = [silent EXCEPT ![t] = 0]
        /\ known' = [known EXCEPT ![t] = sender]
        /\ leader' = [leader EXCEPT ![t] = @ /\ sender >= t]
    /\ inbox' = Handled(t)
    /\ UNCHANGED <<phase, timer, crashes, suspends, split>>

\* A leader answers a claim with a heartbeat; a follower keeps the smallest id.
OnClaim(t) ==
    /\ Incoming(t, "claim")
    /\ LET sender == Head(inbox[t]).from IN
        IF leader[t]
        THEN /\ inbox' = Posted(Handled(t), t, "heartbeat")
             /\ UNCHANGED known
        ELSE /\ inbox' = Handled(t)
             /\ known' = IF known[t] = NoTab \/ sender < known[t]
                         THEN [known EXCEPT ![t] = sender]
                         ELSE known
    /\ UNCHANGED <<phase, leader, silent, timer, crashes, suspends, split>>

\* A clean departure of the leader this tab knows of counts as long silence.
OnResign(t) ==
    /\ Incoming(t, "resign")
    /\ IF Head(inbox[t]).from = known[t]
       THEN /\ silent' = [silent EXCEPT ![t] = Timeout]
            /\ known' = [known EXCEPT ![t] = NoTab]
       ELSE UNCHANGED <<silent, known>>
    /\ inbox' = Handled(t)
    /\ UNCHANGED <<phase, leader, timer, crashes, suspends, split>>

\* dispose(): a leader resigns, then the tab stops taking part for good.
Dispose(t) ==
    /\ t \in Awake
    /\ inbox' = [IF leader[t] THEN Posted(inbox, t, "resign") ELSE inbox
                    EXCEPT ![t] = <<>>]
    /\ phase' = [phase EXCEPT ![t] = "disposed"]
    /\ leader' = [leader EXCEPT ![t] = FALSE]
    /\ UNCHANGED <<known, silent, timer, crashes, suspends, split>>

----------------------------------------------------------------------------
\* The environment: a tab is killed, suspended, woken, or loses a message it
\* should have received while suspended.
Crash(t) ==
    /\ t \in Open
    /\ crashes < MaxCrashes
    /\ crashes' = crashes + 1
    /\ phase' = [phase EXCEPT ![t] = "crashed"]
    /\ leader' = [leader EXCEPT ![t] = FALSE]
    /\ inbox' = [inbox EXCEPT ![t] = <<>>]
    /\ UNCHANGED <<known, silent, timer, suspends, split>>

Suspend(t) ==
    /\ t \in Awake
    /\ suspends < MaxSuspends
    /\ suspends' = suspends + 1
    /\ phase' = [phase EXCEPT ![t] = "suspended"]
    /\ UNCHANGED <<leader, known, silent, timer, inbox, crashes, split>>

Wake(t) ==
    /\ phase[t] = "suspended"
    /\ phase' = [phase EXCEPT ![t] = "awake"]
    /\ UNCHANGED <<leader, known, silent, timer, inbox, crashes, suspends, split>>

Lose(t) ==
    /\ phase[t] = "suspended"
    /\ inbox[t] # <<>>
    /\ inbox' = Handled(t)
    /\ UNCHANGED <<phase, leader, known, silent, timer, crashes, suspends, split>>

\* Nothing an awake tab has to do now is left undone.
Settled ==
    \A t \in Awake :
        /\ timer[t].left > 0
        /\ \A i \in DOMAIN inbox[t] : inbox[t][i].left > 0

\* One unit of time passes.
Advance ==
    /\ Settled
    /\ Open # {}
    /\ timer' = [t \in Tab |->
                    IF t \in Open THEN [timer[t] EXCEPT !.left = Sooner(@)]
                                  ELSE timer[t]]
    /\ silent' = [t \in Tab |->
                    IF t \in Open /\ silent[t] < Timeout THEN silent[t] + 1
                                                         ELSE silent[t]]
    /\ inbox' = [t \in Tab |->
                    [i \in DOMAIN inbox[t] |->
                        [inbox[t][i] EXCEPT !.left = Sooner(@)]]]
    /\ split' = IF Cardinality(AwakeLeaders) < 2 THEN 0
                ELSE IF split < SplitCap THEN split + 1 ELSE split
    /\ UNCHANGED <<phase, leader, known, crashes, suspends>>

Timers(t) == TickLeading(t) \/ TickFollowing(t) \/ TickClaiming(t) \/ Confirm(t)
Messages(t) == OnHeartbeat(t) \/ OnClaim(t) \/ OnResign(t)
Environment(t) ==
    Join(t) \/ Dispose(t) \/ Crash(t) \/ Suspend(t) \/ Wake(t) \/ Lose(t)

Next ==
    \/ \E t \in Tab : Timers(t) \/ Messages(t) \/ Environment(t)
    \/ Advance

\* The browser keeps firing due timers and delivering messages, time passes,
\* and a suspended tab is woken in the end.  Nothing makes a tab join, close,
\* crash or sleep.
Fairness ==
    /\ WF_vars(Advance)
    /\ \A t \in Tab : WF_vars(Timers(t)) /\ WF_vars(Messages(t)) /\ WF_vars(Wake(t))

Spec == Init /\ [][Next]_vars /\ Fairness

----------------------------------------------------------------------------
\* Every variable keeps its type.
TypeOK ==
    /\ phase \in [Tab -> {"unborn", "awake", "suspended", "disposed", "crashed"}]
    /\ leader \in [Tab -> BOOLEAN]
    /\ known \in [Tab -> Tab \cup {NoTab}]
    /\ silent \in [Tab -> 0..Timeout]
    /\ timer \in [Tab -> Timer]
    /\ inbox \in [Tab -> Seq(Message)]
    /\ crashes \in 0..MaxCrashes
    /\ suspends \in 0..MaxSuspends
    /\ split \in 0..SplitCap

\* Whenever the tabs have nothing left to do at this instant, at most one awake
\* tab leads.
SettledSingleLeader == Settled => Cardinality(AwakeLeaders) <= 1

\* Two tabs never both lead for longer than a heartbeat and its delivery.
SplitHeals == split <= Heartbeat + Delay

\* Once tabs stop coming and going, exactly one of those left leads for good.
ElectsOne == <>[](Open # {} => Cardinality(Leaders) = 1)

----------------------------------------------------------------------------
\* Proofs, for every set of tabs and every timing: the state is typed; with prompt delivery and
\* nobody suspended one leads once all is settled; and of two tabs one gives way in time.


----------------------------------------------------------------------------
\* What waits in a queue, whatever its place.

Of(queue) == {queue[i] : i \in DOMAIN queue}
Mail(t) == Of(inbox[t])
Note(type, from) == [type |-> type, from |-> from, left |-> Delay]

\* A queue's content after one more message, or one less.
LEMMA QueueContent ==
    ASSUME NEW q \in Seq(Message)
    PROVE  /\ \A m \in Message : Of(Append(q, m)) = Of(q) \cup {m}
           /\ Of(q) \subseteq Message
           /\ q # <<>> => /\ Head(q) \in Message
                          /\ Tail(q) \in Seq(Message)
                          /\ Of(q) = {Head(q)} \cup Of(Tail(q))
           /\ Of(<<>>) = {}
  <1>1. ASSUME NEW m \in Message PROVE Of(Append(q, m)) = Of(q) \cup {m}
    <2>1. /\ Len(Append(q, m)) = Len(q) + 1
          /\ \A i \in 1..Len(q) : Append(q, m)[i] = q[i]
          /\ Append(q, m)[Len(q) + 1] = m
          /\ Append(q, m) \in Seq(Message)
      BY <1>1, AppendProperties
    <2>2. /\ DOMAIN Append(q, m) = 1..Len(q) + 1
          /\ DOMAIN q = 1..Len(q) /\ Len(q) \in Nat
      BY <2>1, LenProperties
    <2>3. \A i \in 1..Len(q) + 1 : i \in 1..Len(q) \/ i = Len(q) + 1
      BY <2>2
    <2>4. Of(Append(q, m)) \subseteq Of(q) \cup {m}
      BY <2>1, <2>2, <2>3 DEF Of
    <2>5. Len(q) + 1 \in DOMAIN Append(q, m) /\ DOMAIN q \subseteq DOMAIN Append(q, m)
      BY <2>2
    <2>6. Of(q) \cup {m} \subseteq Of(Append(q, m))
      BY <2>1, <2>2, <2>5 DEF Of
    <2>7. QED
      BY <2>4, <2>6
  <1>2. Of(q) \subseteq Message
    BY DEF Of
  <1>3. ASSUME q # <<>>
        PROVE  /\ Head(q) \in Message
               /\ Tail(q) \in Seq(Message)
               /\ Of(q) = {Head(q)} \cup Of(Tail(q))
    <2>1. /\ Tail(q) \in Seq(Message)
          /\ Len(Tail(q)) = Len(q) - 1
          /\ \A i \in 1..Len(Tail(q)) : Tail(q)[i] = q[i + 1]
          /\ Head(q) \in Message /\ Head(q) = q[1]
      BY <1>3, HeadTailProperties
    <2>2. DOMAIN q = 1..Len(q) /\ DOMAIN Tail(q) = 1..Len(q) - 1 /\ Len(q) \in Nat \ {0}
      BY <1>3, <2>1, LenProperties, EmptySeq
    <2>3. ASSUME NEW i \in 1..Len(q) PROVE q[i] \in {Head(q)} \cup Of(Tail(q))
      <3>1. CASE i = 1
        BY <2>1, <3>1
      <3>2. CASE i # 1
        <4>1. i - 1 \in DOMAIN Tail(q) /\ q[i] = Tail(q)[i - 1]
          BY <2>1, <2>2, <2>3, <3>2
        <4>2. QED
          BY <4>1 DEF Of
      <3>3. QED
        BY <3>1, <3>2
    <2>4. \A i \in DOMAIN Tail(q) : i + 1 \in DOMAIN q /\ Tail(q)[i] = q[i + 1]
      BY <2>1, <2>2
    <2>5. 1 \in DOMAIN q
      BY <2>2
    <2>6. Of(q) \subseteq {Head(q)} \cup Of(Tail(q))
      BY <2>2, <2>3 DEF Of
    <2>7. {Head(q)} \cup Of(Tail(q)) \subseteq Of(q)
      BY <2>1, <2>4, <2>5 DEF Of
    <2>8. QED
      BY <2>1, <2>6, <2>7
  <1>4. Of(<<>>) = {}
    BY DEF Of
  <1>5. QED
    BY <1>1, <1>2, <1>3, <1>4

\* transport.post() adds the message to what waits for every tab that accepts it.
LEMMA PostedContent ==
    ASSUME Parameters, NEW queues \in [Tab -> Seq(Message)], NEW f \in Tab,
           NEW type \in MessageType
    PROVE  /\ Note(type, f) \in Message
           /\ Posted(queues, f, type) \in [Tab -> Seq(Message)]
           /\ \A u \in Tab : Of(Posted(queues, f, type)[u])
                 = Of(queues[u]) \cup (IF Accepts(u, f) THEN {Note(type, f)} ELSE {})
  <1>1. Note(type, f) \in Message
    BY DEF Note, Message, Parameters, TimesPositive
  <1>2. \A u \in Tab : Append(queues[u], Note(type, f)) \in Seq(Message)
    BY <1>1
  <1>3. Posted(queues, f, type)
          = [u \in Tab |-> IF Accepts(u, f) THEN Append(queues[u], Note(type, f)) ELSE queues[u]]
    BY DEF Posted, Note
  <1>4. Posted(queues, f, type) \in [Tab -> Seq(Message)]
    BY <1>2, <1>3
  <1>5. ASSUME NEW u \in Tab
        PROVE  Of(Posted(queues, f, type)[u])
                 = Of(queues[u]) \cup (IF Accepts(u, f) THEN {Note(type, f)} ELSE {})
    <2>1. CASE Accepts(u, f)
      <3>1. Posted(queues, f, type)[u] = Append(queues[u], Note(type, f))
        BY <1>3, <2>1
      <3>2. QED
        BY <1>1, <2>1, <3>1, QueueContent
    <2>2. CASE ~Accepts(u, f)
      <3>1. Posted(queues, f, type)[u] = queues[u]
        BY <1>3, <2>2
      <3>2. QED
        BY <2>2, <3>1
    <2>3. QED
      BY <2>1, <2>2
  <1>6. QED
    BY <1>1, <1>4, <1>5

\* Handling takes the first message out of the tab's own queue.
LEMMA HandledContent ==
    ASSUME TypeOK, NEW t \in Tab, inbox[t] # <<>>
    PROVE  /\ Handled(t) \in [Tab -> Seq(Message)]
           /\ Head(inbox[t]) \in Message
           /\ Mail(t) = {Head(inbox[t])} \cup Of(Handled(t)[t])
           /\ \A u \in Tab \ {t} : Handled(t)[u] = inbox[u]
  <1>1. inbox \in [Tab -> Seq(Message)]
    BY DEF TypeOK
  <1>2. /\ Head(inbox[t]) \in Message /\ Tail(inbox[t]) \in Seq(Message)
        /\ Of(inbox[t]) = {Head(inbox[t])} \cup Of(Tail(inbox[t]))
    BY <1>1, QueueContent
  <1>3. Handled(t)[t] = Tail(inbox[t]) /\ Handled(t) \in [Tab -> Seq(Message)]
    BY <1>1, <1>2 DEF Handled
  <1>4. \A u \in Tab \ {t} : Handled(t)[u] = inbox[u]
    BY <1>1 DEF Handled
  <1>5. QED
    BY <1>2, <1>3, <1>4 DEF Mail

\* As time passes every message comes one unit nearer.
LEMMA AdvanceContent ==
    ASSUME Parameters, TypeOK, Advance
    PROVE  /\ inbox' \in [Tab -> Seq(Message)]
           /\ \A u \in Tab : Mail(u)' = {[m EXCEPT !.left = Sooner(@)] : m \in Mail(u)}
  <1>1. inbox \in [Tab -> Seq(Message)]
    BY DEF TypeOK
  <1>2. inbox' = [u \in Tab |-> [i \in DOMAIN inbox[u] |-> [inbox[u][i] EXCEPT !.left = Sooner(@)]]]
    BY DEF Advance
  <1>3. \A m \in Message : [m EXCEPT !.left = Sooner(@)] \in Message
    BY DEF Message, Sooner, Parameters, TimesPositive
  <1>4. ASSUME NEW u \in Tab
        PROVE  /\ inbox'[u] \in Seq(Message)
               /\ Of(inbox'[u]) = {[m EXCEPT !.left = Sooner(@)] : m \in Of(inbox[u])}
    <2>1. inbox[u] \in Seq(Message)
      BY <1>1
    <2>2. DOMAIN inbox[u] = 1..Len(inbox[u]) /\ Len(inbox[u]) \in Nat
      BY <2>1, LenProperties
    <2>3. inbox'[u] = [i \in DOMAIN inbox[u] |-> [inbox[u][i] EXCEPT !.left = Sooner(@)]]
      BY <1>2
    <2>4. \A i \in 1..Len(inbox[u]) : [inbox[u][i] EXCEPT !.left = Sooner(@)] \in Message
      BY <1>3, <2>1, ElementOfSeq
    <2>5. inbox'[u] \in Seq(Message)
      BY <2>2, <2>3, <2>4
    <2>6. Of(inbox'[u]) = {[m EXCEPT !.left = Sooner(@)] : m \in Of(inbox[u])}
      BY <2>3 DEF Of
    <2>7. QED
      BY <2>5, <2>6
  <1>5. inbox' \in [Tab -> Seq(Message)]
    BY <1>2, <1>4
  <1>6. QED
    BY <1>4, <1>5 DEF Mail

----------------------------------------------------------------------------
\* Type correctness.

\* Nobody has joined yet, and every clock and inbox is in its type.
LEMMA TypedInit == Parameters /\ Init => TypeOK
  <1> SUFFICES ASSUME Parameters, Init PROVE TypeOK
    OBVIOUS
  <1>1. inbox \in [Tab -> Seq(Message)]
    BY DEF Init
  <1>2. In("tick", Heartbeat) \in Timer
    BY DEF In, Timer, Parameters, TimesPositive
  <1>3. QED
    BY <1>1, <1>2 DEF Init, TypeOK, Parameters, TimesPositive, BoundsNatural

\* No action leaves the types, one step per kind of action.
LEMMA TypedStep == Parameters /\ TypeOK /\ [Next]_vars => TypeOK'
  <1> SUFFICES ASSUME Parameters, TypeOK, [Next]_vars PROVE TypeOK'
    OBVIOUS
  <1> USE DEF Parameters, TimesPositive, BoundsNatural
  <1>1. \A fires \in {"tick", "confirm"} : In(fires, Heartbeat) \in Timer
    BY DEF In, Timer
  <1>2. inbox \in [Tab -> Seq(Message)]
    BY DEF TypeOK
  <1>3. \A f \in Tab, type \in MessageType : Posted(inbox, f, type) \in [Tab -> Seq(Message)]
    BY <1>2, PostedContent
  <1>4. ASSUME NEW t \in Tab, inbox[t] # <<>>
        PROVE  /\ Handled(t) \in [Tab -> Seq(Message)]
               /\ Head(inbox[t]) \in Message
               /\ \A f \in Tab, type \in MessageType :
                     Posted(Handled(t), f, type) \in [Tab -> Seq(Message)]
    BY <1>4, HandledContent, PostedContent
  <1>5. {"heartbeat", "claim", "resign"} \subseteq MessageType
    BY DEF MessageType
  <1>6. ASSUME NEW t \in Tab, Timers(t)
        PROVE  TypeOK'
    <2>1. timer' \in [Tab -> Timer]
      BY <1>1, <1>6 DEF Timers, TickLeading, TickFollowing, TickClaiming, Confirm, TypeOK
    <2>2. inbox' \in [Tab -> Seq(Message)]
      BY <1>2, <1>3, <1>5, <1>6
         DEF Timers, TickLeading, TickFollowing, TickClaiming, Confirm
    <2>3. /\ phase' = phase /\ crashes' = crashes /\ suspends' = suspends /\ split' = split
          /\ known' = known \/ known' = [known EXCEPT ![t] = t]
          /\ silent' = silent \/ silent' = [silent EXCEPT ![t] = 0]
      BY <1>6 DEF Timers, TickLeading, TickFollowing, TickClaiming, Confirm
    <2>4. leader' \in [Tab -> BOOLEAN]
      BY <1>6, Zenon DEF Timers, TickLeading, TickFollowing, TickClaiming, Confirm, TypeOK
    <2>5. known' \in [Tab -> Tab \cup {NoTab}] /\ silent' \in [Tab -> 0..Timeout]
      <3>1. known' \in [Tab -> Tab \cup {NoTab}]
        BY <2>3, Zenon DEF TypeOK
      <3>2. 0 \in 0..Timeout
        OBVIOUS
      <3>3. silent' \in [Tab -> 0..Timeout]
        BY <2>3, <3>2, Zenon DEF TypeOK
      <3>4. QED
        BY <3>1, <3>3
    <2>6. QED
      BY <2>1, <2>2, <2>3, <2>4, <2>5 DEF TypeOK
  <1>7. ASSUME NEW t \in Tab, Messages(t)
        PROVE  TypeOK'
    <2>1. inbox[t] # <<>>
      BY <1>7 DEF Messages, OnHeartbeat, OnClaim, OnResign, Incoming
    <2>2. Head(inbox[t]).from \in Tab
      BY <1>4, <2>1 DEF Message
    <2>3. inbox' \in [Tab -> Seq(Message)]
      BY <1>4, <1>5, <1>7, <2>1 DEF Messages, OnHeartbeat, OnClaim, OnResign
    <2>4. /\ phase' = phase /\ crashes' = crashes /\ suspends' = suspends /\ split' = split
          /\ timer' = timer
          /\ \/ known' = known
             \/ known' = [known EXCEPT ![t] = Head(inbox[t]).from]
             \/ known' = [known EXCEPT ![t] = NoTab]
          /\ \/ silent' = silent
             \/ silent' = [silent EXCEPT ![t] = 0]
             \/ silent' = [silent EXCEPT ![t] = Timeout]
      BY <1>7 DEF Messages, OnHeartbeat, OnClaim, OnResign
    <2>5. leader' \in [Tab -> BOOLEAN]
      <3>1. CASE OnHeartbeat(t)
        <4> DEFINE stays == leader[t] /\ Head(inbox[t]).from >= t
        <4>1. leader' = [leader EXCEPT ![t] = stays]
          BY <3>1, Zenon DEF OnHeartbeat
        <4>2. stays \in BOOLEAN
          BY DEF TypeOK
        <4> HIDE DEF stays
        <4>3. QED
          BY <4>1, <4>2, Zenon DEF TypeOK
      <3>2. CASE leader' = leader
        BY <3>2 DEF TypeOK
      <3>3. QED
        BY <1>7, <3>1, <3>2, Zenon DEF Messages, OnClaim, OnResign
    <2>6. known' \in [Tab -> Tab \cup {NoTab}] /\ silent' \in [Tab -> 0..Timeout]
      <3>1. known' \in [Tab -> Tab \cup {NoTab}]
        BY <2>2, <2>4, Zenon DEF TypeOK
      <3>2. 0 \in 0..Timeout /\ Timeout \in 0..Timeout
        OBVIOUS
      <3>3. silent' \in [Tab -> 0..Timeout]
        BY <2>4, <3>2, Zenon DEF TypeOK
      <3>4. QED
        BY <3>1, <3>3
    <2>7. QED
      BY <2>3, <2>4, <2>5, <2>6 DEF TypeOK
  <1>8. ASSUME NEW t \in Tab, Environment(t)
        PROVE  TypeOK'
    <2>1. inbox' \in [Tab -> Seq(Message)]
      <3>1. ASSUME NEW queues \in [Tab -> Seq(Message)]
            PROVE  [queues EXCEPT ![t] = <<>>] \in [Tab -> Seq(Message)]
        OBVIOUS
      <3>2. CASE Dispose(t)
        <4>1. (IF leader[t] THEN Posted(inbox, t, "resign") ELSE inbox)
                 \in [Tab -> Seq(Message)]
          BY <1>2, <1>3, <1>5
        <4>2. QED
          BY <3>1, <3>2, <4>1, Zenon DEF Dispose
      <3>3. CASE Crash(t)
        BY <1>2, <3>1, <3>3, Zenon DEF Crash
      <3>4. CASE Lose(t)
        BY <1>4, <3>4 DEF Lose
      <3>5. CASE Join(t) \/ Suspend(t) \/ Wake(t)
        BY <1>2, <3>5 DEF Join, Suspend, Wake
      <3>6. QED
        BY <1>8, <3>2, <3>3, <3>4, <3>5 DEF Environment
    <2>2. phase' \in [Tab -> {"unborn", "awake", "suspended", "disposed", "crashed"}]
      BY <1>8 DEF Environment, Join, Dispose, Crash, Suspend, Wake, Lose, TypeOK
    <2>3. leader' \in [Tab -> BOOLEAN]
      BY <1>8, Zenon DEF Environment, Join, Dispose, Crash, Suspend, Wake, Lose, TypeOK
    <2>4. UNCHANGED <<known, silent, timer, split>>
      BY <1>8 DEF Environment, Join, Dispose, Crash, Suspend, Wake, Lose
    <2>5. crashes' \in 0..MaxCrashes /\ suspends' \in 0..MaxSuspends
      BY <1>8 DEF Environment, Join, Dispose, Crash, Suspend, Wake, Lose, TypeOK
    <2>6. QED
      BY <2>1, <2>2, <2>3, <2>4, <2>5 DEF TypeOK
  <1>9. CASE Advance
    <2>1. inbox' \in [Tab -> Seq(Message)]
      BY <1>9, AdvanceContent
    <2>2. timer' \in [Tab -> Timer]
      <3>1. \A m \in Timer : [m EXCEPT !.left = Sooner(@)] \in Timer
        BY DEF Timer, Sooner
      <3>2. QED
        BY <1>9, <3>1, Zenon DEF Advance, TypeOK
    <2>3. silent' \in [Tab -> 0..Timeout]
      BY <1>9 DEF Advance, TypeOK
    <2>4. split' \in 0..SplitCap
      BY <1>9 DEF Advance, TypeOK
    <2>5. UNCHANGED <<phase, leader, known, crashes, suspends>>
      BY <1>9 DEF Advance
    <2>6. QED
      BY <2>1, <2>2, <2>3, <2>4, <2>5 DEF TypeOK
  <1>10. CASE UNCHANGED vars
    BY <1>10 DEF vars, TypeOK
  <1>11. QED
    BY <1>6, <1>7, <1>8, <1>9, <1>10 DEF Next

----------------------------------------------------------------------------
\* What holds whatever the timing.  A leader waits for its next tick, so a tab that confirms is no
\* leader yet; nobody hears from itself; and who has resigned is gone.

Regular ==
    /\ TypeOK
    /\ \A t \in Tab : leader[t] => t \in Open /\ timer[t].fires = "tick"
    /\ \A t \in Tab : phase[t] = "unborn" => timer[t] = In("tick", Heartbeat)
    /\ \A t \in Tab : \A m \in Mail(t) :
          m.from # t /\ (m.type = "resign" => phase[m.from] = "disposed")

\* t has claimed the role and knows of nothing that speaks against it.
Claiming(t) == timer[t].fires = "confirm" /\ known[t] = t

----------------------------------------------------------------------------
\* A crowd with prompt delivery and nobody suspended.

Heard(t, type, from) == \E m \in Mail(t) : m.type = type /\ m.from = from

\* A claim that has not met a leader's heartbeat is on its way to that leader, since this instant.
ClaimsMeet ==
    \A a, t \in Awake : leader[a] /\ a # t /\ Claiming(t) =>
        \/ Heard(t, "heartbeat", a)
        \/ Heard(a, "claim", t) /\ timer[t].left = Heartbeat

\* Of two leaders the larger is about to hear the smaller.
LeadersMeet ==
    \A a, t \in Awake : leader[a] /\ leader[t] /\ a < t => Heard(t, "heartbeat", a)

CrowdInv ==
    /\ Regular
    /\ \A t \in Tab : phase[t] # "suspended"
    /\ ClaimsMeet
    /\ LeadersMeet

----------------------------------------------------------------------------
\* Two tabs with delayed delivery, one of which is suspended once.

\* t is about to hear the heartbeat that a posted as it set the timer it now waits for.
Echo(a, t) ==
    \E m \in Mail(t) : /\ m.type = "heartbeat" /\ m.from = a
                       /\ timer[a].left - m.left = Heartbeat - Delay

\* With nobody suspended so far, whoever waits for its timer beside a leader will have heard from
\* it before it leads: the heartbeat is under way, the leader's next comes before the claim is
\* confirmed, or the tab does not claim and has heard the last one or waits for longer.
LeaderIsHeard ==
    suspends = 0 =>
        \A a, t \in Awake : leader[a] /\ a # t =>
            \/ Echo(a, t)
            \/ timer[t].fires = "confirm" /\ timer[a].left + Delay < timer[t].left
            \/ /\ ~Claiming(t)
               /\ \/ silent[t] <= Heartbeat - timer[a].left
                  \/ timer[t].fires = "tick" /\ timer[a].left <= timer[t].left

\* With nobody suspended so far, two lead for no longer than a heartbeat takes to arrive.
SplitIsNew ==
    suspends = 0 =>
        \A a, t \in Awake : leader[a] /\ leader[t] /\ a < t =>
            Echo(a, t) /\ split <= Heartbeat - timer[a].left

\* Whoever confirms did not lead while time last passed.
ConfirmsAlone == \A t \in Tab : timer[t].fires = "confirm" /\ timer[t].left < Heartbeat => split = 0

\* Once somebody was suspended: the split is as old as the smaller leader's timer, or the larger
\* is about to hear from it; and no timer fires in the instant a suspension begins.
SplitIsBounded ==
    suspends > 0 =>
        \A a, t \in Open : leader[a] /\ leader[t] /\ a < t =>
            IF {a, t} \subseteq Awake
            THEN \/ split <= Heartbeat - timer[a].left
                 \/ \E m \in Mail(t) : /\ m.type = "heartbeat" /\ m.from = a
                                       /\ split + m.left <= Heartbeat + Delay
            ELSE split = 0 \/ (timer[a].left > 0 /\ split <= Heartbeat - timer[a].left)

PairInv ==
    /\ Regular
    /\ suspends = 0 => \A t \in Tab : phase[t] # "suspended"
    /\ LeaderIsHeard
    /\ SplitIsNew
    /\ ConfirmsAlone
    /\ SplitIsBounded
    /\ SplitHeals

----------------------------------------------------------------------------
\* What each action does to what waits for every tab.

Told(t, type) ==
    \A u \in Tab : Mail(u)' = Mail(u) \cup (IF Accepts(u, t) THEN {Note(type, t)} ELSE {})
Untold == \A u \in Tab : Mail(u)' = Mail(u)
Taken(t) ==
    /\ Head(inbox[t]) \in Message
    /\ Mail(t) = {Head(inbox[t])} \cup Mail(t)'
    /\ \A u \in Tab \ {t} : Mail(u)' = Mail(u)
Answered(t) ==
    /\ Head(inbox[t]) \in Message
    /\ Mail(t) = {Head(inbox[t])} \cup Mail(t)'
    /\ \A u \in Tab \ {t} :
          Mail(u)' = Mail(u) \cup (IF Accepts(u, t) THEN {Note("heartbeat", t)} ELSE {})
Emptied(t) == Mail(t)' = {} /\ \A u \in Tab \ {t} : Mail(u)' = Mail(u)
Resigned(t) ==
    /\ Mail(t)' = {}
    /\ \A u \in Tab \ {t} :
          Mail(u)' = Mail(u) \cup (IF Accepts(u, t) THEN {Note("resign", t)} ELSE {})

\* Timers post heartbeats and claims.
LEMMA TimerMail ==
    ASSUME Parameters, TypeOK, NEW t \in Tab
    PROVE  /\ TickLeading(t) => Told(t, "heartbeat")
           /\ TickFollowing(t) => Untold
           /\ TickClaiming(t) => Told(t, "claim")
           /\ Confirm(t) => IF known[t] = t THEN Told(t, "heartbeat") ELSE Untold
  <1>1. inbox \in [Tab -> Seq(Message)]
    BY DEF TypeOK
  <1>2. ASSUME NEW type \in {"heartbeat", "claim"}, inbox' = Posted(inbox, t, type)
        PROVE  Told(t, type)
    <2>1. type \in MessageType
      BY DEF MessageType
    <2>2. \A u \in Tab : Of(Posted(inbox, t, type)[u])
             = Of(inbox[u]) \cup (IF Accepts(u, t) THEN {Note(type, t)} ELSE {})
      BY <1>1, <2>1, PostedContent, ZenonT(40)
    <2>3. QED
      BY <1>2, <2>2, Zenon DEF Told, Mail
  <1>3. inbox' = inbox => Untold
    BY DEF Untold, Mail
  <1>4. QED
    BY <1>2, <1>3 DEF TickLeading, TickFollowing, TickClaiming, Confirm

\* Handling a message takes it away, and a leader answers a claim.
LEMMA MessageMail ==
    ASSUME Parameters, TypeOK, NEW t \in Tab
    PROVE  /\ OnHeartbeat(t) \/ OnResign(t) \/ Lose(t) => Taken(t)
           /\ OnClaim(t) => IF leader[t] THEN Answered(t) ELSE Taken(t)
  <1>1. ASSUME inbox[t] # <<>>, inbox' = Handled(t) PROVE Taken(t)
    BY <1>1, HandledContent DEF Taken, Mail
  <1>2. ASSUME inbox[t] # <<>>, inbox' = Posted(Handled(t), t, "heartbeat") PROVE Answered(t)
    <2>1. /\ Handled(t) \in [Tab -> Seq(Message)] /\ Head(inbox[t]) \in Message
          /\ Mail(t) = {Head(inbox[t])} \cup Of(Handled(t)[t])
          /\ \A u \in Tab \ {t} : Handled(t)[u] = inbox[u]
      BY <1>2, HandledContent
    <2>2. \A u \in Tab : Of(Posted(Handled(t), t, "heartbeat")[u])
             = Of(Handled(t)[u]) \cup (IF Accepts(u, t) THEN {Note("heartbeat", t)} ELSE {})
      BY <2>1, PostedContent DEF MessageType
    <2>3. ~Accepts(t, t)
      BY DEF Accepts
    <2>4. Of(inbox'[t]) = Of(Handled(t)[t])
      BY <1>2, <2>2, <2>3
    <2>5. \A u \in Tab \ {t} : Of(inbox'[u])
             = Of(inbox[u]) \cup (IF Accepts(u, t) THEN {Note("heartbeat", t)} ELSE {})
      BY <1>2, <2>1, <2>2
    <2>6. QED
      BY <2>1, <2>4, <2>5 DEF Answered, Mail
  <1>3. QED
    BY <1>1, <1>2 DEF OnHeartbeat, OnResign, OnClaim, Lose, Incoming

\* Who leaves loses what waits for it.
LEMMA EnvironmentMail ==
    ASSUME Parameters, TypeOK, NEW t \in Tab
    PROVE  /\ Join(t) \/ Suspend(t) \/ Wake(t) => Untold
           /\ Crash(t) => Emptied(t)
           /\ Dispose(t) => IF leader[t] THEN Resigned(t) ELSE Emptied(t)
  <1>1. inbox \in [Tab -> Seq(Message)]
    BY DEF TypeOK
  <1>2. ASSUME inbox' = [inbox EXCEPT ![t] = <<>>] PROVE Emptied(t)
    <2>1. inbox'[t] = <<>> /\ \A u \in Tab \ {t} : inbox'[u] = inbox[u]
      BY <1>1, <1>2
    <2>2. Of(<<>>) = {}
      BY DEF Of
    <2>3. QED
      BY <2>1, <2>2, Zenon DEF Emptied, Mail
  <1>3. ASSUME inbox' = [Posted(inbox, t, "resign") EXCEPT ![t] = <<>>] PROVE Resigned(t)
    <2>1. /\ Posted(inbox, t, "resign") \in [Tab -> Seq(Message)]
          /\ \A u \in Tab : Of(Posted(inbox, t, "resign")[u])
                = Of(inbox[u]) \cup (IF Accepts(u, t) THEN {Note("resign", t)} ELSE {})
      BY <1>1, PostedContent DEF MessageType
    <2>2. /\ inbox'[t] = <<>>
          /\ \A u \in Tab \ {t} : inbox'[u] = Posted(inbox, t, "resign")[u]
      BY <1>3, <2>1
    <2>3. Of(<<>>) = {}
      BY DEF Of
    <2>4. QED
      BY <2>1, <2>2, <2>3 DEF Resigned, Mail
  <1>4. inbox' = inbox => Untold
    BY DEF Untold, Mail
  <1>5. QED
    BY <1>2, <1>3, <1>4 DEF Join, Suspend, Wake, Crash, Dispose

----------------------------------------------------------------------------
\* What holds whatever the timing is kept by every action.

\* Nobody has a timer, knows a leader or has mail.
LEMMA RegularInit == Parameters /\ Init => Regular /\ \A t \in Tab : Mail(t) = {}
  <1> SUFFICES ASSUME Parameters, Init PROVE Regular /\ \A t \in Tab : Mail(t) = {}
    OBVIOUS
  <1>1. TypeOK
    BY TypedInit
  <1>2. \A t \in Tab : Mail(t) = {}
    BY DEF Init, Mail, Of
  <1>3. QED
    BY <1>1, <1>2 DEF Init, Regular

\* The three clauses beside the types, one step per action.
LEMMA RegularStep == Parameters /\ Regular /\ [Next]_vars => Regular'
  <1> SUFFICES ASSUME Parameters, Regular, [Next]_vars PROVE Regular'
    OBVIOUS
  <1>1. TypeOK /\ TypeOK'
    BY TypedStep DEF Regular
  <1> DEFINE Orderly(t, m) == m.from # t /\ (m.type = "resign" => phase[m.from] = "disposed")
             OrderlyAfter(t, m) == m.from # t /\ (m.type = "resign" => phase'[m.from] = "disposed")
  <1>2. \A t \in Tab : \A m \in Mail(t) : Orderly(t, m) /\ m \in Message
    BY <1>1, QueueContent DEF Regular, TypeOK, Mail
  <1>3. \A m \in Message : m.from \in Tab
    BY DEF Message
  <1>4. SUFFICES /\ \A u \in Tab : leader'[u] => u \in Open' /\ timer'[u].fires = "tick"
                 /\ \A u \in Tab : phase'[u] = "unborn" => timer'[u] = In("tick", Heartbeat)
                 /\ \A u \in Tab : \A m \in Mail(u)' : OrderlyAfter(u, m)
    BY <1>1 DEF Regular
  <1>5. ASSUME NEW t \in Tab, Timers(t)
        PROVE  /\ \A u \in Tab : leader'[u] => u \in Open' /\ timer'[u].fires = "tick"
               /\ \A u \in Tab : phase'[u] = "unborn" => timer'[u] = In("tick", Heartbeat)
               /\ \A u \in Tab : \A m \in Mail(u)' : OrderlyAfter(u, m)
    <2>1. phase' = phase /\ t \in Awake
      BY <1>5 DEF Timers, TickLeading, TickFollowing, TickClaiming, Confirm, Due
    <2>2. \/ leader' = leader /\ timer' = [timer EXCEPT ![t] = In("tick", Heartbeat)]
          \/ leader' = leader /\ ~leader[t]
             /\ timer' = [timer EXCEPT ![t] = In("confirm", Heartbeat)]
          \/ /\ leader' = [leader EXCEPT ![t] = TRUE]
             /\ timer' = [timer EXCEPT ![t] = In("tick", Heartbeat)]
      BY <1>5 DEF Timers, TickLeading, TickFollowing, TickClaiming, Confirm
    <2>3. \A u \in Tab : leader'[u] => u \in Open' /\ timer'[u].fires = "tick"
      <3>1. \A u \in Tab : leader[u] => phase[u] \in {"awake", "suspended"} /\ timer[u].fires = "tick"
        BY DEF Regular, Open
      <3>2. phase[t] = "awake"
        BY <2>1 DEF Awake
      <3>3. \A u \in Tab \ {t} : leader'[u] = leader[u] /\ timer'[u] = timer[u]
        BY <1>1, <2>2, Zenon DEF TypeOK
      <3>4. leader'[t] => timer'[t] = In("tick", Heartbeat)
        BY <1>1, <2>2, Zenon DEF TypeOK
      <3>5. In("tick", Heartbeat).fires = "tick"
        BY DEF In
      <3>6. QED
        BY <2>1, <3>1, <3>2, <3>3, <3>4, <3>5, Zenon DEF Open
    <2>4. \A u \in Tab : phase'[u] = "unborn" => timer'[u] = In("tick", Heartbeat)
      BY <1>1, <2>1, <2>2 DEF Regular, TypeOK, Awake
    <2>5. Told(t, "heartbeat") \/ Told(t, "claim") \/ Untold
      BY <1>1, <1>5, TimerMail DEF Timers
    <2>6. \A u \in Tab : \A m \in Mail(u)' :
             m \in Mail(u) \/ (u # t /\ m.from = t /\ m.type \in {"heartbeat", "claim"})
      BY <2>5 DEF Told, Untold, Accepts, Note
    <2>7. QED
      BY <1>2, <2>1, <2>3, <2>4, <2>6
  <1>6. ASSUME NEW t \in Tab, Messages(t)
        PROVE  /\ \A u \in Tab : leader'[u] => u \in Open' /\ timer'[u].fires = "tick"
               /\ \A u \in Tab : phase'[u] = "unborn" => timer'[u] = In("tick", Heartbeat)
               /\ \A u \in Tab : \A m \in Mail(u)' : OrderlyAfter(u, m)
    <2>1. phase' = phase /\ timer' = timer
      BY <1>6 DEF Messages, OnHeartbeat, OnClaim, OnResign
    <2>2. \A u \in Tab : leader'[u] => leader[u]
      BY <1>1, <1>6 DEF Messages, OnHeartbeat, OnClaim, OnResign, TypeOK
    <2>3. Taken(t) \/ Answered(t)
      BY <1>1, <1>6, MessageMail DEF Messages
    <2>4. \A u \in Tab : \A m \in Mail(u)' :
             m \in Mail(u) \/ (u # t /\ m.from = t /\ m.type = "heartbeat")
      BY <2>3 DEF Taken, Answered, Note
    <2>5. QED
      BY <1>2, <2>1, <2>2, <2>4 DEF Regular, Open
  <1>7. ASSUME NEW t \in Tab, Environment(t)
        PROVE  /\ \A u \in Tab : leader'[u] => u \in Open' /\ timer'[u].fires = "tick"
               /\ \A u \in Tab : phase'[u] = "unborn" => timer'[u] = In("tick", Heartbeat)
               /\ \A u \in Tab : \A m \in Mail(u)' : OrderlyAfter(u, m)
    <2>1. timer' = timer
      BY <1>7 DEF Environment, Join, Dispose, Crash, Suspend, Wake, Lose
    <2>2. /\ \A u \in Tab \ {t} : phase'[u] = phase[u]
          /\ phase'[t] # "unborn"
          /\ phase[t] # "disposed"
          /\ Dispose(t) => phase'[t] = "disposed"
          /\ \A u \in Tab : leader'[u] => leader[u]
          /\ leader'[t] => phase'[t] \in {"awake", "suspended"}
      <3>1. CASE Dispose(t)
        <4>1. /\ phase' = [phase EXCEPT ![t] = "disposed"]
              /\ leader' = [leader EXCEPT ![t] = FALSE]
              /\ phase[t] = "awake"
          BY <3>1 DEF Dispose, Awake
        <4>2. QED
          BY <1>1, <4>1 DEF TypeOK
      <3>2. CASE Crash(t)
        <4>1. /\ phase' = [phase EXCEPT ![t] = "crashed"]
              /\ leader' = [leader EXCEPT ![t] = FALSE]
              /\ phase[t] \in {"awake", "suspended"}
          BY <3>2 DEF Crash, Open
        <4>2. QED
          BY <1>1, <3>2, <4>1 DEF TypeOK, Dispose
      <3>3. CASE Lose(t)
        BY <1>1, <3>3 DEF Lose, TypeOK, Dispose, Awake
      <3>4. CASE Join(t) \/ Suspend(t) \/ Wake(t)
        <4>1. /\ phase' = [phase EXCEPT ![t] = "awake"] \/ phase' = [phase EXCEPT ![t] = "suspended"]
              /\ leader' = leader
              /\ phase[t] # "disposed"
          BY <3>4 DEF Join, Suspend, Wake, Awake
        <4>2. QED
          BY <1>1, <4>1 DEF TypeOK, Dispose
      <3>5. QED
        BY <1>7, <3>1, <3>2, <3>3, <3>4 DEF Environment
    <2>3. Taken(t) \/ Emptied(t) \/ (Dispose(t) /\ Resigned(t)) \/ Untold
      BY <1>1, <1>7, MessageMail, EnvironmentMail DEF Environment
    <2>4. \A u \in Tab : \A m \in Mail(u)' :
             m \in Mail(u) \/ (Dispose(t) /\ u # t /\ m.from = t)
      BY <2>3 DEF Taken, Emptied, Resigned, Untold, Note
    <2>5. \A u \in Tab : \A m \in Mail(u)' : OrderlyAfter(u, m)
      BY <1>2, <1>3, <2>2, <2>4
    <2>6. QED
      BY <2>1, <2>2, <2>5 DEF Regular, Open
  <1>8. CASE Advance
    <2>1. /\ phase' = phase /\ leader' = leader
          /\ timer' = [t \in Tab |-> IF t \in Open THEN [timer[t] EXCEPT !.left = Sooner(@)]
                                     ELSE timer[t]]
      BY <1>8 DEF Advance
    <2>2. \A u \in Tab : timer[u] \in Timer
      BY <1>1 DEF TypeOK
    <2>3. \A u \in Tab : timer'[u].fires = timer[u].fires
      BY <2>1, <2>2 DEF Timer
    <2>4. \A u \in Tab : phase[u] = "unborn" => timer'[u] = timer[u]
      BY <2>1 DEF Open
    <2>5. \A u \in Tab : \A n \in Mail(u)' : \E m \in Mail(u) : n.from = m.from /\ n.type = m.type
      <3>1. \A u \in Tab : Mail(u)' = {[m EXCEPT !.left = Sooner(@)] : m \in Mail(u)}
        BY <1>1, <1>8, AdvanceContent
      <3>2. \A m \in Message : [m EXCEPT !.left = Sooner(@)].from = m.from
                               /\ [m EXCEPT !.left = Sooner(@)].type = m.type
        BY DEF Message
      <3>3. QED
        <4>1. \A u \in Tab : Mail(u) \subseteq Message
          BY <1>2
        <4> SUFFICES ASSUME NEW u \in Tab, NEW n \in Mail(u)'
                     PROVE  \E m \in Mail(u) : n.from = m.from /\ n.type = m.type
          OBVIOUS
        <4>2. PICK m \in Mail(u) : n = [m EXCEPT !.left = Sooner(@)]
          BY <3>1
        <4>3. QED
          BY <3>2, <4>1, <4>2
    <2>6. QED
      BY <1>2, <2>1, <2>3, <2>4, <2>5 DEF Regular, Open
  <1>9. CASE UNCHANGED vars
    BY <1>9 DEF vars, Regular, Open, Mail
  <1>10. QED
    BY <1>5, <1>6, <1>7, <1>8, <1>9 DEF Next

----------------------------------------------------------------------------
\* The crowd.

Prompt == Delay = 0 /\ MaxSuspends = 0

\* The crowd's invariant holds before anyone has joined.
LEMMA CrowdInit == Parameters /\ Init => CrowdInv
  <1> SUFFICES ASSUME Parameters, Init PROVE CrowdInv
    OBVIOUS
  <1>1. Regular
    BY RegularInit
  <1>2. \A t \in Tab : phase[t] = "unborn"
    BY DEF Init
  <1>3. Awake = {}
    BY <1>2 DEF Awake
  <1>4. QED
    BY <1>1, <1>2, <1>3 DEF CrowdInv, ClaimsMeet, LeadersMeet

\* A tab's awake peers accept what it posts, and what waits for a tab are messages of others.
LEMMA PeersAccept ==
    ASSUME Parameters, Regular, NEW t \in Tab
    PROVE  /\ \A u \in Awake : u # t => Accepts(u, t)
           /\ ~Accepts(t, t)
           /\ t \in Nat /\ t # NoTab /\ known[t] \in Tab \cup {NoTab}
           /\ \A m \in Mail(t) : m \in Message /\ m.from \in Tab /\ m.from # t
  <1>1. \A m \in Mail(t) : m \in Message
    BY QueueContent DEF Regular, TypeOK, Mail
  <1>2. QED
    BY <1>1 DEF Accepts, Awake, Open, Parameters, TabsOrdered, NoTab, Regular, TypeOK, Message

\* Timers: a new claim is on its way to every leader, a new leader's heartbeat to everyone.
LEMMA CrowdTimers ==
    ASSUME Parameters, Prompt, CrowdInv, NEW s \in Tab, Timers(s)
    PROVE  ClaimsMeet' /\ LeadersMeet'
  <1>1. TypeOK /\ Regular /\ Heartbeat \in Nat \ {0}
    BY DEF CrowdInv, Regular, Parameters, TimesPositive
  <1>2. /\ phase' = phase /\ s \in Awake
        /\ \A u \in Tab \ {s} : timer'[u] = timer[u] /\ known'[u] = known[u] /\ leader'[u] = leader[u]
    BY <1>1 DEF Timers, TickLeading, TickFollowing, TickClaiming, Confirm, Due, TypeOK
  <1>3. \A u \in Tab : Mail(u) \subseteq Mail(u)'
    BY <1>1, TimerMail DEF Timers, Told, Untold
  <1>4. \A u, f \in Tab : \A type : Heard(u, type, f) => Heard(u, type, f)'
    BY <1>3 DEF Heard
  <1>5. Awake' = Awake /\ Awake \subseteq Tab
    BY <1>2 DEF Awake
  <1>6. ASSUME NEW type, Told(s, type), NEW u \in Awake, u # s
        PROVE  Heard(u, type, s)'
    <2>1. Accepts(u, s) /\ u \in Tab
      BY <1>1, <1>5, <1>6, PeersAccept
    <2>2. Note(type, s) \in Mail(u)'
      BY <1>6, <2>1 DEF Told
    <2>3. Note(type, s).type = type /\ Note(type, s).from = s
      BY DEF Note
    <2>4. QED
      BY <2>2, <2>3 DEF Heard
  <1>7. CASE TickLeading(s) \/ TickFollowing(s) \/ (Confirm(s) /\ known[s] # s)
    <2>1. leader' = leader /\ timer'[s].fires = "tick"
      BY <1>1, <1>7 DEF TickLeading, TickFollowing, Confirm, TypeOK, In
    <2>2. QED
      BY <1>2, <1>4, <1>5, <2>1 DEF CrowdInv, ClaimsMeet, LeadersMeet, Claiming
  <1>8. CASE TickClaiming(s)
    <2>1. leader' = leader /\ timer'[s] = In("confirm", Heartbeat) /\ ~leader[s]
      BY <1>1, <1>8 DEF TickClaiming, TypeOK
    <2>2. \A u \in Awake : u # s => Heard(u, "claim", s)'
      BY <1>1, <1>6, <1>8, TimerMail
    <2>3. timer'[s].left = Heartbeat
      BY <2>1 DEF In
    <2>4. LeadersMeet'
      BY <1>4, <1>5, <2>1 DEF CrowdInv, LeadersMeet
    <2>5. ClaimsMeet'
      BY <1>2, <1>4, <1>5, <2>1, <2>2, <2>3 DEF CrowdInv, ClaimsMeet, Claiming
    <2>6. QED
      BY <2>4, <2>5
  <1>9. CASE Confirm(s) /\ known[s] = s
    <2>1. /\ timer'[s].fires = "tick"
          /\ timer[s].left = 0 /\ timer[s].fires = "confirm"
      BY <1>1, <1>9 DEF Confirm, Due, TypeOK, In
    <2>2. \A u \in Awake : u # s => Heard(u, "heartbeat", s)'
      BY <1>1, <1>6, <1>9, TimerMail
    <2>3. \A u \in Awake : leader[u] /\ u # s => Heard(s, "heartbeat", u)'
      BY <1>1, <1>2, <1>4, <1>5, <1>9, <2>1 DEF CrowdInv, ClaimsMeet, Claiming
    <2>4. ClaimsMeet'
      BY <1>2, <1>4, <1>5, <2>1, <2>2 DEF CrowdInv, ClaimsMeet, Claiming
    <2>5. \A u \in Tab : u \in Nat
      BY DEF Parameters, TabsOrdered
    <2>6. LeadersMeet'
      BY <1>2, <1>4, <1>5, <2>2, <2>3, <2>5 DEF CrowdInv, LeadersMeet
    <2>7. QED
      BY <2>4, <2>6
  <1>10. QED
    BY <1>7, <1>8, <1>9 DEF Timers

\* Messages: a heartbeat ends a claim or a larger leader, and a leader answers a claim.
LEMMA CrowdMessages ==
    ASSUME Parameters, Prompt, CrowdInv, NEW s \in Tab, Messages(s)
    PROVE  ClaimsMeet' /\ LeadersMeet'
  <1> DEFINE head == Head(inbox[s])
  <1>1. TypeOK /\ Regular
    BY DEF CrowdInv, Regular
  <1>2. /\ phase' = phase /\ timer' = timer
        /\ \A u \in Tab \ {s} : known'[u] = known[u] /\ leader'[u] = leader[u]
    BY <1>1 DEF Messages, OnHeartbeat, OnClaim, OnResign, TypeOK
  <1>3. Awake' = Awake /\ Awake \subseteq Tab
    BY <1>2 DEF Awake
  <1>4. /\ head \in Mail(s) /\ head.from \in Tab /\ head.from # s /\ s # NoTab
        /\ \A u \in Tab : Mail(u) \ (IF u = s THEN {head} ELSE {}) \subseteq Mail(u)'
    <2>1. /\ head \in Mail(s)
          /\ \A u \in Tab : Mail(u) \ (IF u = s THEN {head} ELSE {}) \subseteq Mail(u)'
      BY <1>1, MessageMail DEF Messages, Taken, Answered
    <2>2. QED
      BY <1>1, <2>1, PeersAccept
  <1> HIDE DEF head
  <1>5. \A u, f \in Tab : \A type :
           Heard(u, type, f) /\ (u # s \/ head.type # type \/ head.from # f) => Heard(u, type, f)'
    BY <1>4 DEF Heard
  <1>6. \A u \in Tab : u \in Nat
    BY DEF Parameters, TabsOrdered
  <1>7. CASE OnHeartbeat(s)
    <2>1. /\ head.type = "heartbeat" /\ known'[s] = head.from
          /\ leader'[s] => leader[s] /\ head.from >= s
      BY <1>1, <1>7 DEF OnHeartbeat, Incoming, TypeOK, head
    <2>2. ~Claiming(s)'
      BY <1>4, <2>1 DEF Claiming
    <2>3. \A u \in Tab \ {s} : Claiming(u)' = Claiming(u)
      BY <1>2 DEF Claiming
    <2>4. ClaimsMeet'
      BY <1>2, <1>3, <1>5, <2>1, <2>2, <2>3 DEF CrowdInv, ClaimsMeet
    <2>5. LeadersMeet'
      BY <1>2, <1>3, <1>4, <1>5, <1>6, <2>1 DEF CrowdInv, LeadersMeet
    <2>6. QED
      BY <2>4, <2>5
  <1>8. CASE OnClaim(s) /\ leader[s]
    <2>1. head.type = "claim" /\ known' = known /\ leader' = leader
      BY <1>1, <1>8 DEF OnClaim, Incoming, head
    <2>2. ~Claiming(s)
      BY <1>8 DEF CrowdInv, Regular, Claiming
    <2>3. \A u \in Awake : u # s => Heard(u, "heartbeat", s)'
      <3>1. Note("heartbeat", s).type = "heartbeat" /\ Note("heartbeat", s).from = s
        BY DEF Note
      <3>2. \A u \in Awake : u # s => Accepts(u, s)
        BY <1>1, PeersAccept
      <3>3. \A u \in Awake : u # s => Note("heartbeat", s) \in Mail(u)'
        BY <1>1, <1>3, <1>8, <3>2, MessageMail DEF Answered
      <3>4. QED
        BY <3>1, <3>3 DEF Heard
    <2>4. LeadersMeet'
      BY <1>3, <1>5, <2>1 DEF CrowdInv, LeadersMeet
    <2>5. ClaimsMeet'
      BY <1>2, <1>3, <1>5, <2>1, <2>2, <2>3 DEF CrowdInv, ClaimsMeet, Claiming
    <2>6. QED
      BY <2>4, <2>5
  <1>9. CASE (OnClaim(s) /\ ~leader[s]) \/ OnResign(s)
    <2>1. /\ head.type # "heartbeat" /\ leader' = leader
          /\ known'[s] = known[s] \/ known'[s] # s
      BY <1>1, <1>4, <1>9 DEF OnClaim, OnResign, Incoming, head, TypeOK
    <2>2. \A u \in Tab : Claiming(u)' => Claiming(u)
      BY <1>2, <2>1 DEF Claiming
    <2>3. LeadersMeet'
      BY <1>3, <1>5, <2>1 DEF CrowdInv, LeadersMeet
    <2>4. leader[s] => head.type # "claim"
      BY <1>9 DEF OnResign, Incoming, head
    <2>5. ClaimsMeet'
      BY <1>2, <1>3, <1>5, <2>1, <2>2, <2>4 DEF CrowdInv, ClaimsMeet
    <2>6. QED
      BY <2>3, <2>5
  <1>10. QED
    BY <1>7, <1>8, <1>9 DEF Messages

\* Tabs come and go, and time passes only when no heartbeat and no claim is under way.
LEMMA CrowdStep == Parameters /\ Prompt /\ CrowdInv /\ [Next]_vars => CrowdInv'
  <1> SUFFICES ASSUME Parameters, Prompt, CrowdInv, [Next]_vars PROVE CrowdInv'
    OBVIOUS
  <1>1. TypeOK /\ Regular /\ Regular'
    BY RegularStep DEF CrowdInv, Regular
  <1>2. \A t \in Tab : phase'[t] # "suspended"
    <2>1. \A t \in Tab : ~Suspend(t)
      BY <1>1 DEF Suspend, TypeOK, Prompt
    <2>2. ASSUME NEW t \in Tab, Timers(t) \/ Messages(t) PROVE phase' = phase
      BY <2>2 DEF Timers, Messages, TickLeading, TickFollowing, TickClaiming, Confirm,
                  OnHeartbeat, OnClaim, OnResign
    <2>3. ASSUME NEW t \in Tab, Environment(t)
          PROVE  \A u \in Tab : phase'[u] # "suspended"
      BY <1>1, <2>1, <2>3 DEF Environment, Join, Dispose, Crash, Wake, Lose, CrowdInv, TypeOK
    <2>4. QED
      BY <2>2, <2>3 DEF Next, vars, CrowdInv, Advance
  <1>3. SUFFICES ClaimsMeet' /\ LeadersMeet'
    BY <1>1, <1>2 DEF CrowdInv
  <1>4. ASSUME NEW t \in Tab, Timers(t)
        PROVE  ClaimsMeet' /\ LeadersMeet'
    BY <1>4, CrowdTimers
  <1>5. ASSUME NEW t \in Tab, Messages(t)
        PROVE  ClaimsMeet' /\ LeadersMeet'
    BY <1>5, CrowdMessages
  <1>6. ASSUME NEW s \in Tab, Environment(s)
        PROVE  ClaimsMeet' /\ LeadersMeet'
    <2>1. timer' = timer /\ known' = known /\ \A u \in Tab : leader'[u] => leader[u]
      BY <1>1, <1>6 DEF Environment, Join, Dispose, Crash, Suspend, Wake, Lose, TypeOK
    <2>2. \A u \in Awake' : u \in Awake \/ (u = s /\ phase[s] = "unborn")
      BY <1>1, <1>6 DEF Environment, Join, Dispose, Crash, Suspend, Wake, Lose, TypeOK, Awake,
                        CrowdInv
    <2>3. \A u \in Awake' \cap Awake : Mail(u) \subseteq Mail(u)'
      <3>1. ~Lose(s)
        BY DEF Lose, CrowdInv
      <3>2. CASE Join(s) \/ Suspend(s) \/ Wake(s)
        BY <1>1, <3>2, EnvironmentMail DEF Untold, Awake
      <3>3. CASE Crash(s) \/ Dispose(s)
        <4>1. s \notin Awake'
          BY <1>1, <3>3 DEF Crash, Dispose, Awake, TypeOK
        <4>2. QED
          BY <1>1, <3>3, <4>1, EnvironmentMail DEF Emptied, Resigned, Awake
      <3>4. QED
        BY <1>6, <3>1, <3>2, <3>3 DEF Environment
    <2>4. phase[s] = "unborn" => ~leader[s] /\ timer[s].fires = "tick"
      BY DEF CrowdInv, Regular, Open, In
    <2>5. \A u \in Awake' \cap Awake, f \in Tab : \A type : Heard(u, type, f) => Heard(u, type, f)'
      BY <2>3 DEF Heard
    <2>6. \A u \in Tab : Claiming(u)' = Claiming(u)
      BY <2>1 DEF Claiming
    <2>7. \A u \in Awake' : (leader'[u] \/ Claiming(u)) => u \in Awake
      BY <2>1, <2>2, <2>4 DEF Claiming
    <2>8. Awake' \subseteq Tab
      BY DEF Awake
    <2>9. ClaimsMeet'
      BY <2>1, <2>5, <2>6, <2>7, <2>8 DEF CrowdInv, ClaimsMeet
    <2>10. LeadersMeet'
      BY <2>1, <2>5, <2>7, <2>8 DEF CrowdInv, LeadersMeet
    <2>11. QED
      BY <2>9, <2>10
  <1>7. CASE Advance
    <2>1. phase' = phase /\ leader' = leader /\ known' = known
      BY <1>7 DEF Advance
    <2>2. \A u \in Awake : Mail(u) = {}
      <3>1. \A u \in Tab : \A m \in Mail(u) : m \in Message
        BY <1>1, PeersAccept
      <3>2. \A u \in Awake : \A m \in Mail(u) : m.left > 0
        BY <1>7 DEF Advance, Settled, Mail, Of
      <3>3. \A m \in Message : m.left \in 0..0
        BY DEF Message, Prompt
      <3>4. QED
        BY <3>1, <3>2, <3>3 DEF Awake
    <2>3. \A u \in Awake, f \in Tab : \A type : ~Heard(u, type, f)
      BY <2>2 DEF Heard
    <2>4. \A u \in Tab : timer'[u].fires = timer[u].fires
      BY <1>1, <1>7 DEF Advance, TypeOK, Timer
    <2>5. Awake' = Awake /\ Awake \subseteq Tab
      BY <2>1 DEF Awake
    <2>6. QED
      BY <2>1, <2>3, <2>4, <2>5 DEF CrowdInv, ClaimsMeet, LeadersMeet, Claiming
  <1>8. CASE UNCHANGED vars
    BY <1>8 DEF vars, CrowdInv, ClaimsMeet, LeadersMeet, Claiming, Awake, Heard, Mail
  <1>9. QED
    BY <1>4, <1>5, <1>6, <1>7, <1>8 DEF Next

\* A set whose elements are all the same has at most one.
LEMMA AtMostOne ==
    ASSUME NEW S, \A a, b \in S : a = b
    PROVE  Cardinality(S) <= 1
  <1>1. CASE S = {}
    BY <1>1, FS_EmptySet
  <1>2. ASSUME NEW a \in S PROVE Cardinality(S) <= 1
    <2>1. S = {a}
      BY <1>2
    <2>2. QED
      BY <2>1, FS_Singleton
  <1>3. QED
    BY <1>1, <1>2

\* Of two leaders one has a message left to handle.
LEMMA CrowdSettles == Parameters /\ Prompt /\ CrowdInv => SettledSingleLeader
  <1> SUFFICES ASSUME Parameters, Prompt, CrowdInv, Settled
               PROVE  Cardinality(AwakeLeaders) <= 1
    BY DEF SettledSingleLeader
  <1>1. \A u \in Awake : Mail(u) = {}
    <2>1. \A u \in Tab : \A m \in Mail(u) : m \in Message
      BY PeersAccept DEF CrowdInv
    <2>2. \A u \in Awake : \A m \in Mail(u) : m.left > 0
      BY DEF Settled, Mail, Of
    <2>3. \A m \in Message : m.left \in 0..0
      BY DEF Message, Prompt
    <2>4. QED
      BY <2>1, <2>2, <2>3 DEF Awake
  <1>2. \A a, b \in AwakeLeaders : ~(a < b)
    BY <1>1 DEF AwakeLeaders, Leaders, CrowdInv, LeadersMeet, Heard
  <1>3. AwakeLeaders \subseteq Nat
    BY DEF AwakeLeaders, Awake, Parameters, TabsOrdered
  <1>4. \A a, b \in AwakeLeaders : a = b
    BY <1>2, <1>3
  <1>5. QED
    BY <1>4, AtMostOne

----------------------------------------------------------------------------
\* The pair.

Timely ==
    /\ \A t, u, w \in Tab : t = u \/ u = w \/ t = w
    /\ Delay < Heartbeat
    /\ Delay < Timeout
    /\ MaxSuspends <= 1

\* The pair's invariant holds before either has joined.
LEMMA PairInit == Parameters /\ Timely /\ Init => PairInv
  <1> SUFFICES ASSUME Parameters, Timely, Init PROVE PairInv
    OBVIOUS
  <1>1. Regular
    BY RegularInit
  <1>2. /\ \A t \in Tab : phase[t] = "unborn"
        /\ suspends = 0 /\ split = 0
    BY DEF Init
  <1>3. Awake = {} /\ Open = {}
    BY <1>2 DEF Awake, Open
  <1>4. split <= Heartbeat + Delay
    BY <1>2 DEF Parameters, TimesPositive
  <1>5. QED
    BY <1>1, <1>2, <1>3, <1>4
       DEF PairInv, LeaderIsHeard, SplitIsNew, ConfirmsAlone, SplitIsBounded, SplitHeals

\* What the types say of the numbers.
LEMMA Numbers ==
    ASSUME Parameters, TypeOK
    PROVE  /\ Heartbeat \in Nat \ {0} /\ Timeout \in Nat \ {0} /\ Delay \in Nat
           /\ split \in Nat /\ suspends \in Nat
           /\ \A t \in Tab : /\ t \in Nat
                             /\ timer[t].left \in Nat /\ timer[t].left <= Heartbeat
                             /\ silent[t] \in Nat /\ silent[t] <= Timeout
                             /\ \A m \in Mail(t) : m \in Message /\ m.left \in Nat
  <1>1. \A t \in Tab : \A m \in Mail(t) : m \in Message
    BY QueueContent DEF TypeOK, Mail
  <1>2. \A m \in Message : m.left \in Nat
    BY DEF Message
  <1>3. \A t \in Tab : timer[t].left \in 0..Heartbeat /\ silent[t] \in 0..Timeout
    BY DEF TypeOK, Timer
  <1>4. QED
    BY <1>1, <1>2, <1>3 DEF Parameters, TabsOrdered, TimesPositive, BoundsNatural, TypeOK

\* A heartbeat posted as the timer is set is under way in step with that timer.
LEMMA FreshEcho ==
    ASSUME Parameters, Regular, NEW s \in Tab, NEW t \in Awake, t # s, Told(s, "heartbeat"),
           timer'[s] = In("tick", Heartbeat)
    PROVE  /\ Note("heartbeat", s) \in Mail(t)'
           /\ Echo(s, t)'
  <1>1. t \in Tab /\ Accepts(t, s)
    BY PeersAccept DEF Awake
  <1>2. Note("heartbeat", s) \in Mail(t)'
    BY <1>1 DEF Told
  <1>3. /\ Note("heartbeat", s).type = "heartbeat" /\ Note("heartbeat", s).from = s
        /\ Note("heartbeat", s).left = Delay
    BY DEF Note
  <1>4. timer'[s].left = Heartbeat
    BY DEF In
  <1>5. QED
    BY <1>2, <1>3, <1>4 DEF Echo

\* An echo stays while the queue only grows and the timer runs on.
LEMMA EchoStays ==
    ASSUME NEW a, NEW t, Echo(a, t), timer'[a] = timer[a],
           \A m \in Mail(t) : m.type = "heartbeat" => m \in Mail(t)'
    PROVE  Echo(a, t)'
  BY DEF Echo

\* Timers.
LEMMA PairTimers ==
    ASSUME Parameters, Timely, PairInv, NEW s \in Tab, Timers(s)
    PROVE  LeaderIsHeard' /\ SplitIsNew' /\ ConfirmsAlone' /\ SplitIsBounded'
  <1>1. TypeOK /\ Regular
    BY DEF PairInv, Regular
  <1>2. /\ phase' = phase /\ s \in Awake /\ suspends' = suspends /\ split' = split
        /\ timer[s].left = 0
        /\ \A u \in Tab \ {s} : /\ timer'[u] = timer[u] /\ known'[u] = known[u]
                                /\ leader'[u] = leader[u] /\ silent'[u] = silent[u]
    BY <1>1 DEF Timers, TickLeading, TickFollowing, TickClaiming, Confirm, Due, TypeOK
  <1>3. \A u \in Tab : Mail(u) \subseteq Mail(u)'
    BY <1>1, TimerMail DEF Timers, Told, Untold
  <1>4. Awake' = Awake /\ Awake \subseteq Tab /\ Open' = Open /\ Open \subseteq Tab
    BY <1>2 DEF Awake, Open
  <1>5. \A a, t \in Tab : a # t => (a = s /\ t # s) \/ (t = s /\ a # s)
    BY DEF Timely
  <1>6. \A a \in Tab \ {s} : Echo(a, s) => Echo(a, s)'
    BY <1>2, <1>3, EchoStays
  <1>7. /\ Heartbeat \in Nat \ {0} /\ Timeout \in Nat \ {0} /\ Delay \in Nat /\ split \in Nat
        /\ \A t \in Tab : t \in Nat /\ timer[t].left \in Nat /\ timer[t].left <= Heartbeat
        /\ silent[s] \in Nat
        /\ \A m \in Mail(s) : m.left \in Nat
        /\ \A t \in Tab : \A m \in Mail(t) : m.left \in Nat
        /\ Delay < Heartbeat /\ Delay < Timeout
    BY <1>1, Numbers DEF Timely
  <1>8. In("tick", Heartbeat).fires = "tick" /\ In("tick", Heartbeat).left = Heartbeat
        /\ In("confirm", Heartbeat).fires = "confirm" /\ In("confirm", Heartbeat).left = Heartbeat
    BY DEF In
  <1>9. timer'[s] \in {In("tick", Heartbeat), In("confirm", Heartbeat)}
    BY <1>1 DEF Timers, TickLeading, TickFollowing, TickClaiming, Confirm, TypeOK
  <1>10. ConfirmsAlone'
    BY <1>2, <1>7, <1>8, <1>9 DEF PairInv, ConfirmsAlone
  <1>11. timer'[s].fires = "tick" =>
           \A a \in Awake : a # s => ~Claiming(s)' /\ timer'[a].left <= timer'[s].left
    BY <1>2, <1>4, <1>7, <1>8, <1>9 DEF Claiming
  <1>12. CASE TickLeading(s)
    <2>1. leader' = leader /\ leader[s] /\ timer'[s] = In("tick", Heartbeat) /\ Told(s, "heartbeat")
      BY <1>1, <1>12, TimerMail DEF TickLeading, TypeOK
    <2>2. \A t \in Awake : t # s => Echo(s, t)' /\ Note("heartbeat", s) \in Mail(t)'
      BY <1>1, <2>1, FreshEcho
    <2>3. LeaderIsHeard'
      BY <1>2, <1>4, <1>5, <1>8, <1>11, <2>1, <2>2 DEF LeaderIsHeard
    <2>4. SplitIsNew'
      <3> SUFFICES ASSUME suspends = 0, NEW a \in Awake, NEW t \in Awake, leader[a], leader[t], a < t
                   PROVE  Echo(a, t)' /\ split <= Heartbeat - timer'[a].left
        BY <1>2, <1>4, <2>1 DEF SplitIsNew
      <3>1. Echo(a, t) /\ split <= Heartbeat - timer[a].left /\ a # t
        BY <1>4, <1>7 DEF PairInv, SplitIsNew
      <3>2. a # s
        BY <1>2, <1>4, <1>7, <3>1 DEF Echo
      <3>3. QED
        BY <1>2, <1>4, <1>5, <1>6, <3>1, <3>2
    <2>5. SplitIsBounded'
      <3> SUFFICES ASSUME suspends > 0, NEW a \in Open, NEW t \in Open, leader[a], leader[t], a < t
                   PROVE  IF {a, t} \subseteq Awake
                          THEN \/ split <= Heartbeat - timer'[a].left
                               \/ \E m \in Mail(t)' : /\ m.type = "heartbeat" /\ m.from = a
                                                      /\ split + m.left <= Heartbeat + Delay
                          ELSE split = 0 \/ (timer'[a].left > 0 /\ split <= Heartbeat - timer'[a].left)
        BY <1>2, <1>4, <2>1 DEF SplitIsBounded
      <3>1. a # t /\ a \in Tab /\ t \in Tab
        BY <1>4, <1>7
      <3>2. IF {a, t} \subseteq Awake
            THEN \/ split <= Heartbeat - timer[a].left
                 \/ \E m \in Mail(t) : /\ m.type = "heartbeat" /\ m.from = a
                                       /\ split + m.left <= Heartbeat + Delay
            ELSE split = 0 \/ (timer[a].left > 0 /\ split <= Heartbeat - timer[a].left)
        BY DEF PairInv, SplitIsBounded
      <3>3. CASE a = s /\ t \in Awake
        <4>1. /\ Note("heartbeat", s) \in Mail(t)' /\ Note("heartbeat", s).left = Delay
              /\ Note("heartbeat", s).type = "heartbeat" /\ Note("heartbeat", s).from = s
          BY <2>2, <3>1, <3>3 DEF Note
        <4>2. CASE split <= Heartbeat - timer[a].left
          <5>1. split + Delay <= Heartbeat + Delay
            BY <1>2, <1>7, <3>3, <4>2
          <5>2. QED
            BY <1>2, <3>3, <4>1, <5>1
        <4>3. QED
          BY <1>2, <1>3, <3>1, <3>2, <3>3, <4>2
      <3>4. CASE a = s /\ t \notin Awake
        BY <1>2, <1>7, <3>2, <3>4
      <3>5. CASE t = s
        BY <1>2, <1>3, <3>1, <3>2, <3>5
      <3>6. QED
        BY <1>5, <3>1, <3>3, <3>4, <3>5
    <2>6. QED
      BY <1>10, <2>3, <2>4, <2>5
  <1>13. CASE TickFollowing(s) \/ (Confirm(s) /\ known[s] # s)
    <2>1. leader' = leader /\ ~leader[s] /\ timer'[s] = In("tick", Heartbeat)
      BY <1>1, <1>13 DEF TickFollowing, Confirm, Due, TypeOK, Regular
    <2>2. LeaderIsHeard'
      BY <1>2, <1>4, <1>5, <1>8, <1>11, <2>1 DEF LeaderIsHeard
    <2>3. \A a, t \in Tab : leader'[a] /\ leader'[t] /\ a < t => FALSE
      BY <1>5, <1>7, <2>1
    <2>4. SplitIsNew' /\ SplitIsBounded'
      BY <1>4, <2>3 DEF SplitIsNew, SplitIsBounded
    <2>5. QED
      BY <1>10, <2>2, <2>4
  <1>14. CASE TickClaiming(s)
    <2>1. /\ leader' = leader /\ ~leader[s] /\ timer'[s] = In("confirm", Heartbeat)
          /\ timer[s].fires = "tick" /\ silent[s] >= Timeout
      BY <1>1, <1>14 DEF TickClaiming, Due, TypeOK
    <2>2. ASSUME suspends = 0, NEW a \in Awake, leader[a], a # s
          PROVE  Echo(a, s)' \/ timer[a].left + Delay < Heartbeat
      <3>1. \/ Echo(a, s)
            \/ silent[s] <= Heartbeat - timer[a].left
            \/ timer[a].left <= timer[s].left
        BY <1>2, <2>1, <2>2 DEF PairInv, LeaderIsHeard
      <3>2. a \in Tab \ {s}
        BY <1>4, <2>2
      <3>3. timer[a].left \in Nat
        BY <1>7, <3>2
      <3>4. silent[s] <= Heartbeat - timer[a].left => timer[a].left + Delay < Heartbeat
        BY <1>7, <2>1, <3>3
      <3>5. timer[a].left <= timer[s].left => timer[a].left + Delay < Heartbeat
        BY <1>2, <1>7, <3>3
      <3>6. QED
        BY <1>6, <3>1, <3>2, <3>4, <3>5
    <2>3. LeaderIsHeard'
      BY <1>2, <1>4, <1>5, <1>8, <2>1, <2>2 DEF LeaderIsHeard
    <2>4. \A a, t \in Tab : leader'[a] /\ leader'[t] /\ a < t => FALSE
      BY <1>5, <1>7, <2>1
    <2>5. SplitIsNew' /\ SplitIsBounded'
      BY <1>4, <2>4 DEF SplitIsNew, SplitIsBounded
    <2>6. QED
      BY <1>10, <2>3, <2>5
  <1>15. CASE Confirm(s) /\ known[s] = s
    <2>1. /\ timer'[s] = In("tick", Heartbeat) /\ Told(s, "heartbeat")
          /\ timer[s].fires = "confirm"
      BY <1>1, <1>15, TimerMail DEF Confirm, Due, TypeOK
    <2>2. \A t \in Awake : t # s => Echo(s, t)'
      BY <1>1, <2>1, FreshEcho
    <2>3. split = 0
      BY <1>2, <1>7, <2>1 DEF PairInv, ConfirmsAlone
    <2>4. LeaderIsHeard'
      BY <1>2, <1>4, <1>5, <1>8, <1>11, <2>1, <2>2 DEF LeaderIsHeard
    <2>5. ASSUME suspends = 0, NEW a \in Awake, leader[a], a # s
          PROVE  Echo(a, s)'
      <3>1. Claiming(s) /\ a \in Tab \ {s}
        BY <1>4, <1>15, <2>1, <2>5 DEF Claiming
      <3>2. Echo(a, s) \/ timer[a].left + Delay < timer[s].left
        BY <1>2, <2>5, <3>1 DEF PairInv, LeaderIsHeard
      <3>3. QED
        BY <1>2, <1>6, <1>7, <3>1, <3>2
    <2>6. \A u \in Tab : timer'[u].left \in Nat /\ timer'[u].left <= Heartbeat
      BY <1>2, <1>7, <1>8, <2>1
    <2>7. \A u \in Tab : split <= Heartbeat - timer'[u].left
      BY <1>7, <2>3, <2>6
    <2>8. SplitIsNew'
      BY <1>2, <1>4, <1>5, <1>7, <2>2, <2>5, <2>7 DEF SplitIsNew
    <2>9. SplitIsBounded'
      BY <1>2, <1>4, <2>3, <2>7 DEF SplitIsBounded
    <2>10. QED
      BY <1>10, <2>4, <2>8, <2>9
  <1>16. QED
    BY <1>12, <1>13, <1>14, <1>15 DEF Timers

\* Messages: the larger leader stands down, and whoever hears a heartbeat claims no more.
LEMMA PairMessages ==
    ASSUME Parameters, Timely, PairInv, NEW s \in Tab, Messages(s)
    PROVE  LeaderIsHeard' /\ SplitIsNew' /\ ConfirmsAlone' /\ SplitIsBounded'
  <1> DEFINE head == Head(inbox[s])
  <1>1. TypeOK /\ Regular
    BY DEF PairInv, Regular
  <1>2. /\ phase' = phase /\ s \in Awake /\ suspends' = suspends /\ split' = split
        /\ timer' = timer
        /\ \A u \in Tab \ {s} : known'[u] = known[u] /\ silent'[u] = silent[u]
        /\ \A u \in Tab : leader'[u] => leader[u]
    BY <1>1 DEF Messages, OnHeartbeat, OnClaim, OnResign, Incoming, TypeOK
  <1>3. Awake' = Awake /\ Awake \subseteq Tab /\ Open' = Open /\ Open \subseteq Tab
    BY <1>2 DEF Awake, Open
  <1>4. /\ head \in Mail(s) /\ head.from \in Tab /\ head.from # s /\ s # NoTab
        /\ head.type = "resign" => phase[head.from] = "disposed"
        /\ \A u \in Tab : Mail(u) \ (IF u = s THEN {head} ELSE {}) \subseteq Mail(u)'
    <2>1. /\ head \in Mail(s)
          /\ \A u \in Tab : Mail(u) \ (IF u = s THEN {head} ELSE {}) \subseteq Mail(u)'
      BY <1>1, MessageMail DEF Messages, Taken, Answered
    <2>2. QED
      BY <1>1, <2>1, PeersAccept DEF Regular
  <1>5. /\ OnHeartbeat(s) => /\ head.type = "heartbeat" /\ known'[s] = head.from /\ silent'[s] = 0
                             /\ leader'[s] => head.from >= s
        /\ OnClaim(s) => /\ head.type = "claim" /\ silent' = silent
                         /\ known'[s] \in {known[s], head.from}
        /\ OnResign(s) => head.type = "resign"
    BY <1>1 DEF OnHeartbeat, OnClaim, OnResign, Incoming, head, TypeOK
  <1> HIDE DEF head
  <1>6. \A a, t \in Tab : a # t => (a = s /\ t # s) \/ (t = s /\ a # s)
    BY DEF Timely
  <1>7. \A a \in Tab \ {s} : head.from = a
    BY <1>4, <1>6
  <1>8. /\ \A t \in Tab : t \in Nat /\ timer[t].left \in Nat /\ timer[t].left <= Heartbeat
        /\ Heartbeat \in Nat
    BY <1>1, Numbers
  <1>9. \A t \in Tab \ {s} : Mail(t) \subseteq Mail(t)'
    BY <1>4
  <1>10. head.type # "heartbeat" => \A m \in Mail(s) : m.type = "heartbeat" => m \in Mail(s)'
    BY <1>4
  <1>11. \A t \in Tab \ {s} : Echo(s, t) => Echo(s, t)'
    BY <1>2, <1>9, EchoStays
  <1>12. head.type # "heartbeat" => \A a \in Tab : Echo(a, s) => Echo(a, s)'
    BY <1>2, <1>10, EchoStays
  <1>13. ConfirmsAlone'
    BY <1>2 DEF PairInv, ConfirmsAlone
  <1>14. \A a \in Tab : leader'[a] /\ leader'[s] /\ a < s => head.type # "heartbeat"
    <2> SUFFICES ASSUME NEW a \in Tab, leader'[a], leader'[s], a < s, head.type = "heartbeat"
                 PROVE  FALSE
      OBVIOUS
    <2>1. head.from = a
      BY <1>7, <1>8
    <2>2. head.from >= s
      BY <1>5 DEF Messages
    <2>3. QED
      BY <1>8, <2>1, <2>2
  <1>15. LeaderIsHeard'
    <2> SUFFICES ASSUME suspends = 0, NEW a \in Awake, NEW t \in Awake, leader'[a], a # t
                 PROVE  \/ Echo(a, t)'
                        \/ timer[t].fires = "confirm" /\ timer[a].left + Delay < timer[t].left
                        \/ /\ ~Claiming(t)'
                           /\ \/ silent'[t] <= Heartbeat - timer[a].left
                              \/ timer[t].fires = "tick" /\ timer[a].left <= timer[t].left
      BY <1>2, <1>3 DEF LeaderIsHeard
    <2>1. /\ a \in Tab /\ t \in Tab /\ leader[a]
          /\ \/ Echo(a, t)
             \/ timer[t].fires = "confirm" /\ timer[a].left + Delay < timer[t].left
             \/ /\ ~Claiming(t)
                /\ \/ silent[t] <= Heartbeat - timer[a].left
                   \/ timer[t].fires = "tick" /\ timer[a].left <= timer[t].left
      BY <1>2, <1>3 DEF PairInv, LeaderIsHeard
    <2>2. CASE a = s
      <3>1. t # s /\ (Claiming(t)' <=> Claiming(t)) /\ silent'[t] = silent[t]
        BY <1>2, <2>1, <2>2 DEF Claiming
      <3>2. QED
        BY <1>11, <2>1, <2>2, <3>1
    <2>3. CASE t = s
      <3>1. CASE OnHeartbeat(s)
        <4>1. ~Claiming(s)' /\ silent'[s] <= Heartbeat - timer[a].left
          BY <1>4, <1>5, <1>8, <2>1, <3>1 DEF Claiming
        <4>2. QED
          BY <2>3, <4>1
      <3>2. CASE OnClaim(s)
        <4>1. Claiming(s)' => Claiming(s)
          BY <1>2, <1>4, <1>5, <3>2 DEF Claiming
        <4>2. QED
          BY <1>5, <1>12, <2>1, <2>3, <3>2, <4>1
      <3>3. CASE OnResign(s)
        <4>1. phase[a] = "disposed"
          BY <1>4, <1>5, <1>7, <2>1, <2>3, <3>3
        <4>2. QED
          BY <4>1 DEF Awake
      <3>4. QED
        BY <3>1, <3>2, <3>3 DEF Messages
    <2>4. QED
      BY <1>6, <2>1, <2>2, <2>3
  <1>16. SplitIsNew'
    <2> SUFFICES ASSUME suspends = 0, NEW a \in Awake, NEW t \in Awake, leader'[a], leader'[t], a < t
                 PROVE  Echo(a, t)' /\ split <= Heartbeat - timer[a].left
      BY <1>2, <1>3 DEF SplitIsNew
    <2>1. a \in Tab /\ t \in Tab /\ a # t /\ Echo(a, t) /\ split <= Heartbeat - timer[a].left
      BY <1>2, <1>3, <1>8 DEF PairInv, SplitIsNew
    <2>2. QED
      BY <1>6, <1>11, <1>12, <1>14, <2>1
  <1>17. SplitIsBounded'
    <2> SUFFICES ASSUME suspends > 0, NEW a \in Open, NEW t \in Open, leader'[a], leader'[t], a < t
                 PROVE  IF {a, t} \subseteq Awake
                        THEN \/ split <= Heartbeat - timer[a].left
                             \/ \E m \in Mail(t)' : /\ m.type = "heartbeat" /\ m.from = a
                                                    /\ split + m.left <= Heartbeat + Delay
                        ELSE split = 0 \/ (timer[a].left > 0 /\ split <= Heartbeat - timer[a].left)
      BY <1>2, <1>3 DEF SplitIsBounded
    <2>1. /\ a \in Tab /\ t \in Tab /\ a # t
          /\ IF {a, t} \subseteq Awake
             THEN \/ split <= Heartbeat - timer[a].left
                  \/ \E m \in Mail(t) : /\ m.type = "heartbeat" /\ m.from = a
                                        /\ split + m.left <= Heartbeat + Delay
             ELSE split = 0 \/ (timer[a].left > 0 /\ split <= Heartbeat - timer[a].left)
      BY <1>2, <1>3, <1>8 DEF PairInv, SplitIsBounded
    <2>2. \A m \in Mail(t) : m.type = "heartbeat" => m \in Mail(t)'
      BY <1>6, <1>9, <1>10, <1>14, <2>1
    <2>3. QED
      BY <2>1, <2>2
  <1>18. QED
    BY <1>13, <1>15, <1>16, <1>17

\* Tabs come and go, sleep and wake.
LEMMA PairEnvironment ==
    ASSUME Parameters, Timely, PairInv, NEW s \in Tab, Environment(s)
    PROVE  /\ LeaderIsHeard' /\ SplitIsNew' /\ ConfirmsAlone' /\ SplitIsBounded'
           /\ suspends' = 0 => \A t \in Tab : phase'[t] # "suspended"
  <1>1. TypeOK /\ Regular
    BY DEF PairInv, Regular
  <1>2. /\ timer' = timer /\ known' = known /\ silent' = silent /\ split' = split
        /\ \A u \in Tab : leader'[u] => leader[u]
        /\ \A u \in Tab \ {s} : phase'[u] = phase[u]
    BY <1>1 DEF Environment, Join, Dispose, Crash, Suspend, Wake, Lose, TypeOK
  <1>3. \A a, t \in Tab : a # t => (a = s /\ t # s) \/ (t = s /\ a # s)
    BY DEF Timely
  <1>4. /\ \A t \in Tab : t \in Nat /\ timer[t].left \in Nat /\ timer[t].left <= Heartbeat
        /\ Heartbeat \in Nat /\ Delay \in Nat /\ Delay < Heartbeat /\ suspends \in Nat
        /\ \A t \in Tab : \A m \in Mail(t) : m.left \in Nat
        /\ split \in Nat
    BY <1>1, Numbers DEF Timely
  <1>5. ConfirmsAlone'
    BY <1>2 DEF PairInv, ConfirmsAlone
  <1>6. Awake \subseteq Tab /\ Awake' \subseteq Tab /\ Open \subseteq Tab /\ Open' \subseteq Tab
        /\ Awake \subseteq Open /\ Awake' \subseteq Open'
    BY DEF Awake, Open
  <1>7. CASE Join(s)
    <2>1. suspends' = suspends /\ leader' = leader /\ Untold /\ phase[s] = "unborn"
          /\ phase'[s] = "awake"
      BY <1>1, <1>7, EnvironmentMail DEF Join, TypeOK
    <2>2. ~leader[s] /\ timer[s].fires = "tick" /\ timer[s].left = Heartbeat
      BY <1>1, <2>1 DEF Regular, Open, In
    <2>3. LeaderIsHeard'
      <3> SUFFICES ASSUME NEW a \in Awake', leader[a], s # a
                   PROVE  ~Claiming(s)' /\ timer'[s].fires = "tick"
                          /\ timer'[a].left <= timer'[s].left
        BY <1>2, <1>3, <1>6, <2>1, <2>2 DEF LeaderIsHeard
      <3>1. QED
        BY <1>2, <1>4, <1>6, <2>2 DEF Claiming
    <2>4. \A a, t \in Tab : leader'[a] /\ leader'[t] /\ a < t => FALSE
      BY <1>3, <1>4, <2>1, <2>2
    <2>5. SplitIsNew' /\ SplitIsBounded'
      BY <1>6, <2>4 DEF SplitIsNew, SplitIsBounded
    <2>6. suspends' = 0 => \A t \in Tab : phase'[t] # "suspended"
      BY <1>2, <2>1 DEF PairInv
    <2>7. QED
      BY <1>5, <2>3, <2>5, <2>6
  <1>8. CASE Dispose(s) \/ Crash(s)
    <2>1. suspends' = suspends /\ ~leader'[s] /\ phase'[s] \in {"disposed", "crashed"}
      BY <1>1, <1>8 DEF Dispose, Crash, TypeOK
    <2>2. s \notin Open'
      BY <2>1 DEF Open
    <2>3. \A a, t \in Open' : a = t
      BY <1>3, <1>6, <2>2
    <2>4. LeaderIsHeard'
      BY <1>6, <2>3 DEF LeaderIsHeard
    <2>5. SplitIsNew' /\ SplitIsBounded'
      BY <1>4, <1>6, <2>3 DEF SplitIsNew, SplitIsBounded
    <2>6. suspends' = 0 => \A t \in Tab : phase'[t] # "suspended"
      BY <1>2, <2>1 DEF PairInv
    <2>7. QED
      BY <1>5, <2>4, <2>5, <2>6
  <1>9. CASE Suspend(s)
    <2>1. /\ suspends' = suspends + 1 /\ leader' = leader /\ phase'[s] = "suspended" /\ s \in Awake
          /\ suspends < MaxSuspends
      BY <1>1, <1>9 DEF Suspend, TypeOK
    <2>2. MaxSuspends \in Nat /\ MaxSuspends <= 1
      BY DEF Parameters, BoundsNatural, Timely
    <2>3. suspends = 0 /\ suspends' # 0
      BY <1>4, <2>1, <2>2
    <2>4. LeaderIsHeard' /\ SplitIsNew'
      BY <2>3 DEF LeaderIsHeard, SplitIsNew
    <2>5. SplitIsBounded'
      <3> SUFFICES ASSUME NEW a \in Open', NEW t \in Open', leader[a], leader[t], a < t
                   PROVE  ~({a, t} \subseteq Awake') /\ timer[a].left > 0
                          /\ split <= Heartbeat - timer[a].left
        BY <1>2, <2>1 DEF SplitIsBounded
      <3>1. a \in Tab /\ t \in Tab /\ a # t
        BY <1>4, <1>6
      <3>2. s \notin Awake'
        BY <2>1 DEF Awake
      <3>3. a \in Awake /\ t \in Awake
        BY <1>1, <2>3, <3>1 DEF PairInv, Regular, Open, Awake
      <3>4. Echo(a, t) /\ split <= Heartbeat - timer[a].left
        BY <2>3, <3>3 DEF PairInv, SplitIsNew
      <3>5. timer[a].left > 0
        BY <1>4, <3>1, <3>4 DEF Echo
      <3>6. QED
        BY <1>3, <3>1, <3>2, <3>4, <3>5
    <2>6. QED
      BY <1>5, <2>3, <2>4, <2>5
  <1>10. CASE Wake(s) \/ Lose(s)
    <2>1. suspends' = suspends /\ leader' = leader /\ phase[s] = "suspended" /\ s \in Open
      BY <1>10 DEF Wake, Lose, Open
    <2>2. suspends # 0
      BY <2>1 DEF PairInv
    <2>3. LeaderIsHeard' /\ SplitIsNew'
      BY <2>1, <2>2 DEF LeaderIsHeard, SplitIsNew
    <2>4. SplitIsBounded'
      <3> SUFFICES ASSUME NEW a \in Open', NEW t \in Open', leader[a], leader[t], a < t
                   PROVE  split = 0 \/ (timer[a].left > 0 /\ split <= Heartbeat - timer[a].left)
        <4>1. \A a \in Open' : 0 <= Heartbeat - timer[a].left
          BY <1>4, <1>6
        <4>2. QED
          BY <1>2, <2>1, <4>1 DEF SplitIsBounded
      <3>1. a \in Tab /\ t \in Tab /\ a # t
        BY <1>4, <1>6
      <3>2. a \in Open /\ t \in Open
        BY <1>2, <2>1, <3>1 DEF Open
      <3>3. ~({a, t} \subseteq Awake)
        BY <1>3, <2>1, <3>1 DEF Awake
      <3>4. suspends > 0
        BY <1>4, <2>2
      <3>5. QED
        BY <3>2, <3>3, <3>4 DEF PairInv, SplitIsBounded
    <2>5. QED
      BY <1>5, <2>1, <2>2, <2>3, <2>4
  <1>11. QED
    BY <1>7, <1>8, <1>9, <1>10 DEF Environment

\* Time: everything under way comes nearer by as much as the split grows.
LEMMA PairAdvance ==
    ASSUME Parameters, Timely, PairInv, Advance
    PROVE  LeaderIsHeard' /\ SplitIsNew' /\ ConfirmsAlone' /\ SplitIsBounded' /\ SplitHeals'
  <1>1. TypeOK /\ Regular
    BY DEF PairInv, Regular
  <1>2. /\ phase' = phase /\ leader' = leader /\ known' = known /\ suspends' = suspends
        /\ Awake' = Awake /\ Open' = Open
    BY DEF Advance, Awake, Open
  <1>3. Awake \subseteq Tab /\ Open \subseteq Tab /\ Awake \subseteq Open
    BY DEF Awake, Open
  <1>4. /\ Heartbeat \in Nat \ {0} /\ Delay \in Nat /\ split \in Nat /\ Delay < Heartbeat
        /\ \A t \in Tab : /\ t \in Nat
                          /\ timer[t].left \in Nat /\ timer[t].left <= Heartbeat
                          /\ silent[t] \in Nat
                          /\ \A m \in Mail(t) : m \in Message /\ m.left \in Nat
    BY <1>1, Numbers DEF Timely
  <1>5. \A t \in Tab : timer'[t].fires = timer[t].fires
    BY <1>1 DEF Advance, TypeOK, Timer
  <1>6. ASSUME NEW t \in Awake
        PROVE  /\ timer[t].left > 0 /\ timer'[t].left = timer[t].left - 1
               /\ silent'[t] <= silent[t] + 1
               /\ \A m \in Mail(t) :
                     m.left > 0 /\ \E n \in Mail(t)' : /\ n.type = m.type /\ n.from = m.from
                                                       /\ n.left = m.left - 1
    <2>1. t \in Tab /\ t \in Open
      BY <1>3
    <2>2. timer[t].left > 0 /\ \A m \in Mail(t) : m.left > 0
      BY DEF Advance, Settled, Mail, Of
    <2>3. timer'[t] = [timer[t] EXCEPT !.left = Sooner(@)] /\ timer[t] \in Timer
      BY <1>1, <2>1 DEF Advance, TypeOK
    <2>4. timer'[t].left = timer[t].left - 1
      BY <1>4, <2>1, <2>2, <2>3 DEF Timer, Sooner
    <2>5. silent'[t] <= silent[t] + 1
      BY <1>4, <2>1 DEF Advance
    <2>6. ASSUME NEW m \in Mail(t)
          PROVE  \E n \in Mail(t)' : n.type = m.type /\ n.from = m.from /\ n.left = m.left - 1
      <3>1. [m EXCEPT !.left = Sooner(@)] \in Mail(t)'
        BY <1>1, <2>1, AdvanceContent
      <3>2. /\ m \in Message /\ m.left \in Nat /\ m.left > 0
        BY <1>4, <2>1, <2>2
      <3>3. /\ [m EXCEPT !.left = Sooner(@)].type = m.type
            /\ [m EXCEPT !.left = Sooner(@)].from = m.from
            /\ [m EXCEPT !.left = Sooner(@)].left = m.left - 1
        BY <3>2 DEF Message, Sooner
      <3>4. QED
        BY <3>1, <3>3
    <2>7. QED
      BY <2>2, <2>4, <2>5, <2>6
  <1>7. \A a, t \in Awake : Echo(a, t) => Echo(a, t)'
    <2> SUFFICES ASSUME NEW a \in Awake, NEW t \in Awake, Echo(a, t) PROVE Echo(a, t)'
      OBVIOUS
    <2>1. PICK m \in Mail(t) : /\ m.type = "heartbeat" /\ m.from = a
                               /\ timer[a].left - m.left = Heartbeat - Delay
      BY DEF Echo
    <2>2. PICK n \in Mail(t)' : n.type = m.type /\ n.from = m.from /\ n.left = m.left - 1
      BY <1>6
    <2>3. timer'[a].left - n.left = Heartbeat - Delay
      BY <1>3, <1>4, <1>6, <2>1, <2>2
    <2>4. QED
      BY <2>1, <2>2, <2>3 DEF Echo
  <1>8. split' <= split + 1 /\ split' \in Nat
    BY <1>4 DEF Advance
  <1>9. \/ split' = 0
        \/ \E a, t \in Awake : leader[a] /\ leader[t] /\ a < t
    <2>1. CASE \A a, t \in AwakeLeaders : a = t
      <3>1. Cardinality(AwakeLeaders) <= 1
        BY <2>1, AtMostOne
      <3>2. IsFiniteSet(AwakeLeaders)
        <4>1. CASE AwakeLeaders = {}
          BY <4>1, FS_EmptySet
        <4>2. ASSUME NEW a \in AwakeLeaders PROVE IsFiniteSet(AwakeLeaders)
          <5>1. AwakeLeaders = {a}
            BY <2>1, <4>2
          <5>2. QED
            BY <5>1, FS_Singleton
        <4>3. QED
          BY <4>1, <4>2
      <3>3. Cardinality(AwakeLeaders) \in Nat
        BY <3>2, FS_CardinalityType
      <3>4. Cardinality(AwakeLeaders) < 2
        BY <3>1, <3>3
      <3>5. QED
        BY <3>4 DEF Advance
    <2>2. CASE ~(\A a, t \in AwakeLeaders : a = t)
      BY <1>3, <1>4, <2>2 DEF AwakeLeaders, Leaders
    <2>3. QED
      BY <2>1, <2>2
  <1>10. LeaderIsHeard'
    <2> SUFFICES ASSUME suspends = 0, NEW a \in Awake, NEW t \in Awake, leader[a], a # t
                 PROVE  \/ Echo(a, t)'
                        \/ timer'[t].fires = "confirm" /\ timer'[a].left + Delay < timer'[t].left
                        \/ /\ ~Claiming(t)'
                           /\ \/ silent'[t] <= Heartbeat - timer'[a].left
                              \/ timer'[t].fires = "tick" /\ timer'[a].left <= timer'[t].left
      BY <1>2 DEF LeaderIsHeard
    <2>1. \/ Echo(a, t)
          \/ timer[t].fires = "confirm" /\ timer[a].left + Delay < timer[t].left
          \/ /\ ~Claiming(t)
             /\ \/ silent[t] <= Heartbeat - timer[a].left
                \/ timer[t].fires = "tick" /\ timer[a].left <= timer[t].left
      BY DEF PairInv, LeaderIsHeard
    <2>2. Claiming(t)' <=> Claiming(t)
      BY <1>2, <1>3, <1>5 DEF Claiming
    <2>3. /\ a \in Tab /\ t \in Tab /\ timer'[t].fires = timer[t].fires
          /\ timer'[a].left = timer[a].left - 1 /\ timer'[t].left = timer[t].left - 1
          /\ silent'[t] <= silent[t] + 1
          /\ timer[a].left \in Nat /\ timer[t].left \in Nat /\ silent[t] \in Nat
      BY <1>3, <1>4, <1>5, <1>6
    <2>4. silent'[t] \in Int
      <3>1. TypeOK'
        BY <1>1, TypedStep DEF Next
      <3>2. QED
        BY <2>3, <3>1 DEF TypeOK
    <2>5. silent[t] <= Heartbeat - timer[a].left => silent'[t] <= Heartbeat - timer'[a].left
      BY <1>4, <2>3, <2>4
    <2>6. timer[a].left <= timer[t].left => timer'[a].left <= timer'[t].left
      BY <2>3
    <2>7. timer[a].left + Delay < timer[t].left => timer'[a].left + Delay < timer'[t].left
      BY <1>4, <2>3
    <2>8. QED
      BY <1>7, <2>1, <2>2, <2>3, <2>5, <2>6, <2>7
  <1>11. SplitIsNew'
    <2> SUFFICES ASSUME suspends = 0, NEW a \in Awake, NEW t \in Awake, leader[a], leader[t], a < t
                 PROVE  Echo(a, t)' /\ split' <= Heartbeat - timer'[a].left
      BY <1>2 DEF SplitIsNew
    <2>1. Echo(a, t) /\ split <= Heartbeat - timer[a].left
      BY DEF PairInv, SplitIsNew
    <2>2. a \in Tab /\ timer'[a].left = timer[a].left - 1 /\ timer[a].left \in Nat
      BY <1>3, <1>4, <1>6
    <2>3. QED
      BY <1>4, <1>7, <1>8, <2>1, <2>2
  <1>12. ConfirmsAlone'
    <2> SUFFICES ASSUME NEW u \in Tab, timer'[u].fires = "confirm", split' # 0 PROVE FALSE
      BY DEF ConfirmsAlone
    <2>1. ~leader[u]
      BY <1>1, <1>5 DEF Regular
    <2>2. PICK a, t \in Awake : leader[a] /\ leader[t] /\ a < t
      BY <1>9
    <2>3. a \in Tab /\ t \in Tab /\ a # t
      BY <1>3, <1>4, <2>2
    <2>4. QED
      BY <2>1, <2>2, <2>3 DEF Timely
  <1>13. SplitIsBounded'
    <2> SUFFICES ASSUME suspends > 0, NEW a \in Open, NEW t \in Open, leader[a], leader[t], a < t
                 PROVE  IF {a, t} \subseteq Awake
                        THEN \/ split' <= Heartbeat - timer'[a].left
                             \/ \E m \in Mail(t)' : /\ m.type = "heartbeat" /\ m.from = a
                                                    /\ split' + m.left <= Heartbeat + Delay
                        ELSE split' = 0
      BY <1>2 DEF SplitIsBounded
    <2>1. a \in Tab /\ t \in Tab /\ a # t
      BY <1>3, <1>4
    <2>2. CASE a \in Awake /\ t \in Awake
      <3>1. /\ timer'[a].left = timer[a].left - 1 /\ timer[a].left \in Nat
        BY <1>4, <1>6, <2>1, <2>2
      <3>2. CASE split <= Heartbeat - timer[a].left
        BY <1>4, <1>8, <2>2, <3>1, <3>2
      <3>3. CASE \E m \in Mail(t) : /\ m.type = "heartbeat" /\ m.from = a
                                    /\ split + m.left <= Heartbeat + Delay
        <4>1. PICK m \in Mail(t) : /\ m.type = "heartbeat" /\ m.from = a
                                   /\ split + m.left <= Heartbeat + Delay
          BY <3>3
        <4>2. PICK n \in Mail(t)' : n.type = m.type /\ n.from = m.from /\ n.left = m.left - 1
          BY <1>6, <2>2
        <4>3. split' + n.left <= Heartbeat + Delay
          BY <1>4, <1>8, <2>1, <4>1, <4>2
        <4>4. QED
          BY <2>2, <4>1, <4>2, <4>3
      <3>4. QED
        BY <2>2, <3>2, <3>3 DEF PairInv, SplitIsBounded
    <2>3. CASE ~(a \in Awake /\ t \in Awake)
      <3>1. split' = 0
        BY <1>3, <1>4, <1>9, <2>1, <2>3 DEF Timely
      <3>2. QED
        BY <2>3, <3>1
    <2>4. QED
      BY <2>2, <2>3
  <1>14. SplitHeals'
    <2>1. CASE split' = 0
      BY <1>4, <2>1 DEF SplitHeals
    <2>2. ASSUME NEW a \in Awake, NEW t \in Awake, leader[a], leader[t], a < t
          PROVE  split' <= Heartbeat + Delay
      <3>1. /\ a \in Tab /\ t \in Tab /\ a \in Open /\ t \in Open
            /\ timer[a].left \in Nat /\ timer[a].left > 0
        BY <1>3, <1>4, <1>6
      <3>2. CASE split <= Heartbeat - timer[a].left
        BY <1>4, <1>8, <3>1, <3>2
      <3>3. ASSUME NEW m \in Mail(t), split + m.left <= Heartbeat + Delay
            PROVE  split' <= Heartbeat + Delay
        <4>1. m.left > 0 /\ m.left \in Nat
          BY <1>4, <1>6, <3>1, <3>3
        <4>2. QED
          BY <1>4, <1>8, <3>3, <4>1
      <3>4. suspends \in Nat
        BY <1>1, Numbers
      <3>5. suspends = 0 => split <= Heartbeat - timer[a].left
        BY <2>2 DEF PairInv, SplitIsNew
      <3>6. suspends > 0 => \/ split <= Heartbeat - timer[a].left
                            \/ \E m \in Mail(t) : split + m.left <= Heartbeat + Delay
        BY <2>2, <3>1 DEF PairInv, SplitIsBounded
      <3>7. QED
        BY <3>2, <3>3, <3>4, <3>5, <3>6
    <2>3. QED
      BY <1>9, <2>1, <2>2 DEF SplitHeals
  <1>15. QED
    BY <1>10, <1>11, <1>12, <1>13, <1>14

\* Timers, messages, what happens to a tab, and time itself keep the pair's invariant.
LEMMA PairStep == Parameters /\ Timely /\ PairInv /\ [Next]_vars => PairInv'
  <1> SUFFICES ASSUME Parameters, Timely, PairInv, [Next]_vars PROVE PairInv'
    OBVIOUS
  <1>1. Regular'
    BY RegularStep DEF PairInv
  <1>2. ASSUME NEW t \in Tab, Timers(t) \/ Messages(t)
        PROVE  PairInv'
    <2>1. phase' = phase /\ suspends' = suspends /\ split' = split
      BY <1>2 DEF Timers, Messages, TickLeading, TickFollowing, TickClaiming, Confirm,
                  OnHeartbeat, OnClaim, OnResign
    <2>2. LeaderIsHeard' /\ SplitIsNew' /\ ConfirmsAlone' /\ SplitIsBounded'
      BY <1>2, PairTimers, PairMessages
    <2>3. QED
      BY <1>1, <2>1, <2>2 DEF PairInv, SplitHeals
  <1>3. ASSUME NEW t \in Tab, Environment(t)
        PROVE  PairInv'
    <2>1. split' = split
      BY <1>3 DEF Environment, Join, Dispose, Crash, Suspend, Wake, Lose
    <2>2. QED
      BY <1>1, <1>3, <2>1, PairEnvironment DEF PairInv, SplitHeals
  <1>4. CASE Advance
    <2>1. phase' = phase /\ suspends' = suspends
      BY <1>4 DEF Advance
    <2>2. QED
      BY <1>1, <1>4, <2>1, PairAdvance DEF PairInv
  <1>5. CASE UNCHANGED vars
    BY <1>1, <1>5 DEF vars, PairInv, LeaderIsHeard, SplitIsNew, ConfirmsAlone, SplitIsBounded,
                      SplitHeals, Awake, Open, Echo, Claiming, Mail
  <1>6. QED
    BY <1>2, <1>3, <1>4, <1>5 DEF Next

----------------------------------------------------------------------------
\* Every tab's phase, timer and knowledge of a leader stay in their types, and every
\* message in flight is of a kind the handlers take, from a tab.
THEOREM TypeCorrect == ASSUME Parameters PROVE Spec => []TypeOK
  <1>1. Init => TypeOK
    BY TypedInit
  <1>2. TypeOK /\ [Next]_vars => TypeOK'
    BY TypedStep
  <1>3. QED
    BY <1>1, <1>2, PTL DEF Spec

\* Any number of tabs that hear each other at once, started, disposed and crashed in any
\* order, settle on at most one that leads: a claim is confirmed only after a heartbeat, and a
\* leader that hears the heartbeat of a smaller name gives way to it.
THEOREM OneLeads == ASSUME Parameters, Prompt PROVE Spec => []SettledSingleLeader
  <1>1. Init => CrowdInv
    BY CrowdInit
  <1>2. CrowdInv /\ [Next]_vars => CrowdInv'
    BY CrowdStep
  <1>3. CrowdInv => SettledSingleLeader
    BY CrowdSettles
  <1>4. QED
    BY <1>1, <1>2, <1>3, PTL DEF Spec

\* Of two tabs that may be suspended once, with messages that take less than a heartbeat and
\* than the timeout, one that leads beside the other gives way within a heartbeat and a
\* message's delay.
THEOREM SplitsHeal == ASSUME Parameters, Timely PROVE Spec => []SplitHeals
  <1>1. Init => PairInv
    BY PairInit
  <1>2. PairInv /\ [Next]_vars => PairInv'
    BY PairStep
  <1>3. PairInv => SplitHeals
    BY DEF PairInv
  <1>4. QED
    BY <1>1, <1>2, <1>3, PTL DEF Spec
=============================================================================
