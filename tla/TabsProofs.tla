----------------------------- MODULE TabsProofs -----------------------------
(***************************************************************************)
(* Proofs about the two protocols browser tabs speak, for every set of      *)
(* tabs, values and timings: the state is typed; a stamp with its origin    *)
(* names one write; tabs open from the start agree once nothing is left in  *)
(* flight; and of two leaders one gives way.                                *)
(***************************************************************************)
EXTENDS MCTabs, SequenceTheorems, TLAPS

Everywhere == InFlight \cup Held

----------------------------------------------------------------------------
\* What a queue carries after being extended or consumed.

\* What a queue carries are versions.
LEMMA CarriedTyped ==
    ASSUME NEW q \in Seq(Message)
    PROVE  Carried(q) \subseteq Versioned
  BY DEF Carried, Message

\* Joining two queues carries what either carried.
LEMMA CarriedConcat ==
    ASSUME NEW p \in Seq(Message), NEW q \in Seq(Message)
    PROVE  /\ p \o q \in Seq(Message)
           /\ Carried(p \o q) = Carried(p) \cup Carried(q)
  <1>1. /\ p \o q \in Seq(Message)
        /\ Len(p \o q) = Len(p) + Len(q)
        /\ \A i \in 1..(Len(p) + Len(q)) :
              (p \o q)[i] = IF i <= Len(p) THEN p[i] ELSE q[i - Len(p)]
    BY ConcatProperties
  <1>2. ASSUME NEW i \in DOMAIN (p \o q), (p \o q)[i].type = "update"
        PROVE  (p \o q)[i].entry \in Carried(p) \cup Carried(q)
    <2>1. i \in 1..(Len(p) + Len(q))
      BY <1>1, LenProperties
    <2>2. CASE i <= Len(p)
      <3>1. i \in DOMAIN p /\ (p \o q)[i] = p[i]
        BY <1>1, <2>1, <2>2, LenProperties
      <3>2. QED
        BY <1>2, <3>1 DEF Carried
    <2>3. CASE i > Len(p)
      <3>1. i - Len(p) \in DOMAIN q /\ (p \o q)[i] = q[i - Len(p)]
        BY <1>1, <2>1, <2>3, LenProperties
      <3>2. QED
        BY <1>2, <3>1 DEF Carried
    <2>4. QED
      BY <2>1, <2>2, <2>3, LenProperties
  <1>3. ASSUME NEW i \in DOMAIN p
        PROVE  i \in DOMAIN (p \o q) /\ (p \o q)[i] = p[i]
    BY <1>1, LenProperties
  <1>4. ASSUME NEW i \in DOMAIN q
        PROVE  Len(p) + i \in DOMAIN (p \o q) /\ (p \o q)[Len(p) + i] = q[i]
    BY <1>1, LenProperties
  <1>5. Carried(p \o q) \subseteq Carried(p) \cup Carried(q)
    BY <1>2 DEF Carried
  <1>6. Carried(p) \subseteq Carried(p \o q) /\ Carried(q) \subseteq Carried(p \o q)
    <2>1. Carried(p) \subseteq Carried(p \o q)
      BY <1>3 DEF Carried
    <2>2. Carried(q) \subseteq Carried(p \o q)
      BY <1>4 DEF Carried
    <2>3. QED
      BY <2>1, <2>2
  <1>7. QED
    BY <1>1, <1>5, <1>6

\* Handling the head of a queue adds nothing to what it carries.
LEMMA CarriedTail ==
    ASSUME NEW q \in Seq(Message), q # <<>>
    PROVE  /\ Tail(q) \in Seq(Message)
           /\ Carried(Tail(q)) \subseteq Carried(q)
           /\ Head(q) \in Message
           /\ Head(q).type = "update" => Head(q).entry \in Carried(q)
  <1>1. /\ Tail(q) \in Seq(Message)
        /\ Len(Tail(q)) = Len(q) - 1
        /\ \A i \in 1..Len(Tail(q)) : Tail(q)[i] = q[i + 1]
        /\ Head(q) \in Message
    BY HeadTailProperties
  <1>2. \A i \in DOMAIN Tail(q) : i + 1 \in DOMAIN q /\ Tail(q)[i] = q[i + 1]
    BY <1>1, LenProperties
  <1>3. 1 \in DOMAIN q /\ Head(q) = q[1]
    BY LenProperties, EmptySeq
  <1>4. QED
    BY <1>1, <1>2, <1>3 DEF Carried

\* Posting messages adds to every queue at most what the messages carry.
LEMMA PostedCarries ==
    ASSUME NEW queues \in [Tab -> Seq(Message)], NEW t,
           NEW messages \in Seq(Message)
    PROVE  /\ Posted(queues, t, messages) \in [Tab -> Seq(Message)]
           /\ \A u \in Tab : Carried(Posted(queues, t, messages)[u])
                                \subseteq Carried(queues[u]) \cup Carried(messages)
  BY CarriedConcat DEF Posted

\* Updates and requests are messages, and an update carries its version only.
LEMMA MessagesTyped ==
    /\ \A e \in Versioned : Update(e) \in Message
    /\ \A t \in Tab : Request(t) \in Message
    /\ \A e \in Versioned : <<Update(e)>> \in Seq(Message) /\ Carried(<<Update(e)>>) = {e}
    /\ \A t \in Tab : <<Request(t)>> \in Seq(Message) /\ Carried(<<Request(t)>>) = {}
  <1>1. \A e \in Versioned : Update(e) \in Message
    BY DEF Update, Message
  <1>2. \A t \in Tab : Request(t) \in Message
    BY DEF Request, Message
  <1>3. \A e \in Versioned : Carried(<<Update(e)>>) = {e}
    BY DEF Carried, Update
  <1>4. \A t \in Tab : Carried(<<Request(t)>>) = {}
    BY DEF Carried, Request
  <1>5. QED
    BY <1>1, <1>2, <1>3, <1>4

----------------------------------------------------------------------------
\* Type correctness.

Side == [local : Versioned, highest : Nat, sent : Seq(Message)]

\* From one side to another by a run of tab t's broadcasting effect: nothing, or
\* one new version, stamped above everything seen, held and sent.
Stamping(t, side, after) ==
    /\ after \in Side
    /\ after.highest >= side.highest
    /\ \/ after = side
       \/ /\ after.local.origin = t
          /\ after.local.at = after.highest
          /\ after.highest > side.highest
          /\ Carried(after.sent) = Carried(side.sent) \cup {after.local}

\* One run of the sharing effect stamps above all it has seen, or does nothing.
LEMMA ShareStamps ==
    ASSUME clock \in Nat, NEW side \in Side, NEW t \in Tab, NEW v \in Value
    PROVE  Stamping(t, side, Share(side, t, v))
  <1> DEFINE after == Share(side, t, v)
  <1>1. CASE v = side.local.value
    BY <1>1 DEF Share, Side, Stamping
  <1>2. CASE v # side.local.value
    <2> DEFINE entry == [value |-> v, at |-> NextStamp(side.highest), origin |-> t]
    <2>1. NextStamp(side.highest) \in Nat /\ NextStamp(side.highest) > side.highest
      BY DEF NextStamp, Later, Side
    <2>2. entry \in Versioned
      BY <2>1 DEF Versioned
    <2>3. after = [local |-> entry, highest |-> entry.at,
                   sent |-> Append(side.sent, Update(entry))]
      BY <1>2 DEF Share
    <2> HIDE DEF entry, after
    <2>4. side.sent \in Seq(Message) /\ Update(entry) \in Message
      BY <2>2, MessagesTyped DEF Side
    <2>5. /\ Append(side.sent, Update(entry)) = side.sent \o <<Update(entry)>>
          /\ Append(side.sent, Update(entry)) \in Seq(Message)
      BY <2>4, AppendIsConcat, AppendProperties
    <2>6. Carried(Append(side.sent, Update(entry))) = Carried(side.sent) \cup {entry}
      <3>1. <<Update(entry)>> \in Seq(Message) /\ Carried(<<Update(entry)>>) = {entry}
        BY <2>2, MessagesTyped
      <3>2. Carried(side.sent \o <<Update(entry)>>)
              = Carried(side.sent) \cup Carried(<<Update(entry)>>)
        BY <2>4, <3>1, CarriedConcat
      <3>3. QED
        BY <2>5, <3>1, <3>2
    <2>7. after \in Side
      BY <2>1, <2>2, <2>3, <2>5 DEF Side, Versioned
    <2>8. /\ after.local = entry
          /\ after.highest = entry.at
          /\ after.sent = Append(side.sent, Update(entry))
          /\ entry.origin = t /\ entry.at = NextStamp(side.highest)
      BY <2>3 DEF entry
    <2>9. after.highest > side.highest
      BY <2>1, <2>8
    <2>10. side.highest \in Nat /\ after.highest \in Nat
      BY <2>7 DEF Side
    <2>11. QED
      <3>1. Stamping(t, side, after)
        BY <2>6, <2>7, <2>8, <2>9, <2>10 DEF Stamping
      <3>2. QED
        BY <3>1 DEF after
  <1>3. QED
    BY <1>1, <1>2

\* After a run of the sharing effect its value is the one held.
LEMMA ShareHolds ==
    ASSUME NEW side, NEW t, NEW v PROVE Share(side, t, v).local.value = v
  BY DEF Share

\* The sharing effect sends nothing but updates.
LEMMA ShareUpdates ==
    ASSUME clock \in Nat, NEW side \in Side, NEW t \in Tab, NEW v \in Value,
           \A j \in DOMAIN side.sent : side.sent[j].type = "update"
    PROVE  \A j \in DOMAIN Share(side, t, v).sent : Share(side, t, v).sent[j].type = "update"
  <1> DEFINE entry == [value |-> v, at |-> NextStamp(side.highest), origin |-> t]
  <1>1. CASE v = side.local.value
    BY <1>1 DEF Share
  <1>2. CASE v # side.local.value
    <2>1. Share(side, t, v).sent = Append(side.sent, Update(entry))
      BY <1>2 DEF Share
    <2>2. entry \in Versioned
      BY DEF NextStamp, Later, Side, Versioned
    <2> HIDE DEF entry
    <2>3. side.sent \in Seq(Message) /\ Update(entry) \in Message
      BY <2>2, MessagesTyped DEF Side
    <2>4. Update(entry).type = "update"
      BY DEF Update
    <2>5. \A j \in DOMAIN Append(side.sent, Update(entry)) :
              Append(side.sent, Update(entry))[j].type = "update"
      <3>1. /\ Append(side.sent, Update(entry)) \in Seq(Message)
            /\ Len(Append(side.sent, Update(entry))) = Len(side.sent) + 1
            /\ \A i \in 1..Len(side.sent) :
                  Append(side.sent, Update(entry))[i] = side.sent[i]
            /\ Append(side.sent, Update(entry))[Len(side.sent) + 1] = Update(entry)
        BY <2>3, AppendProperties
      <3>2. /\ DOMAIN side.sent = 1..Len(side.sent) /\ Len(side.sent) \in Nat
            /\ DOMAIN Append(side.sent, Update(entry)) = 1..(Len(side.sent) + 1)
        BY <2>3, <3>1, LenProperties
      <3>3. QED
        BY <2>4, <3>1, <3>2
    <2>6. QED
      BY <2>1, <2>5
  <1>3. QED
    BY <1>1, <1>2

\* Writing v, by a first run of the effect that leaves mid and a second that leaves after.
Wrote(t, v, mid, after) ==
    /\ local' = [local EXCEPT ![t] = after.local]
    /\ highest' = [highest EXCEPT ![t] = after.highest]
    /\ inbox' = Posted(inbox, t, after.sent)
    /\ source' = [source EXCEPT ![t] = Reaction[t][v]]
    /\ after.local.value = Reaction[t][v]
    /\ \A j \in DOMAIN after.sent : after.sent[j].type = "update"
    /\ highest[t] <= mid.highest /\ mid.highest <= after.highest
    /\ \/ mid.local = local[t] /\ mid.highest = highest[t] /\ Carried(mid.sent) = {}
       \/ /\ mid.local.origin = t /\ mid.local.at = mid.highest
          /\ mid.highest > highest[t]
          /\ Carried(mid.sent) = {mid.local}
    /\ \/ after = mid
       \/ /\ after.local.origin = t /\ after.local.at = after.highest
          /\ after.highest > mid.highest
          /\ Carried(after.sent) = Carried(mid.sent) \cup {after.local}

\* What Write does, in terms of the two runs of the effect.
LEMMA WriteFacts ==
    ASSUME TypeOK, NEW t \in Tab, NEW v \in Value, Write(t, v)
    PROVE  \E mid \in Side, after \in Side : Wrote(t, v, mid, after)
  <1> DEFINE before == [local |-> local[t], highest |-> highest[t], sent |-> <<>>]
  <1>1. PICK first \in {v, Reaction[t][v]} :
          LET after == Share(Share(before, t, first), t, Reaction[t][v])
          IN /\ source' = [source EXCEPT ![t] = Reaction[t][v]]
             /\ local' = [local EXCEPT ![t] = after.local]
             /\ highest' = [highest EXCEPT ![t] = after.highest]
             /\ inbox' = Posted(inbox, t, after.sent)
    BY DEF Write
  <1>2. clock \in Nat /\ Reaction[t][v] \in Value /\ first \in Value
    BY ReactionAssumption DEF TypeOK
  <1>3. before \in Side /\ Carried(before.sent) = {}
    BY DEF TypeOK, Side, Carried
  <1> DEFINE mid == Share(before, t, first)
             after == Share(mid, t, Reaction[t][v])
  <1> HIDE DEF before, mid, after
  <1>4. mid \in Side /\ Stamping(t, before, mid)
    <2>1. Stamping(t, before, mid)
      BY <1>2, <1>3, ShareStamps DEF mid
    <2>2. QED
      BY <2>1 DEF Stamping
  <1>5. after \in Side /\ Stamping(t, mid, after)
    <2>1. Stamping(t, mid, after)
      BY <1>2, <1>4, ShareStamps DEF after
    <2>2. QED
      BY <2>1 DEF Stamping
  <1>6. /\ local' = [local EXCEPT ![t] = after.local]
        /\ highest' = [highest EXCEPT ![t] = after.highest]
        /\ inbox' = Posted(inbox, t, after.sent)
        /\ source' = [source EXCEPT ![t] = Reaction[t][v]]
    BY <1>1 DEF before, mid, after
  <1>7. highest[t] <= mid.highest /\ mid.highest <= after.highest
    BY <1>4, <1>5 DEF Stamping, before
  <1>8. \/ mid.local = local[t] /\ mid.highest = highest[t] /\ Carried(mid.sent) = {}
        \/ /\ mid.local.origin = t /\ mid.local.at = mid.highest
           /\ mid.highest > highest[t]
           /\ Carried(mid.sent) = {mid.local}
    BY <1>3, <1>4 DEF Stamping, before
  <1>9. \/ after = mid
        \/ /\ after.local.origin = t /\ after.local.at = after.highest
           /\ after.highest > mid.highest
           /\ Carried(after.sent) = Carried(mid.sent) \cup {after.local}
    BY <1>5 DEF Stamping
  <1>10. after.local.value = Reaction[t][v]
    BY ShareHolds DEF after
  <1>11. \A j \in DOMAIN after.sent : after.sent[j].type = "update"
    <2>1. before.sent = <<>>
      BY DEF before
    <2>2. \A j \in DOMAIN before.sent : before.sent[j].type = "update"
      BY <2>1
    <2>3. \A j \in DOMAIN mid.sent : mid.sent[j].type = "update"
      BY <1>2, <1>3, <2>2, ShareUpdates DEF mid
    <2>4. QED
      BY <1>2, <1>4, <2>3, ShareUpdates DEF after
  <1>12. QED
    <2>1. Wrote(t, v, mid, after)
      BY <1>6, <1>7, <1>8, <1>9, <1>10, <1>11 DEF Wrote
    <2>2. QED
      BY <1>4, <1>5, <2>1

\* What the signal starts from, whichever tabs are open from the start.
Start ==
    /\ clock = 0
    /\ phase \in [Tab -> {"open", "unopened"}]
    /\ source = [t \in Tab |-> Initial]
    /\ local = [t \in Tab |-> Stamped(t, Initial)]
    /\ highest = [t \in Tab |-> 0]
    /\ born = [t \in Tab |-> 0]
    /\ inbox = [t \in Tab |-> <<>>]
    /\ writes = 0
    /\ sleeps = 0

\* Both initial predicates open some of the tabs.
LEMMA Starts == (Init => Start) /\ (Late!Init => Start)
  <1>1. Init => Start
    BY DEF Init, Start
  <1>2. Late!Init => Start
    BY DEF Late!Init, Late!Stamped, Start, Stamped
  <1>3. QED
    BY <1>1, <1>2

\* Tabs with the initial value are well typed.
LEMMA TypedStart == Start => TypeOK
  BY TabAssumption, ValueAssumption, BoundAssumption
  DEF Start, TypeOK, Stamped, Versioned

\* Handling the head of a queue that has one leaves queues of messages.
LEMMA HandledTyped ==
    ASSUME inbox \in [Tab -> Seq(Message)], NEW t \in Tab, inbox[t] # <<>>
    PROVE  /\ Handled(t) \in [Tab -> Seq(Message)]
           /\ Head(inbox[t]) \in Message
           /\ \A u \in Tab : Carried(Handled(t)[u]) \subseteq Carried(inbox[u])
           /\ Head(inbox[t]).type = "update" => Head(inbox[t]).entry \in Carried(inbox[t])
  <1>1. inbox[t] \in Seq(Message)
    OBVIOUS
  <1>2. /\ Tail(inbox[t]) \in Seq(Message)
        /\ Carried(Tail(inbox[t])) \subseteq Carried(inbox[t])
        /\ Head(inbox[t]) \in Message
        /\ Head(inbox[t]).type = "update" => Head(inbox[t]).entry \in Carried(inbox[t])
    BY <1>1, CarriedTail
  <1>3. \A u \in Tab : Handled(t)[u] = IF u = t THEN Tail(inbox[t]) ELSE inbox[u]
    BY DEF Handled
  <1>4. QED
    BY <1>2, <1>3 DEF Handled

\* The version an update at the head of a queue carries, and the winner over it.
LEMMA IncomingUpdate ==
    ASSUME TypeOK, NEW t \in Tab, Incoming(t, "update")
    PROVE  /\ Head(inbox[t]).entry \in Versioned
           /\ Head(inbox[t]).entry \in Carried(inbox[t])
           /\ lastWriteWins(local[t], Head(inbox[t]).entry)
                \in {local[t], Head(inbox[t]).entry}
  <1>1. Head(inbox[t]).entry \in Carried(inbox[t])
    BY HandledTyped DEF TypeOK, Incoming
  <1>2. Carried(inbox[t]) \subseteq Versioned
    BY CarriedTyped DEF TypeOK
  <1>3. QED
    BY <1>1, <1>2 DEF lastWriteWins

\* Every action keeps every variable in its type, one step per action.
LEMMA TypedStep == TypeOK /\ [Next]_vars => TypeOK'
  <1> SUFFICES ASSUME TypeOK, [Next]_vars PROVE TypeOK'
    OBVIOUS
  <1> USE BoundAssumption
  <1>1. ASSUME NEW t \in Tab, Open(t) PROVE TypeOK'
    <2>1. Stamped(t, source[t]) \in Versioned
      BY DEF TypeOK, Stamped, Versioned
    <2>2. QED
      BY <1>1, <2>1 DEF Open, TypeOK
  <1>2. ASSUME NEW t \in Tab, OnUpdate(t) PROVE TypeOK'
    <2> DEFINE incoming == Head(inbox[t]).entry
               winner == lastWriteWins(local[t], incoming)
    <2>1. incoming \in Versioned /\ winner \in Versioned
      BY <1>2, IncomingUpdate DEF OnUpdate, TypeOK
    <2>2. inbox' \in [Tab -> Seq(Message)]
      BY <1>2, HandledTyped DEF OnUpdate, Incoming, TypeOK
    <2>3. Later(highest[t], incoming.at) \in Nat
      BY <2>1 DEF Later, TypeOK, Versioned
    <2>4. Applied(t, winner.value) \in Value
      BY <2>1, ReactionAssumption DEF Applied, Versioned
    <2>5. /\ local' \in [Tab -> Versioned]
          /\ highest' \in [Tab -> Nat]
          /\ source' \in [Tab -> Value]
      BY <1>2, <2>1, <2>3, <2>4 DEF OnUpdate, TypeOK
    <2>6. QED
      BY <1>2, <2>2, <2>5 DEF OnUpdate, TypeOK
  <1>3. ASSUME NEW t \in Tab, OnRequest(t) PROVE TypeOK'
    <2>1. Handled(t) \in [Tab -> Seq(Message)]
      BY <1>3, HandledTyped DEF OnRequest, Incoming, TypeOK
    <2>2. <<Update(local[t])>> \in Seq(Message)
      BY MessagesTyped DEF TypeOK
    <2>3. inbox' \in [Tab -> Seq(Message)]
      BY <1>3, <2>1, <2>2, PostedCarries DEF OnRequest
    <2>4. QED
      BY <1>3, <2>3 DEF OnRequest, TypeOK
  <1>4. ASSUME NEW t \in Tab, Dispose(t) PROVE TypeOK'
    BY <1>4 DEF Dispose, TypeOK
  <1>5. ASSUME NEW t \in Tab, Sleep(t) PROVE TypeOK'
    BY <1>5 DEF Sleep, TypeOK
  <1>6. ASSUME NEW t \in Tab, Lose(t) PROVE TypeOK'
    BY <1>6, HandledTyped DEF Lose, TypeOK
  <1>7. ASSUME NEW t \in Tab, Wake(t) PROVE TypeOK'
    <2>1. <<Request(t)>> \in Seq(Message)
      BY MessagesTyped
    <2>2. inbox' \in [Tab -> Seq(Message)]
      BY <1>7, <2>1, PostedCarries DEF Wake, TypeOK
    <2>3. QED
      BY <1>7, <2>2 DEF Wake, TypeOK
  <1>8. ASSUME NEW t \in Tab, NEW v \in Value, Write(t, v) PROVE TypeOK'
    <2>1. PICK mid \in Side, after \in Side : Wrote(t, v, mid, after)
      BY <1>8, WriteFacts
    <2>2. inbox' \in [Tab -> Seq(Message)]
      BY <2>1, PostedCarries DEF TypeOK, Side, Wrote
    <2>3. Reaction[t][v] \in Value
      BY ReactionAssumption
    <2>4. QED
      BY <1>8, <2>1, <2>2, <2>3 DEF Write, TypeOK, Side, Wrote
  <1>9. CASE Tick
    BY <1>9 DEF Tick, TypeOK
  <1>10. CASE UNCHANGED vars
    BY <1>10 DEF vars, TypeOK
  <1>11. QED
    BY <1>1, <1>2, <1>3, <1>4, <1>5, <1>6, <1>7, <1>8, <1>9, <1>10 DEF Next, Receive

\* Every tab holds a versioned value and a highest stamp, and every message on its
\* way is an update with a version or a request.
THEOREM SignalTyped == Spec => []TypeOK
  <1>1. Init => TypeOK
    BY Starts, TypedStart
  <1>2. QED
    BY <1>1, TypedStep, PTL DEF Spec

----------------------------------------------------------------------------
\* Stamps.  The two invariants are not inductive on their own: a tab that opens
\* lowers its highest stamp to the clock, which is harmless because nothing else
\* carries its origin yet.

Covered(E, seen) == \A e \in E : e.at <= seen[e.origin]
Named(E) == \A e, f \in E : e.at = f.at /\ e.origin = f.origin => e = f

Untouched ==
    \A u \in Tab : phase[u] = "unopened" =>
        /\ \A e \in InFlight : e.origin # u
        /\ \A w \in Tab \ {u} : local[w].origin # u

StampInv == TypeOK /\ StampNamesWrite /\ StampsCovered /\ Untouched

\* A version stamped above everything seen keeps versions covered and named.
LEMMA FreshStamp ==
    ASSUME NEW E \in SUBSET Versioned, NEW seen \in [Tab -> Nat], NEW t \in Tab,
           NEW x \in Versioned, x.origin = t, x.at > seen[t],
           Covered(E, seen), Named(E)
    PROVE  /\ Covered(E \cup {x}, [seen EXCEPT ![t] = x.at])
           /\ Named(E \cup {x})
  BY DEF Covered, Named, Versioned

\* The versions held and in flight are versions.
LEMMA EverywhereTyped ==
    ASSUME TypeOK PROVE Everywhere \in SUBSET Versioned
  <1>1. \A u \in Tab : Carried(inbox[u]) \subseteq Versioned
    BY CarriedTyped DEF TypeOK
  <1>2. QED
    BY <1>1 DEF Everywhere, InFlight, Held, TypeOK

\* Versions are everywhere those of the queues and those held.
LEMMA EverywhereAfter ==
    ASSUME NEW E, \A u \in Tab : Carried(inbox'[u]) \subseteq E /\ local'[u] \in E
    PROVE  Everywhere' \subseteq E
  BY DEF Everywhere, InFlight, Held

\* Versions are in flight everywhere those of the queues.
LEMMA InFlightAfter ==
    ASSUME NEW E, \A u \in Tab : Carried(inbox'[u]) \subseteq E
    PROVE  InFlight' \subseteq E
  BY DEF InFlight

\* At first each tab holds a version of its own, older than any stamp.
LEMMA StampStart == Start => StampInv
  <1> SUFFICES ASSUME Start PROVE StampInv
    OBVIOUS
  <1>1. TypeOK
    BY TypedStart
  <1>2. InFlight = {}
    BY DEF Start, InFlight, Carried
  <1>3. Held = {Stamped(u, Initial) : u \in Tab}
    BY DEF Start, Held
  <1>4. StampNamesWrite /\ StampsCovered
    BY <1>2, <1>3, TabAssumption DEF Start, StampNamesWrite, StampsCovered, Stamped
  <1>5. Untouched
    BY <1>2 DEF Start, Untouched, Stamped
  <1>6. QED
    BY <1>1, <1>4, <1>5 DEF StampInv

\* A step that makes no version and lowers no highest stamp keeps the invariant.
LEMMA NothingNew ==
    ASSUME StampInv, TypeOK', Everywhere' \subseteq Everywhere,
           \A u \in Tab : highest[u] <= highest'[u] /\ local'[u].at <= highest'[u]
    PROVE  StampNamesWrite' /\ StampsCovered'
  <1>1. \A e \in Everywhere : e.origin \in Tab /\ e.at \in Nat
    BY EverywhereTyped DEF StampInv, Versioned
  <1>2. StampNamesWrite'
    BY DEF StampInv, StampNamesWrite, Everywhere
  <1>3. \A e \in Everywhere' : e.at <= highest'[e.origin]
    <2> SUFFICES ASSUME NEW e \in Everywhere' PROVE e.at <= highest'[e.origin]
      OBVIOUS
    <2>1. e \in Everywhere /\ e.origin \in Tab /\ e.at \in Nat
      BY <1>1
    <2>2. e.at <= highest[e.origin] /\ highest[e.origin] <= highest'[e.origin]
      BY <2>1 DEF StampInv, StampsCovered, Everywhere
    <2>3. highest[e.origin] \in Nat /\ highest'[e.origin] \in Nat
      BY <2>1 DEF StampInv, TypeOK
    <2>4. QED
      BY <2>1, <2>2, <2>3
  <1>4. QED
    BY <1>2, <1>3 DEF StampsCovered, Everywhere

\* Opening replaces the one version its tab ever carried.
LEMMA StampOpen ==
    ASSUME StampInv, TypeOK', NEW t \in Tab, Open(t)
    PROVE  StampNamesWrite' /\ StampsCovered' /\ Untouched'
  <1> USE DEF StampInv
  <1> DEFINE x == Stamped(t, source[t])
             E == {e \in Everywhere : e.origin # t}
  <1>1. /\ x.origin = t /\ x.at = clock
        /\ local' = [local EXCEPT ![t] = x]
        /\ highest' = [highest EXCEPT ![t] = clock]
        /\ phase' = [phase EXCEPT ![t] = "open"]
        /\ phase[t] = "unopened"
        /\ inbox' = inbox
    BY DEF Open, Stamped
  <1> HIDE DEF x
  <1>2. Everywhere' \subseteq E \cup {x}
    <2>1. \A u \in Tab : Carried(inbox[u]) \subseteq E
      BY <1>1 DEF Untouched, InFlight, Everywhere
    <2>2. \A u \in Tab : local'[u] \in E \cup {x}
      BY <1>1 DEF Untouched, Held, Everywhere, TypeOK
    <2>3. QED
      BY <1>1, <2>1, <2>2, EverywhereAfter
  <1>3. \A e \in E : e.origin # t /\ e.origin \in Tab /\ e.at <= highest[e.origin]
    BY EverywhereTyped DEF StampsCovered, Everywhere, Versioned
  <1>4. StampNamesWrite'
    BY <1>1, <1>2, <1>3 DEF StampNamesWrite, Everywhere
  <1>5. StampsCovered'
    <2>1. \A e \in Everywhere' : e.at <= highest'[e.origin]
      BY <1>1, <1>2, <1>3 DEF TypeOK
    <2>2. \A u \in Tab : local'[u].at <= highest'[u]
      BY <1>1 DEF StampsCovered, TypeOK
    <2>3. QED
      BY <2>1, <2>2 DEF StampsCovered, Everywhere
  <1>6. Untouched'
    <2>1. InFlight' = InFlight
      BY <1>1 DEF InFlight
    <2>2. QED
      BY <1>1, <2>1 DEF Untouched, TypeOK
  <1>7. QED
    BY <1>4, <1>5, <1>6

\* An adopted version was in flight, and the highest stamp moves up with it.
LEMMA StampUpdate ==
    ASSUME StampInv, TypeOK', NEW t \in Tab, OnUpdate(t)
    PROVE  StampNamesWrite' /\ StampsCovered' /\ Untouched'
  <1> USE DEF StampInv
  <1> DEFINE incoming == Head(inbox[t]).entry
             winner == lastWriteWins(local[t], incoming)
  <1>1. /\ incoming \in Versioned
        /\ incoming \in Carried(inbox[t])
        /\ winner \in {local[t], incoming}
    BY IncomingUpdate DEF OnUpdate
  <1>2. \A u \in Tab : Carried(inbox'[u]) \subseteq Carried(inbox[u])
    BY HandledTyped DEF OnUpdate, Incoming, TypeOK
  <1>3. /\ local' = local /\ highest' = highest
        \/ /\ local' = [local EXCEPT ![t] = winner]
           /\ highest' = [highest EXCEPT ![t] = Later(@, incoming.at)]
    BY DEF OnUpdate
  <1>4. phase[t] = "open" /\ phase' = phase
    BY DEF OnUpdate, Incoming
  <1> HIDE DEF incoming, winner
  <1>5. \A u \in Tab : local'[u] \in {local[u], incoming}
    BY <1>1, <1>3 DEF TypeOK
  <1>6. incoming \in InFlight /\ incoming \in Everywhere
    BY <1>1 DEF InFlight, Everywhere
  <1>7. Everywhere' \subseteq Everywhere
    <2>1. \A u \in Tab : Carried(inbox'[u]) \subseteq Everywhere /\ local'[u] \in Everywhere
      BY <1>2, <1>5, <1>6 DEF Everywhere, InFlight, Held
    <2>2. QED
      BY <2>1, EverywhereAfter
  <1>8. \A u \in Tab : highest[u] <= highest'[u] /\ local'[u].at <= highest'[u]
    <2> SUFFICES ASSUME NEW u \in Tab
                 PROVE  highest[u] <= highest'[u] /\ local'[u].at <= highest'[u]
      OBVIOUS
    <2>1. /\ highest[u] \in Nat /\ local[u].at \in Nat /\ incoming.at \in Nat
          /\ local[u].at <= highest[u]
      BY <1>1 DEF TypeOK, StampsCovered, Versioned
    <2>2. CASE local'[u] = local[u] /\ highest'[u] = highest[u]
      BY <2>1, <2>2
    <2>3. CASE local'[u] = winner /\ highest'[u] = Later(highest[u], incoming.at) /\ u = t
      BY <1>1, <2>1, <2>3 DEF Later
    <2>4. QED
      BY <1>3, <2>2, <2>3 DEF TypeOK
  <1>9. StampNamesWrite' /\ StampsCovered'
    BY <1>7, <1>8, NothingNew
  <1>10. InFlight' \subseteq InFlight
    <2>1. \A u \in Tab : Carried(inbox'[u]) \subseteq InFlight
      BY <1>2 DEF InFlight
    <2>2. QED
      BY <2>1, InFlightAfter
  <1>11. Untouched'
    BY <1>4, <1>5, <1>6, <1>10 DEF Untouched
  <1>12. QED
    BY <1>9, <1>11

\* A step that leaves the versions held alone, opens nothing, and puts in flight
\* nothing but what the open tab t holds.
LEMMA StampSent ==
    ASSUME StampInv, TypeOK', NEW t \in Tab, phase[t] # "unopened",
           UNCHANGED <<local, highest>>,
           \A u \in Tab : phase'[u] = "unopened" => phase[u] = "unopened",
           \A u \in Tab : Carried(inbox'[u]) \subseteq InFlight \cup {local[t]}
    PROVE  StampNamesWrite' /\ StampsCovered' /\ Untouched'
  <1> USE DEF StampInv
  <1>1. Everywhere' \subseteq Everywhere
    <2>1. \A u \in Tab : Carried(inbox'[u]) \subseteq Everywhere /\ local'[u] \in Everywhere
      BY DEF Everywhere, Held
    <2>2. QED
      BY <2>1, EverywhereAfter
  <1>2. \A u \in Tab : highest[u] <= highest'[u] /\ local'[u].at <= highest'[u]
    BY DEF StampsCovered, TypeOK
  <1>3. StampNamesWrite' /\ StampsCovered'
    BY <1>1, <1>2, NothingNew
  <1>4. InFlight' \subseteq InFlight \cup {local[t]}
    BY InFlightAfter
  <1>5. Untouched'
    BY <1>4 DEF Untouched
  <1>6. QED
    BY <1>3, <1>5

\* The versions a write makes are fresh, one after the other.
LEMMA StampWrite ==
    ASSUME StampInv, TypeOK', NEW t \in Tab, NEW v \in Value, Write(t, v)
    PROVE  StampNamesWrite' /\ StampsCovered' /\ Untouched'
  <1> USE DEF StampInv
  <1>1. PICK mid \in Side, after \in Side : Wrote(t, v, mid, after)
    BY WriteFacts
  <1> USE DEF Wrote
  <1>2. phase[t] = "open" /\ phase' = phase
    BY DEF Write
  <1> DEFINE seen1 == [highest EXCEPT ![t] = mid.highest]
             seen2 == [highest EXCEPT ![t] = after.highest]
             E1 == Everywhere \cup {mid.local}
             E2 == E1 \cup {after.local}
  <1>3. /\ mid.local \in Versioned /\ after.local \in Versioned
        /\ mid.highest \in Nat /\ after.highest \in Nat
        /\ seen1 \in [Tab -> Nat]
        /\ seen2 = [seen1 EXCEPT ![t] = after.highest]
        /\ local[t] \in Everywhere
    BY DEF Side, TypeOK, Everywhere, Held
  <1>4. Covered(E1, seen1) /\ Named(E1) /\ E1 \in SUBSET Versioned
    <2>1. /\ Covered(Everywhere, highest) /\ Named(Everywhere)
          /\ Everywhere \in SUBSET Versioned
      BY EverywhereTyped DEF StampNamesWrite, StampsCovered, Covered, Named, Everywhere
    <2>2. CASE mid.local = local[t] /\ mid.highest = highest[t]
      <3>1. E1 = Everywhere /\ seen1 = highest
        BY <1>3, <2>2 DEF TypeOK
      <3>2. QED
        BY <2>1, <3>1
    <2>3. CASE mid.local.origin = t /\ mid.local.at = mid.highest /\ mid.highest > highest[t]
      <3>1. seen1 = [highest EXCEPT ![t] = mid.local.at]
        BY <2>3
      <3>2. highest \in [Tab -> Nat]
        BY DEF TypeOK
      <3> HIDE DEF seen1
      <3>3. Covered(E1, seen1) /\ Named(E1)
        BY <1>3, <2>1, <2>3, <3>1, <3>2, FreshStamp
      <3>4. QED
        BY <1>3, <2>1, <3>3
    <2>4. QED
      BY <1>1, <2>2, <2>3
  <1>5. seen1[t] = mid.highest
    BY DEF TypeOK
  <1> HIDE DEF seen1, seen2, E1
  <1>6. Covered(E2, seen2) /\ Named(E2)
    <2>1. CASE after = mid
      <3>1. E2 = E1
        BY <2>1 DEF E1
      <3>2. seen2 = seen1
        BY <2>1 DEF seen1, seen2
      <3>3. QED
        BY <1>4, <3>1, <3>2
    <2>2. CASE /\ after.local.origin = t /\ after.local.at = after.highest
               /\ after.highest > mid.highest
      <3>1. seen2 = [seen1 EXCEPT ![t] = after.local.at]
        BY <1>3, <2>2
      <3>2. after.local.at > seen1[t]
        BY <1>5, <2>2
      <3>3. /\ Covered(E1 \cup {after.local}, [seen1 EXCEPT ![t] = after.local.at])
            /\ Named(E1 \cup {after.local})
        <4>1. after.local \in Versioned /\ after.local.origin = t
          BY <1>3, <2>2
        <4>2. seen1 \in [Tab -> Nat]
          BY <1>3
        <4>3. QED
          BY <1>4, <3>2, <4>1, <4>2, FreshStamp
      <3>4. QED
        BY <3>1, <3>3
    <2>3. QED
      BY <1>1, <2>1, <2>2
  <1>7. Carried(after.sent) \subseteq {mid.local, after.local}
    BY <1>1
  <1>8. \A u \in Tab : Carried(inbox'[u]) \subseteq Carried(inbox[u]) \cup Carried(after.sent)
    BY <1>1, PostedCarries DEF TypeOK, Side
  <1>9. Everywhere' \subseteq E2
    <2>1. \A u \in Tab : Carried(inbox'[u]) \subseteq E2
      BY <1>7, <1>8 DEF E1, Everywhere, InFlight
    <2>2. \A u \in Tab : local'[u] \in E2
      BY <1>1 DEF E1, Everywhere, Held, TypeOK
    <2>3. QED
      BY <2>1, <2>2, EverywhereAfter
  <1>10. highest' = seen2
    BY <1>1 DEF seen2
  <1>11. StampNamesWrite'
    BY <1>6, <1>9 DEF Named, StampNamesWrite, Everywhere
  <1>12. \A u \in Tab : local'[u].at <= highest'[u]
    <2>1. after.local.at <= after.highest
      BY <1>1 DEF StampsCovered, TypeOK
    <2>2. QED
      BY <1>1, <2>1 DEF StampsCovered, TypeOK
  <1>13. StampsCovered'
    BY <1>6, <1>9, <1>10, <1>12 DEF Covered, StampsCovered, Everywhere
  <1>14. Untouched'
    <2> SUFFICES ASSUME NEW u \in Tab, phase[u] = "unopened"
                 PROVE  /\ \A e \in InFlight' : e.origin # u
                        /\ \A w \in Tab \ {u} : local'[w].origin # u
      BY <1>2 DEF Untouched
    <2>1. u # t
      BY <1>2
    <2>2. mid.local.origin # u /\ after.local.origin # u
      BY <1>1, <2>1 DEF Untouched
    <2>3. InFlight' \subseteq InFlight \cup {mid.local, after.local}
      <3>1. \A w \in Tab :
              Carried(inbox'[w]) \subseteq InFlight \cup {mid.local, after.local}
        BY <1>7, <1>8 DEF InFlight
      <3>2. QED
        BY <3>1, InFlightAfter
    <2>4. QED
      BY <1>1, <2>2, <2>3 DEF Untouched, TypeOK
  <1>15. QED
    BY <1>11, <1>13, <1>14

\* Every action keeps stamps unique and covered, one step per action.
LEMMA StampStep == StampInv /\ [Next]_vars => StampInv'
  <1> SUFFICES ASSUME StampInv, [Next]_vars PROVE StampInv'
    OBVIOUS
  <1>1. TypeOK'
    BY TypedStep DEF StampInv
  <1>2. SUFFICES StampNamesWrite' /\ StampsCovered' /\ Untouched'
    BY <1>1 DEF StampInv
  <1>3. ASSUME NEW t \in Tab, Open(t)
        PROVE  StampNamesWrite' /\ StampsCovered' /\ Untouched'
    BY <1>1, <1>3, StampOpen
  <1>4. ASSUME NEW t \in Tab, OnUpdate(t)
        PROVE  StampNamesWrite' /\ StampsCovered' /\ Untouched'
    BY <1>1, <1>4, StampUpdate
  <1>5. ASSUME NEW t \in Tab, OnRequest(t)
        PROVE  StampNamesWrite' /\ StampsCovered' /\ Untouched'
    <2>1. Handled(t) \in [Tab -> Seq(Message)]
          /\ \A u \in Tab : Carried(Handled(t)[u]) \subseteq Carried(inbox[u])
      BY <1>5, HandledTyped DEF OnRequest, Incoming, StampInv, TypeOK
    <2>2. <<Update(local[t])>> \in Seq(Message) /\ Carried(<<Update(local[t])>>) = {local[t]}
      BY MessagesTyped DEF StampInv, TypeOK
    <2>3. \A u \in Tab : Carried(inbox'[u]) \subseteq InFlight \cup {local[t]}
      <3>1. inbox' = Posted(Handled(t), t, <<Update(local[t])>>)
        BY <1>5 DEF OnRequest
      <3>2. \A u \in Tab : Carried(inbox'[u]) \subseteq Carried(Handled(t)[u]) \cup {local[t]}
        BY <2>1, <2>2, <3>1, PostedCarries
      <3>3. \A u \in Tab : Carried(inbox[u]) \subseteq InFlight
        BY DEF InFlight
      <3>4. QED
        BY <2>1, <3>2, <3>3
    <2>4. QED
      BY <1>1, <1>5, <2>3, StampSent DEF OnRequest, Incoming
  <1>6. ASSUME NEW t \in Tab, Dispose(t)
        PROVE  StampNamesWrite' /\ StampsCovered' /\ Untouched'
    <2>1. \A u \in Tab : Carried(inbox'[u]) \subseteq InFlight
      BY <1>6 DEF Dispose, InFlight, Carried, StampInv, TypeOK
    <2>2. phase' = [phase EXCEPT ![t] = "disposed"] /\ phase[t] = "open"
      BY <1>6 DEF Dispose
    <2>3. \A u \in Tab : phase'[u] = "unopened" => phase[u] = "unopened"
      BY <2>2 DEF StampInv, TypeOK
    <2>4. QED
      BY <1>1, <1>6, <2>1, <2>2, <2>3, StampSent DEF Dispose
  <1>7. ASSUME NEW t \in Tab, Sleep(t)
        PROVE  StampNamesWrite' /\ StampsCovered' /\ Untouched'
    <2>1. \A u \in Tab : Carried(inbox'[u]) \subseteq InFlight
      BY <1>7 DEF Sleep, InFlight
    <2>2. phase' = [phase EXCEPT ![t] = "asleep"] /\ phase[t] = "open"
      BY <1>7 DEF Sleep
    <2>3. \A u \in Tab : phase'[u] = "unopened" => phase[u] = "unopened"
      BY <2>2 DEF StampInv, TypeOK
    <2>4. QED
      BY <1>1, <1>7, <2>1, <2>2, <2>3, StampSent DEF Sleep
  <1>8. ASSUME NEW t \in Tab, Lose(t)
        PROVE  StampNamesWrite' /\ StampsCovered' /\ Untouched'
    <2>1. \A u \in Tab : Carried(inbox'[u]) \subseteq InFlight
      BY <1>8, HandledTyped DEF Lose, InFlight, StampInv, TypeOK
    <2>2. QED
      BY <1>1, <1>8, <2>1, StampSent DEF Lose
  <1>9. ASSUME NEW t \in Tab, Wake(t)
        PROVE  StampNamesWrite' /\ StampsCovered' /\ Untouched'
    <2>1. <<Request(t)>> \in Seq(Message) /\ Carried(<<Request(t)>>) = {}
      BY MessagesTyped
    <2>2. \A u \in Tab : Carried(inbox'[u]) \subseteq InFlight
      <3>1. inbox' = Posted(inbox, t, <<Request(t)>>) /\ inbox \in [Tab -> Seq(Message)]
        BY <1>9 DEF Wake, StampInv, TypeOK
      <3>2. \A u \in Tab : Carried(inbox'[u]) \subseteq Carried(inbox[u]) \cup {}
        BY <2>1, <3>1, PostedCarries
      <3>3. QED
        BY <3>2 DEF InFlight
    <2>3. phase' = [phase EXCEPT ![t] = "open"] /\ phase[t] = "asleep"
      BY <1>9 DEF Wake
    <2>4. \A u \in Tab : phase'[u] = "unopened" => phase[u] = "unopened"
      BY <2>3 DEF StampInv, TypeOK
    <2>5. QED
      BY <1>1, <1>9, <2>2, <2>3, <2>4, StampSent DEF Wake
  <1>10. ASSUME NEW t \in Tab, NEW v \in Value, Write(t, v)
         PROVE  StampNamesWrite' /\ StampsCovered' /\ Untouched'
    BY <1>1, <1>10, StampWrite
  <1>11. CASE Tick
    BY <1>11 DEF Tick, StampInv, StampNamesWrite, StampsCovered, Untouched, InFlight, Held
  <1>12. CASE UNCHANGED vars
    BY <1>12 DEF vars, StampInv, StampNamesWrite, StampsCovered, Untouched, InFlight, Held
  <1>13. QED
    BY <1>3, <1>4, <1>5, <1>6, <1>7, <1>8, <1>9, <1>10, <1>11, <1>12 DEF Next, Receive

\* A stamp and an origin name one write, and no version, held or in flight, is
\* stamped above what its origin has seen: nextStamp never repeats a stamp, for
\* any number of tabs, any clock and any loss of messages.
THEOREM StampsUnique == Spec => [](StampNamesWrite /\ StampsCovered)
  <1>1. StampInv => StampNamesWrite /\ StampsCovered
    BY DEF StampInv
  <1>2. Init => StampInv
    BY Starts, StampStart
  <1>3. QED
    BY <1>1, <1>2, StampStep, PTL DEF Spec

----------------------------------------------------------------------------
Forward == \A t \in Tab : phase[t] # "unopened" => local'[t] = local[t] \/ Beats(local'[t], local[t])

\* A tab that has opened ends with what it had or with what beats it.
LEMMA StepForward == StampInv /\ [Next]_vars => Forward
  <1> SUFFICES ASSUME StampInv, [Next]_vars, NEW u \in Tab, phase[u] # "unopened"
               PROVE  local'[u] = local[u] \/ Beats(local'[u], local[u])
    BY DEF Forward
  <1> USE DEF StampInv
  <1>1. ASSUME NEW t \in Tab, Open(t)
        PROVE  local'[u] = local[u]
    BY <1>1 DEF Open, TypeOK
  <1>2. ASSUME NEW t \in Tab, OnUpdate(t)
        PROVE  local'[u] = local[u] \/ Beats(local'[u], local[u])
    BY <1>2 DEF OnUpdate, lastWriteWins, TypeOK
  <1>3. ASSUME NEW t \in Tab, NEW v \in Value, Write(t, v)
        PROVE  local'[u] = local[u] \/ Beats(local'[u], local[u])
    <2>1. PICK mid \in Side, after \in Side : Wrote(t, v, mid, after)
      BY <1>3, WriteFacts
    <2>2. /\ local[t].at <= highest[t] /\ local[t].at \in Nat /\ highest[t] \in Nat
          /\ mid.highest \in Nat /\ after.highest \in Nat
      BY DEF StampsCovered, TypeOK, Versioned, Side
    <2>3. after.local = local[t] \/ after.local.at > local[t].at
      BY <2>1, <2>2 DEF Wrote
    <2>4. QED
      BY <2>1, <2>3 DEF Beats, TypeOK, Wrote
  <1>4. ASSUME NEW t \in Tab,
               OnRequest(t) \/ Dispose(t) \/ Sleep(t) \/ Lose(t) \/ Wake(t)
        PROVE  local'[u] = local[u]
    BY <1>4 DEF OnRequest, Dispose, Sleep, Lose, Wake
  <1>5. CASE Tick
    BY <1>5 DEF Tick
  <1>6. CASE UNCHANGED vars
    BY <1>6 DEF vars
  <1>7. QED
    BY <1>1, <1>2, <1>3, <1>4, <1>5, <1>6 DEF Next, Receive

\* What an open tab holds is only ever replaced by a later version: neither an
\* adopted message nor the tab's own write moves it backwards.
THEOREM OnlyForward == Spec => HoldsLater
  <1>1. StampInv /\ [Next]_vars => [Forward]_vars
    BY StepForward
  <1>2. Init => StampInv
    BY Starts, StampStart
  <1>3. Forward => \A t \in Tab : Hears(t) => local'[t] = local[t] \/ Beats(local'[t], local[t])
    BY DEF Forward, Hears
  <1>4. QED
    BY <1>1, <1>2, <1>3, StampStep, PTL DEF Spec, HoldsLater

----------------------------------------------------------------------------
\* Agreement.  Every version a tab holds or is sent is on its way to every other tab: held or
\* beaten there, in that tab's queue, or to be sent to it, because it sleeps and will ask or
\* has asked and its request is still waiting behind.

Reaching(e, held, q) == ~Beats(e, held) \/ \E f \in Carried(q) : ~Beats(e, f)
AskedIn(t, q, i) == \E j \in DOMAIN q : j > i /\ q[j] = Request(t)
Coming(e, t, u, i) ==
    \/ Reaching(e, local[t], inbox[t])
    \/ phase[t] = "asleep"
    \/ AskedIn(t, inbox[u], i)

Answered ==
    \A t, u \in Tab : t # u /\ Hears(t) /\ Hears(u) =>
        /\ local[u].at > 0 => Coming(local[u], t, u, 0)
        /\ \A i \in DOMAIN inbox[u] :
              inbox[u][i].type = "update" => Coming(inbox[u][i].entry, t, u, i)

\* Only the initial value has no stamp, and no version beats what its origin holds.
Owned == \A e \in Everywhere : (e.at = 0 => e.value = Initial) /\ ~Beats(e, local[e.origin])

AllOpened == \A t \in Tab : phase[t] # "unopened"
Shown == \A t \in Tab : source[t] = Reaction[t][local[t].value]

AgreeInv == StampInv /\ AllOpened /\ Shown /\ Owned /\ Answered

\* While one tab sleeps no other does, and none asks the sleeper.
OneAsleep ==
    \A t, u \in Tab : t # u /\ phase[u] = "asleep" /\ Hears(t) =>
        phase[t] # "asleep" /\ ~AskedIn(t, inbox[u], 0)

\* Versions are ordered.
LEMMA BeatsOrders ==
    ASSUME NEW e \in Versioned, NEW f \in Versioned, NEW g \in Versioned
    PROVE  /\ ~Beats(e, e)
           /\ Beats(e, f) => ~Beats(f, e)
           /\ ~Beats(e, f) /\ ~Beats(f, g) => ~Beats(e, g)
           /\ ~Beats(e, f) /\ ~Beats(f, e) => e.at = f.at /\ e.origin = f.origin
  <1>1. /\ e.at \in Nat /\ f.at \in Nat /\ g.at \in Nat
        /\ e.origin \in Nat /\ f.origin \in Nat /\ g.origin \in Nat
    BY TabAssumption DEF Versioned
  <1>2. ~Beats(e, e)
    BY <1>1 DEF Beats
  <1>3. Beats(e, f) => ~Beats(f, e)
    BY <1>1 DEF Beats
  <1>4. ~Beats(e, f) /\ ~Beats(f, g) => ~Beats(e, g)
    BY <1>1 DEF Beats
  <1>5. ~Beats(e, f) /\ ~Beats(f, e) => e.at = f.at /\ e.origin = f.origin
    BY <1>1 DEF Beats
  <1>6. QED
    BY <1>2, <1>3, <1>4, <1>5

\* What a queue holds after it was extended.
LEMMA Extended ==
    ASSUME NEW q \in Seq(Message), NEW m \in Seq(Message)
    PROVE  /\ \A i \in DOMAIN q : i \in DOMAIN (q \o m) /\ (q \o m)[i] = q[i]
           /\ \A i \in DOMAIN (q \o m) : i \notin DOMAIN q =>
                 \E j \in DOMAIN m : (q \o m)[i] = m[j]
           /\ \A i \in DOMAIN q, j \in DOMAIN m :
                 Len(q) + j \in DOMAIN (q \o m) /\ Len(q) + j > i /\ (q \o m)[Len(q) + j] = m[j]
           /\ \A j \in DOMAIN m :
                 Len(q) + j \in DOMAIN (q \o m) /\ Len(q) + j > 0 /\ (q \o m)[Len(q) + j] = m[j]
  <1>1. /\ Len(q \o m) = Len(q) + Len(m)
        /\ \A i \in 1..(Len(q) + Len(m)) :
              (q \o m)[i] = IF i <= Len(q) THEN q[i] ELSE m[i - Len(q)]
        /\ q \o m \in Seq(Message)
    BY ConcatProperties
  <1>2. /\ DOMAIN q = 1..Len(q) /\ DOMAIN m = 1..Len(m)
        /\ DOMAIN (q \o m) = 1..(Len(q) + Len(m))
        /\ Len(q) \in Nat /\ Len(m) \in Nat
    BY <1>1, LenProperties
  <1>3. \A i \in DOMAIN (q \o m) : i \notin DOMAIN q =>
            i - Len(q) \in DOMAIN m /\ (q \o m)[i] = m[i - Len(q)]
    BY <1>1, <1>2
  <1>4. \A i \in DOMAIN q : i \in DOMAIN (q \o m) /\ (q \o m)[i] = q[i]
    BY <1>1, <1>2
  <1>5. \A j \in DOMAIN m :
            Len(q) + j \in DOMAIN (q \o m) /\ Len(q) + j > 0 /\ (q \o m)[Len(q) + j] = m[j]
    BY <1>1, <1>2
  <1>6. \A i \in DOMAIN q, j \in DOMAIN m : Len(q) + j > i
    BY <1>2
  <1>7. QED
    BY <1>3, <1>4, <1>5, <1>6

\* What stands in an extended queue and was not there before is of the extension.
LEMMA Appended ==
    ASSUME NEW q \in Seq(Message), NEW m \in Seq(Message),
           NEW i \in DOMAIN (q \o m), i \notin DOMAIN q
    PROVE  \E j \in DOMAIN m : (q \o m)[i] = m[j]
  BY Extended

\* What a queue holds after its head was handled.
LEMMA Consumed ==
    ASSUME NEW q \in Seq(Message), q # <<>>
    PROVE  /\ Tail(q) \in Seq(Message)
           /\ 1 \in DOMAIN q /\ Head(q) = q[1] /\ DOMAIN q \subseteq Nat
           /\ \A i \in DOMAIN Tail(q) : i + 1 \in DOMAIN q /\ Tail(q)[i] = q[i + 1]
           /\ \A j \in DOMAIN q : j # 1 =>
                 j - 1 \in DOMAIN Tail(q) /\ Tail(q)[j - 1] = q[j] /\ j - 1 > 0
           /\ \A f \in Carried(q) : \/ f \in Carried(Tail(q))
                                    \/ Head(q).type = "update" /\ f = Head(q).entry
  <1>1. /\ Tail(q) \in Seq(Message)
        /\ Len(Tail(q)) = Len(q) - 1
        /\ \A i \in 1..Len(Tail(q)) : Tail(q)[i] = q[i + 1]
    BY HeadTailProperties
  <1>2. /\ DOMAIN q = 1..Len(q) /\ DOMAIN Tail(q) = 1..(Len(q) - 1) /\ Len(q) \in Nat
        /\ Head(q) = q[1] /\ Len(q) # 0
    BY <1>1, LenProperties, EmptySeq
  <1>3. \A i \in DOMAIN Tail(q) : i + 1 \in DOMAIN q /\ Tail(q)[i] = q[i + 1]
    BY <1>1, <1>2
  <1>4. \A j \in DOMAIN q : j # 1 =>
            j - 1 \in DOMAIN Tail(q) /\ Tail(q)[j - 1] = q[j] /\ j - 1 > 0
    BY <1>1, <1>2
  <1>5. \A f \in Carried(q) : \/ f \in Carried(Tail(q))
                              \/ Head(q).type = "update" /\ f = Head(q).entry
    <2> SUFFICES ASSUME NEW j \in DOMAIN q, q[j].type = "update"
                 PROVE  \/ q[j].entry \in Carried(Tail(q))
                        \/ Head(q).type = "update" /\ q[j].entry = Head(q).entry
      BY DEF Carried
    <2>1. CASE j = 1
      BY <1>2, <2>1
    <2>2. CASE j # 1
      <3>1. j - 1 \in DOMAIN Tail(q) /\ Tail(q)[j - 1] = q[j]
        BY <1>4, <2>2
      <3>2. Tail(q)[j - 1].entry \in Carried(Tail(q))
        BY <3>1 DEF Carried
      <3>3. QED
        BY <3>1, <3>2
    <2>3. QED
      BY <2>1, <2>2
  <1>6. QED
    BY <1>1, <1>2, <1>3, <1>4, <1>5

\* A request stays asked when its queue is extended, and when the head before it is handled.
LEMMA AskedExtends ==
    ASSUME NEW q \in Seq(Message), NEW m \in Seq(Message), NEW t, NEW i, AskedIn(t, q, i)
    PROVE  AskedIn(t, q \o m, i)
  <1>1. PICK j \in DOMAIN q : j > i /\ q[j] = Request(t)
    BY DEF AskedIn
  <1>2. j \in DOMAIN (q \o m) /\ (q \o m)[j] = q[j]
    BY Extended
  <1>3. QED
    BY <1>1, <1>2 DEF AskedIn

\* A request behind the head moves up by one place when the head is handled.
LEMMA AskedShifts ==
    ASSUME NEW q \in Seq(Message), q # <<>>, NEW t, NEW i \in Nat, AskedIn(t, q, i + 1)
    PROVE  AskedIn(t, Tail(q), i)
  <1>1. PICK j \in DOMAIN q : j > i + 1 /\ q[j] = Request(t)
    BY DEF AskedIn
  <1>2. j \in Nat /\ j # 1
    BY <1>1, Consumed
  <1>3. j - 1 \in DOMAIN Tail(q) /\ Tail(q)[j - 1] = q[j] /\ j - 1 > i
    BY <1>1, <1>2, Consumed
  <1>4. QED
    BY <1>1, <1>3 DEF AskedIn

\* A request is behind a head that is an update.
LEMMA AskedBehind ==
    ASSUME NEW q \in Seq(Message), q # <<>>, Head(q).type = "update", NEW t, AskedIn(t, q, 0)
    PROVE  AskedIn(t, Tail(q), 0)
  <1>1. PICK j \in DOMAIN q : j > 0 /\ q[j] = Request(t)
    BY DEF AskedIn
  <1>2. j # 1
    BY <1>1, Consumed DEF Request
  <1>3. j - 1 \in DOMAIN Tail(q) /\ Tail(q)[j - 1] = q[j] /\ j - 1 > 0
    BY <1>2, Consumed
  <1>4. QED
    BY <1>1, <1>3 DEF AskedIn

\* What a message in a queue carries is a version of that queue.
LEMMA EntryTyped ==
    ASSUME TypeOK, NEW u \in Tab, NEW i \in DOMAIN inbox[u], inbox[u][i].type = "update"
    PROVE  inbox[u][i].entry \in Versioned /\ inbox[u][i].entry \in Carried(inbox[u])
  <1>1. inbox[u] \in Seq(Message)
    BY DEF TypeOK
  <1>2. inbox[u][i].entry \in Carried(inbox[u])
    BY DEF Carried
  <1>3. QED
    BY <1>1, <1>2, CarriedTyped

\* What was on its way to a tab stays so if the tab only moves forward and drops only what is
\* beaten by, or is, what it then holds.
LEMMA ReachingStays ==
    ASSUME NEW held \in Versioned, NEW held2 \in Versioned,
           NEW q \in Seq(Message), NEW q2 \in Seq(Message),
           held2 = held \/ Beats(held2, held),
           \A f \in Carried(q) : f \in Carried(q2) \/ ~Beats(f, held2),
           NEW e \in Versioned, Reaching(e, held, q)
    PROVE  Reaching(e, held2, q2)
  <1>1. CASE ~Beats(e, held)
    <2>1. ~Beats(held, held2)
      BY BeatsOrders
    <2>2. QED
      BY <1>1, <2>1, BeatsOrders DEF Reaching
  <1>2. CASE \E f \in Carried(q) : ~Beats(e, f)
    <2>1. PICK f \in Carried(q) : ~Beats(e, f)
      BY <1>2
    <2>2. f \in Versioned
      BY CarriedTyped
    <2>3. CASE f \in Carried(q2)
      BY <2>1, <2>3 DEF Reaching
    <2>4. CASE ~Beats(f, held2)
      BY <2>1, <2>2, <2>4, BeatsOrders DEF Reaching
    <2>5. QED
      BY <2>3, <2>4
  <1>3. QED
    BY <1>1, <1>2 DEF Reaching

\* The same of the next state, of a version of this one.
NowReaching(e, t) == Reaching(e, local'[t], inbox'[t])
NowComing(e, t, u, i) ==
    NowReaching(e, t) \/ phase'[t] = "asleep" \/ AskedIn(t, inbox'[u], i)

\* To answer for the next state is to answer for what its tabs hold and are sent.
LEMMA AnsweredWhen ==
    ASSUME ASSUME NEW t \in Tab, NEW u \in Tab, t # u, Hears(t)', Hears(u)'
           PROVE  /\ local'[u].at > 0 => NowComing(local'[u], t, u, 0)
                  /\ \A i \in DOMAIN inbox'[u] :
                        inbox'[u][i].type = "update" => NowComing(inbox'[u][i].entry, t, u, i)
    PROVE  Answered'
  BY DEF Answered, Coming, NowComing, NowReaching

\* What was on its way to a tab still is when the tab moves forward and loses nothing.
LEMMA ReachingNow ==
    ASSUME TypeOK, TypeOK', NEW t \in Tab,
           local'[t] = local[t] \/ Beats(local'[t], local[t]),
           \A f \in Carried(inbox[t]) : f \in Carried(inbox'[t]) \/ ~Beats(f, local'[t]),
           NEW e \in Versioned, Reaching(e, local[t], inbox[t])
    PROVE  NowReaching(e, t)
  <1>1. /\ local[t] \in Versioned /\ local'[t] \in Versioned
        /\ inbox[t] \in Seq(Message) /\ inbox'[t] \in Seq(Message)
    BY DEF TypeOK
  <1>2. QED
    BY <1>1, ReachingStays DEF NowReaching

\* What a tab carries in its queue is on its way to it.
LEMMA CarriedReaches ==
    ASSUME NEW t \in Tab, NEW e \in Versioned, e \in Carried(inbox'[t])
    PROVE  NowReaching(e, t)
  BY BeatsOrders DEF NowReaching, Reaching

\* What was on its way to a tab still is if its request, where it counts on one, stays asked.
LEMMA ComingNow ==
    ASSUME TypeOK, TypeOK', NEW t \in Tab, NEW u \in Tab, NEW i, NEW k,
           local'[t] = local[t], phase'[t] = phase[t],
           Carried(inbox[t]) \subseteq Carried(inbox'[t]),
           AskedIn(t, inbox[u], i) => AskedIn(t, inbox'[u], k),
           NEW e \in Versioned, Coming(e, t, u, i)
    PROVE  NowComing(e, t, u, k)
  <1>1. CASE Reaching(e, local[t], inbox[t])
    BY <1>1, ReachingNow DEF NowComing
  <1>2. CASE phase[t] = "asleep" \/ AskedIn(t, inbox[u], i)
    BY <1>2 DEF NowComing
  <1>3. QED
    BY <1>1, <1>2 DEF Coming

\* A step of tab w that hands every other tab the same messages m keeps every version coming
\* if it does to w, and if what w drops it has something better than, unless it sleeps.
LEMMA AnsweredPost ==
    ASSUME TypeOK, TypeOK', AllOpened, Forward, Answered, NEW w \in Tab, Hears(w),
           NEW m \in Seq(Message),
           \A t \in Tab : Hears(t)' => Hears(t),
           \A t \in Tab : phase[t] = "asleep" =>
              phase'[t] = "asleep" \/ (t = w /\ \E j \in DOMAIN m : m[j] = Request(t)),
           \A t \in Tab \ {w} : local'[t] = local[t],
           \A t \in Tab \ {w} : inbox'[t] = IF Hears(t) THEN inbox[t] \o m ELSE inbox[t],
           Hears(w)' => \/ phase'[w] = "asleep"
                        \/ \A f \in Carried(inbox[w]) :
                              f \in Carried(inbox'[w]) \/ ~Beats(f, local'[w]),
           \A f \in Carried(m) : ~Beats(f, local'[w]),
           \A t \in Tab \ {w} : Hears(t) /\ Hears(w)' =>
              /\ local'[w].at > 0 => NowComing(local'[w], t, w, 0)
              /\ \A i \in DOMAIN inbox'[w] :
                    inbox'[w][i].type = "update" => NowComing(inbox'[w][i].entry, t, w, i)
    PROVE  Answered'
  <1>1. \A t \in Tab : inbox[t] \in Seq(Message) /\ inbox'[t] \in Seq(Message)
    BY DEF TypeOK
  <1>2. ASSUME NEW t \in Tab, Hears(t)', phase'[t] # "asleep"
        PROVE  /\ local'[t] = local[t] \/ Beats(local'[t], local[t])
               /\ \A f \in Carried(inbox[t]) : f \in Carried(inbox'[t]) \/ ~Beats(f, local'[t])
    <2>1. local'[t] = local[t] \/ Beats(local'[t], local[t])
      BY DEF Forward, AllOpened
    <2>2. CASE t = w
      BY <1>2, <2>1, <2>2
    <2>3. CASE t # w
      BY <1>1, <1>2, <2>1, <2>3, CarriedConcat
    <2>4. QED
      BY <2>2, <2>3
  <1>3. ASSUME NEW t \in Tab, Hears(t)', NEW e \in Carried(m)
        PROVE  NowReaching(e, t)
    <2>1. e \in Versioned
      BY CarriedTyped
    <2>2. CASE t = w
      BY <2>2 DEF NowReaching, Reaching
    <2>3. CASE t # w
      <3>1. e \in Carried(inbox'[t])
        BY <1>1, <1>3, <2>3, CarriedConcat
      <3>2. QED
        BY <2>1, <3>1, CarriedReaches
    <2>4. QED
      BY <2>2, <2>3
  <1>4. ASSUME NEW t \in Tab, NEW u \in Tab \ {w}, Hears(t)', Hears(u),
               NEW e \in Versioned, NEW i \in {0} \cup DOMAIN inbox[u], Coming(e, t, u, i)
        PROVE  NowComing(e, t, u, i)
    <2>1. CASE Reaching(e, local[t], inbox[t])
      BY <1>2, <1>4, <2>1, ReachingNow DEF NowComing
    <2>2. CASE phase[t] = "asleep"
      <3>1. CASE phase'[t] = "asleep"
        BY <3>1 DEF NowComing
      <3>2. CASE t = w
        <4>1. CASE phase'[t] # "asleep"
          <5>1. PICK j \in DOMAIN m : m[j] = Request(t)
            BY <2>2, <4>1
          <5>2. inbox'[u] = inbox[u] \o m
            BY <1>4
          <5>3. /\ Len(inbox[u]) + j \in DOMAIN inbox'[u] /\ Len(inbox[u]) + j > i
                /\ inbox'[u][Len(inbox[u]) + j] = Request(t)
            <6>1. inbox[u] \in Seq(Message)
              BY <1>1
            <6>2. CASE i = 0
              BY <5>1, <5>2, <6>1, <6>2, Extended
            <6>3. CASE i \in DOMAIN inbox[u]
              BY <5>1, <5>2, <6>1, <6>3, Extended
            <6>4. QED
              BY <1>4, <6>2, <6>3
          <5>4. QED
            BY <5>3 DEF NowComing, AskedIn
        <4>2. QED
          BY <3>1, <4>1
      <3>3. QED
        BY <2>2, <3>1, <3>2
    <2>3. CASE AskedIn(t, inbox[u], i)
      <3>1. AskedIn(t, inbox[u] \o m, i)
        BY <1>1, <2>3, AskedExtends
      <3>2. inbox'[u] = inbox[u] \o m
        BY <1>4
      <3>3. QED
        BY <3>1, <3>2 DEF NowComing
    <2>4. QED
      BY <1>4, <2>1, <2>2, <2>3 DEF Coming
  <1>5. ASSUME NEW t \in Tab, NEW u \in Tab, t # u, Hears(t)', Hears(u)', Hears(t), Hears(u)
        PROVE  /\ local'[u].at > 0 => NowComing(local'[u], t, u, 0)
               /\ \A i \in DOMAIN inbox'[u] :
                     inbox'[u][i].type = "update" => NowComing(inbox'[u][i].entry, t, u, i)
    <2>1. CASE u = w
      BY <1>5, <2>1
    <2>2. CASE u # w
      <3>1. /\ local'[u] = local[u] /\ local[u] \in Versioned
            /\ inbox'[u] = inbox[u] \o m
        BY <1>5, <2>2 DEF TypeOK
      <3>2. local'[u].at > 0 => NowComing(local'[u], t, u, 0)
        <4> SUFFICES ASSUME local[u].at > 0 PROVE NowComing(local[u], t, u, 0)
          BY <3>1
        <4>1. Coming(local[u], t, u, 0)
          BY <1>5 DEF Answered
        <4>2. QED
          BY <1>4, <1>5, <2>2, <3>1, <4>1
      <3>3. ASSUME NEW i \in DOMAIN inbox'[u], inbox'[u][i].type = "update"
            PROVE  NowComing(inbox'[u][i].entry, t, u, i)
        <4>1. CASE i \in DOMAIN inbox[u]
          <5>1. inbox'[u][i] = inbox[u][i]
            BY <1>1, <3>1, <4>1, Extended
          <5>2. Coming(inbox[u][i].entry, t, u, i)
            BY <1>5, <3>3, <4>1, <5>1 DEF Answered
          <5>3. inbox[u][i].entry \in Versioned
            BY <3>3, <4>1, <5>1, EntryTyped
          <5>4. QED
            BY <1>4, <1>5, <2>2, <4>1, <5>1, <5>2, <5>3
        <4>2. CASE i \notin DOMAIN inbox[u]
          <5>1. PICK j \in DOMAIN m : inbox'[u][i] = m[j]
            BY <1>1, <3>1, <3>3, <4>2, Extended
          <5>2. inbox'[u][i].entry \in Carried(m)
            BY <3>3, <5>1 DEF Carried
          <5>3. QED
            BY <1>3, <1>5, <5>2 DEF NowComing
        <4>3. QED
          BY <4>1, <4>2
      <3>4. QED
        BY <3>2, <3>3
    <2>3. QED
      BY <2>1, <2>2
  <1>6. QED
    BY <1>5, AnsweredWhen

\* Queues the tabs other than w have after w posted, and after it did not.
LEMMA PostedTo ==
    ASSUME NEW queues \in [Tab -> Seq(Message)], NEW w \in Tab, NEW m \in Seq(Message),
           \A t \in Tab \ {w} : queues[t] = inbox[t], inbox' = Posted(queues, w, m)
    PROVE  /\ inbox'[w] = queues[w]
           /\ \A t \in Tab \ {w} : inbox'[t] = IF Hears(t) THEN inbox[t] \o m ELSE inbox[t]
  BY DEF Posted

\* A step that posts nothing leaves the other queues as if it had posted the empty sequence.
LEMMA PostedNothing ==
    ASSUME inbox \in [Tab -> Seq(Message)], NEW w,
           \A t \in Tab \ {w} : inbox'[t] = inbox[t]
    PROVE  /\ <<>> \in Seq(Message) /\ Carried(<<>>) = {} /\ DOMAIN <<>> = {}
           /\ \A t \in Tab \ {w} : inbox'[t] = IF Hears(t) THEN inbox[t] \o <<>> ELSE inbox[t]
  <1>1. \A t \in Tab : inbox[t] \o <<>> = inbox[t]
    BY ConcatEmptySeq
  <1>2. QED
    BY <1>1 DEF Carried

\* A write is sent as it is held, and so reaches everyone.
LEMMA AnsweredWrite ==
    ASSUME AgreeInv, TypeOK', Forward, NEW w \in Tab, NEW v \in Value, Write(w, v)
    PROVE  Answered'
  <1> USE DEF AgreeInv, StampInv
  <1>1. PICK mid \in Side, after \in Side : Wrote(w, v, mid, after)
    BY WriteFacts
  <1> DEFINE m == after.sent
  <1>2. /\ phase' = phase /\ phase[w] = "open" /\ Hears(w)
        /\ m \in Seq(Message) /\ after.local \in Versioned /\ mid.local \in Versioned
        /\ mid.highest \in Nat /\ after.highest \in Nat
    BY DEF Write, Hears, Side
  <1>3. /\ local'[w] = after.local
        /\ \A t \in Tab \ {w} : local'[t] = local[t]
    BY <1>1 DEF Wrote, TypeOK
  <1>4. /\ inbox'[w] = inbox[w]
        /\ \A t \in Tab \ {w} : inbox'[t] = IF Hears(t) THEN inbox[t] \o m ELSE inbox[t]
    <2>1. inbox \in [Tab -> Seq(Message)] /\ inbox' = Posted(inbox, w, m)
      BY <1>1 DEF Wrote, TypeOK
    <2>2. QED
      BY <1>2, <2>1, PostedTo
  <1>5. \A f \in Carried(m) : ~Beats(f, after.local)
    <2>1. \/ after = mid /\ Carried(m) \subseteq {after.local}
          \/ /\ Carried(m) \subseteq {mid.local, after.local}
             /\ after.local.origin = w /\ after.local.at = after.highest
             /\ after.highest > mid.highest
             /\ mid.local \in Carried(m) =>
                   mid.local.at = mid.highest \/ mid.local = after.local
      BY <1>1 DEF Wrote
    <2>2. ~Beats(after.local, after.local)
      BY <1>2, BeatsOrders
    <2>3. QED
      BY <1>2, <2>1, <2>2 DEF Beats, Versioned
  <1>6. after.local = local[w] \/ after.local \in Carried(m)
    BY <1>1 DEF Wrote
  <1>7. ASSUME NEW t \in Tab \ {w}, Hears(t), NEW e \in Versioned, NEW i, Coming(e, t, w, i)
        PROVE  NowComing(e, t, w, i)
    <2>1. Carried(inbox[t]) \subseteq Carried(inbox'[t])
      <3>1. inbox'[t] = inbox[t] \o m /\ inbox[t] \in Seq(Message)
        BY <1>4, <1>7 DEF TypeOK
      <3>2. QED
        BY <1>2, <3>1, CarriedConcat
    <2>2. local'[t] = local[t] /\ phase'[t] = phase[t] /\ inbox'[w] = inbox[w]
      BY <1>2, <1>3, <1>4
    <2>3. QED
      BY <1>7, <2>1, <2>2, ComingNow
  <1>8. ASSUME NEW t \in Tab \ {w}, Hears(t)
        PROVE  /\ local'[w].at > 0 => NowComing(local'[w], t, w, 0)
               /\ \A i \in DOMAIN inbox'[w] :
                     inbox'[w][i].type = "update" => NowComing(inbox'[w][i].entry, t, w, i)
    <2>1. local'[w].at > 0 => NowComing(local'[w], t, w, 0)
      <3>1. CASE after.local = local[w]
        BY <1>2, <1>3, <1>7, <1>8, <3>1 DEF Answered
      <3>2. CASE after.local \in Carried(m)
        <4>1. after.local \in Carried(inbox'[t])
          <5>1. inbox'[t] = inbox[t] \o m /\ inbox[t] \in Seq(Message)
            BY <1>4, <1>8 DEF TypeOK
          <5>2. QED
            BY <1>2, <3>2, <5>1, CarriedConcat
        <4>2. QED
          BY <1>2, <1>3, <4>1, CarriedReaches DEF NowComing
      <3>3. QED
        BY <1>6, <3>1, <3>2
    <2>2. ASSUME NEW i \in DOMAIN inbox[w], inbox[w][i].type = "update"
          PROVE  NowComing(inbox[w][i].entry, t, w, i)
      <3>1. inbox[w][i].entry \in Versioned
        BY <2>2, EntryTyped
      <3>2. Coming(inbox[w][i].entry, t, w, i)
        BY <1>2, <1>8, <2>2 DEF Answered
      <3>3. QED
        BY <1>7, <1>8, <3>1, <3>2
    <2>3. QED
      BY <1>4, <2>1, <2>2
  <1> HIDE DEF m
  <1>9. /\ \A t \in Tab : Hears(t)' => Hears(t)
        /\ \A t \in Tab : phase[t] = "asleep" =>
              phase'[t] = "asleep" \/ (t = w /\ \E j \in DOMAIN m : m[j] = Request(t))
    <2>1. \A t \in Tab : phase'[t] = phase[t]
      BY <1>2
    <2>2. \A t \in Tab : Hears(t)' => Hears(t)
      BY <2>1 DEF Hears
    <2>3. QED
      BY <2>1, <2>2
  <1>10. \A f \in Carried(inbox[w]) : f \in Carried(inbox'[w]) \/ ~Beats(f, local'[w])
    BY <1>4
  <1>11. \A f \in Carried(m) : ~Beats(f, local'[w])
    BY <1>3, <1>5
  <1>12. m \in Seq(Message) /\ Hears(w)
    BY <1>2
  <1>13. QED
    BY <1>3, <1>4, <1>8, <1>9, <1>10, <1>11, <1>12, AnsweredPost

\* What a tab keeps of an update and what is in flight was coming to everyone before.
LEMMA AnsweredUpdate ==
    ASSUME AgreeInv, TypeOK', Forward, NEW w \in Tab, OnUpdate(w)
    PROVE  Answered'
  <1> USE DEF AgreeInv, StampInv
  <1> DEFINE q == inbox[w]
             incoming == Head(q).entry
             winner == lastWriteWins(local[w], incoming)
  <1>1. /\ q \in Seq(Message) /\ q # <<>> /\ Head(q).type = "update"
        /\ phase' = phase /\ phase[w] = "open" /\ Hears(w)
        /\ inbox'[w] = Tail(q) /\ \A t \in Tab \ {w} : inbox'[t] = inbox[t]
        /\ \A t \in Tab \ {w} : local'[t] = local[t]
    BY DEF OnUpdate, Incoming, Handled, Hears, TypeOK
  <1>2. incoming \in Versioned /\ incoming \in Carried(q) /\ local[w] \in Versioned
    BY IncomingUpdate DEF OnUpdate, TypeOK
  <1>3. 1 \in DOMAIN q /\ Head(q) = q[1]
    BY <1>1, Consumed
  <1>4. /\ local'[w] \in {local[w], incoming}
        /\ ~Beats(incoming, local'[w])
    <2>1. CASE incoming.origin = w
      <3>1. local' = local
        BY <2>1 DEF OnUpdate
      <3>2. incoming \in Everywhere
        BY <1>2 DEF Everywhere, InFlight
      <3>3. ~Beats(incoming, local[w])
        BY <2>1, <3>2 DEF Owned
      <3>4. QED
        BY <3>1, <3>3
    <2>2. CASE incoming.origin # w
      <3>1. local'[w] = winner
        BY <2>2 DEF OnUpdate, TypeOK
      <3>2. ~Beats(incoming, incoming)
        BY <1>2, BeatsOrders
      <3>3. QED
        BY <3>1, <3>2 DEF lastWriteWins
    <2>3. QED
      BY <2>1, <2>2
  <1> HIDE DEF q, incoming, winner
  <1>5. \A f \in Carried(q) : f \in Carried(inbox'[w]) \/ ~Beats(f, local'[w])
    BY <1>1, <1>4, Consumed DEF incoming
  <1>6. ASSUME NEW t \in Tab \ {w}, NEW e \in Versioned, NEW i, NEW k,
               Coming(e, t, w, i), AskedIn(t, q, i) => AskedIn(t, Tail(q), k)
        PROVE  NowComing(e, t, w, k)
    <2>1. /\ local'[t] = local[t] /\ phase'[t] = phase[t] /\ inbox'[w] = Tail(q)
          /\ Carried(inbox[t]) \subseteq Carried(inbox'[t])
      BY <1>1
    <2>2. QED
      BY <1>6, <2>1, ComingNow DEF q
  <1>7. ASSUME NEW t \in Tab \ {w}, Hears(t)
        PROVE  /\ local'[w].at > 0 => NowComing(local'[w], t, w, 0)
               /\ \A i \in DOMAIN inbox'[w] :
                     inbox'[w][i].type = "update" => NowComing(inbox'[w][i].entry, t, w, i)
    <2>1. local'[w].at > 0 => NowComing(local'[w], t, w, 0)
      <3>1. CASE local'[w] = local[w]
        <4>1. AskedIn(t, q, 0) => AskedIn(t, Tail(q), 0)
          BY <1>1, AskedBehind
        <4>2. local[w].at > 0 => Coming(local[w], t, w, 0)
          BY <1>1, <1>7 DEF Answered
        <4>3. QED
          BY <1>2, <1>6, <3>1, <4>1, <4>2
      <3>2. CASE local'[w] = incoming
        <4>1. AskedIn(t, q, 1) => AskedIn(t, Tail(q), 0)
          <5>1. AskedIn(t, q, 0 + 1) => AskedIn(t, Tail(q), 0)
            BY <1>1, AskedShifts
          <5>2. QED
            BY <5>1
        <4>2. Coming(incoming, t, w, 1)
          BY <1>1, <1>3, <1>7 DEF Answered, incoming, q
        <4>3. QED
          BY <1>2, <1>6, <3>2, <4>1, <4>2
      <3>3. QED
        BY <1>4, <3>1, <3>2
    <2>2. ASSUME NEW i \in DOMAIN Tail(q), Tail(q)[i].type = "update"
          PROVE  NowComing(Tail(q)[i].entry, t, w, i)
      <3>1. i + 1 \in DOMAIN q /\ Tail(q)[i] = q[i + 1] /\ i \in Nat
        <4>1. DOMAIN Tail(q) \subseteq Nat
          BY <1>1, LenProperties, HeadTailProperties
        <4>2. QED
          BY <1>1, <4>1, Consumed
      <3>2. Coming(q[i + 1].entry, t, w, i + 1) /\ q[i + 1].entry \in Versioned
        BY <1>1, <1>7, <2>2, <3>1, EntryTyped DEF Answered, q
      <3>3. AskedIn(t, q, i + 1) => AskedIn(t, Tail(q), i)
        BY <1>1, <3>1, AskedShifts
      <3>4. QED
        BY <1>6, <3>1, <3>2, <3>3
    <2>3. QED
      BY <1>1, <2>1, <2>2
  <1>8. /\ \A t \in Tab : Hears(t)' => Hears(t)
        /\ \A t \in Tab : phase[t] = "asleep" =>
              phase'[t] = "asleep" \/ (t = w /\ \E j \in DOMAIN <<>> : <<>>[j] = Request(t))
    <2>1. \A t \in Tab : phase'[t] = phase[t]
      BY <1>1
    <2>2. \A t \in Tab : Hears(t)' => Hears(t)
      BY <2>1 DEF Hears
    <2>3. QED
      BY <2>1, <2>2
  <1>9. /\ <<>> \in Seq(Message) /\ Carried(<<>>) = {}
        /\ \A t \in Tab \ {w} : inbox'[t] = IF Hears(t) THEN inbox[t] \o <<>> ELSE inbox[t]
    BY <1>1, PostedNothing DEF TypeOK
  <1>10. QED
    BY <1>1, <1>5, <1>7, <1>8, <1>9, AnsweredPost DEF q

\* An answer tells everyone what the answering tab holds.
LEMMA AnsweredRequest ==
    ASSUME AgreeInv, TypeOK', Forward, NEW w \in Tab, OnRequest(w)
    PROVE  Answered'
  <1> USE DEF AgreeInv, StampInv
  <1> DEFINE q == inbox[w]
             m == <<Update(local[w])>>
  <1>1. /\ q \in Seq(Message) /\ q # <<>> /\ Head(q).type = "request"
        /\ phase' = phase /\ phase[w] = "open" /\ Hears(w) /\ local' = local
        /\ local[w] \in Versioned
    BY DEF OnRequest, Incoming, Hears, TypeOK
  <1>2. m \in Seq(Message) /\ Carried(m) = {local[w]}
    BY <1>1, MessagesTyped
  <1> HIDE DEF m
  <1>3. /\ inbox'[w] = Tail(q)
        /\ \A t \in Tab \ {w} : inbox'[t] = IF Hears(t) THEN inbox[t] \o m ELSE inbox[t]
    <2>1. /\ Handled(w) \in [Tab -> Seq(Message)] /\ Handled(w)[w] = Tail(q)
          /\ \A t \in Tab \ {w} : Handled(w)[t] = inbox[t]
      BY <1>1, HandledTyped DEF Handled, TypeOK
    <2>2. inbox' = Posted(Handled(w), w, m)
      BY DEF OnRequest, m
    <2>3. QED
      BY <1>2, <2>1, <2>2, PostedTo
  <1> HIDE DEF q
  <1>4. \A f \in Carried(q) : f \in Carried(inbox'[w]) \/ ~Beats(f, local'[w])
    BY <1>1, <1>3, Consumed
  <1>5. \A f \in Carried(m) : ~Beats(f, local'[w])
    BY <1>1, <1>2, BeatsOrders
  <1>6. ASSUME NEW t \in Tab \ {w}, Hears(t)
        PROVE  Carried(inbox[t]) \subseteq Carried(inbox'[t]) /\ local[w] \in Carried(inbox'[t])
    <2>1. inbox'[t] = inbox[t] \o m /\ inbox[t] \in Seq(Message)
      BY <1>3, <1>6 DEF TypeOK
    <2>2. QED
      BY <1>2, <2>1, CarriedConcat
  <1>7. ASSUME NEW t \in Tab \ {w}, Hears(t)
        PROVE  /\ local'[w].at > 0 => NowComing(local'[w], t, w, 0)
               /\ \A i \in DOMAIN inbox'[w] :
                     inbox'[w][i].type = "update" => NowComing(inbox'[w][i].entry, t, w, i)
    <2>1. NowComing(local'[w], t, w, 0)
      BY <1>1, <1>6, <1>7, CarriedReaches DEF NowComing
    <2>2. ASSUME NEW i \in DOMAIN Tail(q), Tail(q)[i].type = "update"
          PROVE  NowComing(Tail(q)[i].entry, t, w, i)
      <3>1. i + 1 \in DOMAIN q /\ Tail(q)[i] = q[i + 1] /\ i \in Nat
        <4>1. DOMAIN Tail(q) \subseteq Nat
          BY <1>1, LenProperties, HeadTailProperties
        <4>2. QED
          BY <1>1, <4>1, Consumed
      <3>2. Coming(q[i + 1].entry, t, w, i + 1) /\ q[i + 1].entry \in Versioned
        BY <1>1, <1>7, <2>2, <3>1, EntryTyped DEF Answered, q
      <3>3. AskedIn(t, q, i + 1) => AskedIn(t, Tail(q), i)
        BY <1>1, <3>1, AskedShifts
      <3>4. local'[t] = local[t] /\ phase'[t] = phase[t]
        BY <1>1
      <3>5. Carried(inbox[t]) \subseteq Carried(inbox'[t])
        BY <1>6, <1>7
      <3>6. AskedIn(t, inbox[w], i + 1) => AskedIn(t, inbox'[w], i)
        BY <1>3, <3>3 DEF q
      <3>7. QED
        BY <3>1, <3>2, <3>4, <3>5, <3>6, ComingNow
    <2>3. QED
      BY <1>3, <2>1, <2>2
  <1>8. /\ \A t \in Tab : Hears(t)' => Hears(t)
        /\ \A t \in Tab : phase[t] = "asleep" => phase'[t] = "asleep"
    BY <1>1 DEF Hears
  <1>9. \A t \in Tab \ {w} : local'[t] = local[t]
    BY <1>1
  <1>10. QED
    BY <1>1, <1>2, <1>3, <1>4, <1>5, <1>7, <1>8, <1>9, AnsweredPost DEF q

\* A tab that goes to sleep will ask, and one that wakes asks.
LEMMA AnsweredStill ==
    ASSUME AgreeInv, TypeOK', Forward, NEW w \in Tab, Hears(w), NEW m \in Seq(Message),
           (Sleep(w) /\ m = <<>>) \/ (Wake(w) /\ m = <<Request(w)>>)
    PROVE  Answered'
  <1> USE DEF AgreeInv, StampInv
  <1>1. /\ local' = local /\ Carried(m) = {}
        /\ inbox'[w] = inbox[w]
        /\ \A t \in Tab \ {w} : inbox'[t] = IF Hears(t) THEN inbox[t] \o m ELSE inbox[t]
    <2>1. CASE Wake(w) /\ m = <<Request(w)>>
      <3>1. inbox \in [Tab -> Seq(Message)] /\ inbox' = Posted(inbox, w, m)
        BY <2>1 DEF Wake, TypeOK
      <3>2. QED
        <4>1. m \in Seq(Message) /\ Carried(m) = {} /\ local' = local
          BY <2>1, MessagesTyped DEF Wake
        <4>2. QED
          BY <3>1, <4>1, PostedTo
    <2>2. CASE Sleep(w) /\ m = <<>>
      <3>1. inbox \in [Tab -> Seq(Message)] /\ inbox' = inbox /\ local' = local
        BY <2>2 DEF Sleep, TypeOK
      <3>2. QED
        BY <2>2, <3>1, PostedNothing
    <2>3. QED
      BY <2>1, <2>2
  <1>2. \A t \in Tab \ {w} : phase'[t] = phase[t]
    BY DEF Sleep, Wake, TypeOK
  <1>3. /\ \A t \in Tab : Hears(t)' => Hears(t)
        /\ \A t \in Tab : phase[t] = "asleep" =>
              phase'[t] = "asleep" \/ (t = w /\ \E j \in DOMAIN m : m[j] = Request(t))
    <2>1. CASE Wake(w) /\ m = <<Request(w)>>
      <3>1. 1 \in DOMAIN m /\ m[1] = Request(w)
        BY <2>1
      <3>2. QED
        BY <1>2, <3>1 DEF Hears
    <2>2. CASE Sleep(w) /\ m = <<>>
      BY <1>2, <2>2 DEF Sleep, Hears, TypeOK
    <2>3. QED
      BY <2>1, <2>2
  <1>4. ASSUME NEW t \in Tab \ {w}, Hears(t), NEW e \in Versioned, NEW i, Coming(e, t, w, i)
        PROVE  NowComing(e, t, w, i)
    <2>1. Carried(inbox[t]) \subseteq Carried(inbox'[t])
      <3>1. inbox'[t] = inbox[t] \o m /\ inbox[t] \in Seq(Message)
        BY <1>1, <1>4 DEF TypeOK
      <3>2. QED
        BY <3>1, CarriedConcat
    <2>2. local'[t] = local[t] /\ phase'[t] = phase[t] /\ inbox'[w] = inbox[w]
      BY <1>1, <1>2
    <2>3. QED
      BY <1>4, <2>1, <2>2, ComingNow
  <1>5. ASSUME NEW t \in Tab \ {w}, Hears(t)
        PROVE  /\ local'[w].at > 0 => NowComing(local'[w], t, w, 0)
               /\ \A i \in DOMAIN inbox'[w] :
                     inbox'[w][i].type = "update" => NowComing(inbox'[w][i].entry, t, w, i)
    <2>1. local[w].at > 0 => NowComing(local[w], t, w, 0)
      <3>1. local[w] \in Versioned
        BY DEF TypeOK
      <3>2. QED
        BY <1>4, <1>5, <3>1 DEF Answered
    <2>2. ASSUME NEW i \in DOMAIN inbox[w], inbox[w][i].type = "update"
          PROVE  NowComing(inbox[w][i].entry, t, w, i)
      <3>1. inbox[w][i].entry \in Versioned
        BY <2>2, EntryTyped
      <3>2. Coming(inbox[w][i].entry, t, w, i)
        BY <1>5, <2>2 DEF Answered
      <3>3. QED
        BY <1>4, <1>5, <3>1, <3>2
    <2>3. QED
      BY <1>1, <2>1, <2>2
  <1>6. /\ \A f \in Carried(inbox[w]) : f \in Carried(inbox'[w]) \/ ~Beats(f, local'[w])
        /\ \A f \in Carried(m) : ~Beats(f, local'[w])
        /\ \A t \in Tab \ {w} : local'[t] = local[t]
    BY <1>1
  <1>7. QED
    BY <1>1, <1>3, <1>5, <1>6, AnsweredPost

\* A sleeper that loses what it is sent is the only one asleep, and nobody counts on it.
LEMMA AnsweredLose ==
    ASSUME AgreeInv, OneAsleep, TypeOK', Forward, NEW w \in Tab, Lose(w)
    PROVE  Answered'
  <1> USE DEF AgreeInv, StampInv
  <1> DEFINE q == inbox[w]
  <1>1. /\ q \in Seq(Message) /\ q # <<>>
        /\ phase' = phase /\ phase[w] = "asleep" /\ Hears(w) /\ local' = local
        /\ inbox'[w] = Tail(q) /\ \A t \in Tab \ {w} : inbox'[t] = inbox[t]
    BY DEF Lose, Handled, Hears, TypeOK
  <1>2. ASSUME NEW t \in Tab \ {w}, Hears(t), NEW e \in Versioned, NEW i \in Nat, NEW k,
               Coming(e, t, w, i)
        PROVE  NowComing(e, t, w, k)
    <2>1. phase[t] # "asleep" /\ ~AskedIn(t, q, 0)
      BY <1>1, <1>2 DEF OneAsleep
    <2>2. ~AskedIn(t, q, i)
      <3>1. DOMAIN q \subseteq Nat
        BY <1>1, Consumed
      <3>2. QED
        BY <1>2, <2>1, <3>1 DEF AskedIn
    <2>3. Reaching(e, local[t], inbox[t])
      BY <1>2, <2>1, <2>2 DEF Coming
    <2>4. local'[t] = local[t] /\ inbox'[t] = inbox[t]
      BY <1>1
    <2>5. QED
      BY <2>3, <2>4 DEF NowComing, NowReaching
  <1> HIDE DEF q
  <1>3. ASSUME NEW t \in Tab \ {w}, Hears(t)
        PROVE  /\ local'[w].at > 0 => NowComing(local'[w], t, w, 0)
               /\ \A i \in DOMAIN inbox'[w] :
                     inbox'[w][i].type = "update" => NowComing(inbox'[w][i].entry, t, w, i)
    <2>1. local[w].at > 0 => NowComing(local[w], t, w, 0)
      <3>1. local[w] \in Versioned /\ 0 \in Nat
        BY DEF TypeOK
      <3>2. local[w].at > 0 => Coming(local[w], t, w, 0)
        BY <1>1, <1>3 DEF Answered
      <3>3. QED
        BY <1>2, <1>3, <3>1, <3>2
    <2>2. ASSUME NEW i \in DOMAIN Tail(q), Tail(q)[i].type = "update"
          PROVE  NowComing(Tail(q)[i].entry, t, w, i)
      <3>1. i + 1 \in DOMAIN q /\ Tail(q)[i] = q[i + 1] /\ i + 1 \in Nat
        BY <1>1, Consumed
      <3>2. Coming(q[i + 1].entry, t, w, i + 1) /\ q[i + 1].entry \in Versioned
        BY <1>1, <1>3, <2>2, <3>1, EntryTyped DEF Answered, q
      <3>3. QED
        BY <1>2, <1>3, <3>1, <3>2
    <2>3. QED
      BY <1>1, <2>1, <2>2
  <1>4. /\ \A t \in Tab : Hears(t)' => Hears(t)
        /\ \A t \in Tab : phase[t] = "asleep" => phase'[t] = "asleep"
        /\ \A t \in Tab \ {w} : local'[t] = local[t]
        /\ phase'[w] = "asleep"
    BY <1>1 DEF Hears
  <1>5. /\ <<>> \in Seq(Message) /\ Carried(<<>>) = {}
        /\ \A t \in Tab \ {w} : inbox'[t] = IF Hears(t) THEN inbox[t] \o <<>> ELSE inbox[t]
    BY <1>1, PostedNothing DEF TypeOK
  <1>6. QED
    BY <1>1, <1>3, <1>4, <1>5, AnsweredPost

\* A tab that is disposed hears nothing more, and leaves what it sent in flight.
LEMMA AnsweredDispose ==
    ASSUME AgreeInv, TypeOK', Forward, NEW w \in Tab, Dispose(w)
    PROVE  Answered'
  <1> USE DEF AgreeInv, StampInv
  <1>1. /\ phase' = [phase EXCEPT ![w] = "disposed"] /\ phase[w] = "open" /\ Hears(w)
        /\ local' = local /\ \A t \in Tab \ {w} : inbox'[t] = inbox[t]
    BY DEF Dispose, Hears, TypeOK
  <1>2. /\ \A t \in Tab : Hears(t)' => Hears(t)
        /\ \A t \in Tab : phase[t] = "asleep" => phase'[t] = "asleep"
        /\ \A t \in Tab \ {w} : local'[t] = local[t]
        /\ ~Hears(w)'
    BY <1>1 DEF Hears, TypeOK
  <1>3. /\ <<>> \in Seq(Message) /\ Carried(<<>>) = {}
        /\ \A t \in Tab \ {w} : inbox'[t] = IF Hears(t) THEN inbox[t] \o <<>> ELSE inbox[t]
    BY <1>1, PostedNothing DEF TypeOK
  <1>4. QED
    BY <1>1, <1>2, <1>3, AnsweredPost

\* Tabs that are open stay open, and no other kind of step opens one.
LEMMA OpenedStep == AgreeInv /\ [Next]_vars => AllOpened'
  <1> SUFFICES ASSUME AgreeInv, [Next]_vars PROVE AllOpened'
    OBVIOUS
  <1> USE DEF AgreeInv, StampInv
  <1>1. \A t \in Tab : ~Open(t)
    BY DEF AllOpened, Open
  <1>2. ASSUME NEW t \in Tab, OnUpdate(t) \/ OnRequest(t) \/ Dispose(t) \/ Sleep(t) \/ Lose(t)
                              \/ Wake(t) \/ (\E v \in Value : Write(t, v))
        PROVE  \/ phase' = phase
               \/ \E p \in {"open", "asleep", "disposed"} : phase' = [phase EXCEPT ![t] = p]
    BY <1>2 DEF OnUpdate, OnRequest, Dispose, Sleep, Lose, Wake, Write
  <1>3. ASSUME NEW t \in Tab,
               \E p \in {"open", "asleep", "disposed"} : phase' = [phase EXCEPT ![t] = p]
        PROVE  AllOpened'
    BY <1>3 DEF AllOpened, TypeOK
  <1>4. CASE phase' = phase
    BY <1>4 DEF AllOpened
  <1>5. CASE Tick \/ UNCHANGED vars
    BY <1>4, <1>5 DEF Tick, vars
  <1>6. QED
    BY <1>1, <1>2, <1>3, <1>4, <1>5 DEF Next, Receive

\* Each tab shows the value it holds as its own effect leaves it.
LEMMA ShownStep == AgreeInv /\ [Next]_vars => Shown'
  <1> SUFFICES ASSUME AgreeInv, [Next]_vars PROVE Shown'
    OBVIOUS
  <1> USE DEF AgreeInv, StampInv
  <1>1. \A t \in Tab : ~Open(t)
    BY DEF AllOpened, Open
  <1>2. \A t \in Tab, x \in Value : Reaction[t][Reaction[t][x]] = Reaction[t][x]
    BY ReactionAssumption
  <1>3. ASSUME NEW t \in Tab, OnUpdate(t) PROVE Shown'
    <2> DEFINE incoming == Head(inbox[t]).entry
               winner == lastWriteWins(local[t], incoming)
    <2>1. winner \in Versioned /\ local[t] \in Versioned
      BY <1>3, IncomingUpdate DEF OnUpdate, TypeOK
    <2>2. \/ local' = local /\ source' = source
          \/ /\ local' = [local EXCEPT ![t] = winner]
             /\ \/ winner = local[t] /\ source' = source
                \/ source' = [source EXCEPT ![t] = Applied(t, winner.value)]
      BY <1>3 DEF OnUpdate
    <2>3. Applied(t, winner.value) = Reaction[t][winner.value]
      <3>1. CASE winner.value = source[t]
        <4>1. source[t] = Reaction[t][local[t].value] /\ local[t].value \in Value
          BY <2>1 DEF Shown, Versioned
        <4>2. QED
          BY <1>2, <3>1, <4>1 DEF Applied
      <3>2. CASE winner.value # source[t]
        BY <3>2 DEF Applied
      <3>3. QED
        BY <3>1, <3>2
    <2> HIDE DEF winner
    <2>4. QED
      BY <2>2, <2>3 DEF Shown, TypeOK
  <1>4. ASSUME NEW t \in Tab, NEW v \in Value, Write(t, v) PROVE Shown'
    <2>1. PICK mid \in Side, after \in Side : Wrote(t, v, mid, after)
      BY <1>4, WriteFacts
    <2>2. /\ local' = [local EXCEPT ![t] = after.local]
          /\ source' = [source EXCEPT ![t] = Reaction[t][v]]
          /\ Reaction[t][after.local.value] = Reaction[t][v]
      BY <1>2, <2>1 DEF Wrote
    <2>3. QED
      BY <2>2 DEF Shown, TypeOK
  <1>5. CASE local' = local /\ source' = source
    BY <1>5 DEF Shown
  <1>6. ASSUME NEW t \in Tab, OnRequest(t) \/ Dispose(t) \/ Sleep(t) \/ Lose(t) \/ Wake(t)
        PROVE  Shown'
    BY <1>5, <1>6 DEF OnRequest, Dispose, Sleep, Lose, Wake
  <1>7. CASE Tick \/ UNCHANGED vars
    BY <1>5, <1>7 DEF Tick, vars
  <1>8. QED
    BY <1>1, <1>3, <1>4, <1>6, <1>7 DEF Next, Receive

\* A step that makes no version keeps what its origin holds ahead of it.
LEMMA OwnedKept ==
    ASSUME AgreeInv, TypeOK', Forward, Everywhere' \subseteq Everywhere
    PROVE  Owned'
  <1> SUFFICES ASSUME NEW e \in Everywhere'
               PROVE  (e.at = 0 => e.value = Initial) /\ ~Beats(e, local'[e.origin])
    BY DEF Owned
  <1>1. e \in Versioned /\ e.origin \in Tab
    BY EverywhereTyped DEF AgreeInv, StampInv, Versioned
  <1>2. (e.at = 0 => e.value = Initial) /\ ~Beats(e, local[e.origin])
    BY DEF AgreeInv, Owned
  <1>3. local[e.origin] \in Versioned /\ local'[e.origin] \in Versioned
    BY <1>1 DEF AgreeInv, StampInv, TypeOK
  <1>4. local'[e.origin] = local[e.origin] \/ Beats(local'[e.origin], local[e.origin])
    BY <1>1 DEF Forward, AgreeInv, AllOpened
  <1>5. ~Beats(local[e.origin], local'[e.origin])
    BY <1>3, <1>4, BeatsOrders
  <1>6. QED
    BY <1>1, <1>2, <1>3, <1>5, BeatsOrders

\* A write's versions are stamped, and what its tab holds then is the last of them.
LEMMA OwnedWrite ==
    ASSUME AgreeInv, TypeOK', Forward, NEW t \in Tab, NEW v \in Value, Write(t, v)
    PROVE  Owned'
  <1> USE DEF AgreeInv, StampInv
  <1>1. PICK mid \in Side, after \in Side : Wrote(t, v, mid, after)
    BY WriteFacts
  <1> DEFINE New(e) == \/ e = after.local /\ after.local.at > 0 /\ after.local.origin = t
                       \/ /\ e = mid.local /\ mid.local.at > 0 /\ mid.local.origin = t
                          /\ (after.local = mid.local \/ after.local.at > mid.local.at)
             E == {e \in Everywhere \cup {mid.local, after.local} : e \in Everywhere \/ New(e)}
  <1>2. /\ highest[t] \in Nat /\ mid.highest \in Nat /\ after.highest \in Nat
        /\ after.local \in Versioned /\ mid.local \in Versioned
        /\ local[t] \in Everywhere
    BY DEF TypeOK, Side, Everywhere, Held
  <1>3. mid.local \in E /\ after.local \in E
    BY <1>1, <1>2 DEF Wrote
  <1>4. \A x \in Carried(after.sent) : x \in {mid.local, after.local}
    BY <1>1 DEF Wrote
  <1>5. Everywhere' \subseteq E
    <2>1. \A u \in Tab : Carried(inbox'[u]) \subseteq Carried(inbox[u]) \cup Carried(after.sent)
      BY <1>1, PostedCarries DEF Wrote, TypeOK, Side
    <2>2. \A u \in Tab : Carried(inbox[u]) \subseteq Everywhere /\ local[u] \in Everywhere
      BY DEF Everywhere, InFlight, Held
    <2>3. \A u \in Tab : local'[u] \in {local[u], after.local}
      BY <1>1 DEF Wrote, TypeOK
    <2>4. Everywhere \subseteq E
      OBVIOUS
    <2> HIDE DEF E
    <2>5. \A u \in Tab : Carried(inbox'[u]) \subseteq E /\ local'[u] \in E
      BY <1>3, <1>4, <2>1, <2>2, <2>3, <2>4
    <2>6. QED
      BY <2>5, EverywhereAfter
  <1>6. ASSUME NEW e \in Everywhere
        PROVE  (e.at = 0 => e.value = Initial) /\ ~Beats(e, local'[e.origin])
    <2>1. e \in Versioned /\ e.origin \in Tab
      BY EverywhereTyped DEF Versioned
    <2>2. (e.at = 0 => e.value = Initial) /\ ~Beats(e, local[e.origin])
      BY DEF Owned
    <2>3. local[e.origin] \in Versioned /\ local'[e.origin] \in Versioned
      BY <2>1 DEF TypeOK
    <2>4. local'[e.origin] = local[e.origin] \/ Beats(local'[e.origin], local[e.origin])
      BY <2>1 DEF Forward, AllOpened
    <2>5. ~Beats(local[e.origin], local'[e.origin])
      BY <2>3, <2>4, BeatsOrders
    <2>6. QED
      BY <2>1, <2>2, <2>3, <2>5, BeatsOrders
  <1>7. ASSUME NEW e, New(e)
        PROVE  (e.at = 0 => e.value = Initial) /\ ~Beats(e, local'[e.origin])
    <2>1. e.origin = t /\ local'[t] = after.local /\ e.at > 0
      BY <1>1, <1>7 DEF Wrote, TypeOK
    <2>2. ~Beats(after.local, after.local)
      BY <1>2, BeatsOrders
    <2>3. e = after.local \/ (e = mid.local /\ (after.local = mid.local \/ after.local.at > e.at))
      BY <1>7
    <2>4. ~Beats(e, after.local)
      BY <1>2, <2>2, <2>3 DEF Beats, Versioned
    <2>5. QED
      BY <1>2, <2>1, <2>3, <2>4 DEF Versioned
  <1> HIDE DEF New
  <1>8. QED
    BY <1>5, <1>6, <1>7 DEF Owned

\* Every action but a write only moves versions about.
LEMMA OwnedStep ==
    ASSUME AgreeInv, TypeOK', Forward, [Next]_vars
    PROVE  Owned'
  <1> USE DEF AgreeInv, StampInv
  <1>1. \A t \in Tab : ~Open(t)
    BY DEF AllOpened, Open
  <1>2. \A u \in Tab : Carried(inbox[u]) \subseteq Everywhere /\ local[u] \in Everywhere
    BY DEF Everywhere, InFlight, Held
  <1>3. ASSUME \A u \in Tab : Carried(inbox'[u]) \subseteq Everywhere /\ local'[u] \in Everywhere
        PROVE  Owned'
    BY <1>3, EverywhereAfter, OwnedKept
  <1>4. ASSUME NEW t \in Tab, OnUpdate(t) PROVE Owned'
    <2>1. /\ Head(inbox[t]).entry \in Everywhere
          /\ lastWriteWins(local[t], Head(inbox[t]).entry) \in Everywhere
      BY <1>2, <1>4, IncomingUpdate DEF OnUpdate
    <2>2. \A u \in Tab : local'[u] \in Everywhere
      BY <1>2, <1>4, <2>1 DEF OnUpdate, TypeOK
    <2>3. \A u \in Tab : Carried(inbox'[u]) \subseteq Everywhere
      BY <1>2, <1>4, HandledTyped DEF OnUpdate, Incoming, TypeOK
    <2>4. QED
      BY <1>3, <2>2, <2>3
  <1>5. ASSUME NEW t \in Tab, OnRequest(t) PROVE Owned'
    <2>1. /\ Handled(t) \in [Tab -> Seq(Message)]
          /\ \A u \in Tab : Carried(Handled(t)[u]) \subseteq Everywhere
      BY <1>2, <1>5, HandledTyped DEF OnRequest, Incoming, TypeOK
    <2>2. <<Update(local[t])>> \in Seq(Message) /\ Carried(<<Update(local[t])>>) = {local[t]}
      BY MessagesTyped DEF TypeOK
    <2>3. inbox' = Posted(Handled(t), t, <<Update(local[t])>>) /\ local' = local
      BY <1>5 DEF OnRequest
    <2>4. \A u \in Tab : Carried(inbox'[u]) \subseteq Carried(Handled(t)[u]) \cup {local[t]}
      BY <2>1, <2>2, <2>3, PostedCarries
    <2>5. QED
      BY <1>2, <1>3, <2>1, <2>3, <2>4
  <1>6. ASSUME NEW t \in Tab, Dispose(t) PROVE Owned'
    <2>1. Carried(<<>>) = {}
      BY DEF Carried
    <2>2. QED
      BY <1>2, <1>3, <1>6, <2>1 DEF Dispose, TypeOK
  <1>7. ASSUME NEW t \in Tab, Lose(t) PROVE Owned'
    <2>1. \A u \in Tab : Carried(inbox'[u]) \subseteq Everywhere
      BY <1>2, <1>7, HandledTyped DEF Lose, TypeOK
    <2>2. QED
      BY <1>2, <1>3, <1>7, <2>1 DEF Lose
  <1>8. ASSUME NEW t \in Tab, Wake(t) PROVE Owned'
    <2>1. <<Request(t)>> \in Seq(Message) /\ Carried(<<Request(t)>>) = {}
      BY MessagesTyped
    <2>2. inbox' = Posted(inbox, t, <<Request(t)>>) /\ local' = local
      BY <1>8 DEF Wake
    <2>3. \A u \in Tab : Carried(inbox'[u]) \subseteq Carried(inbox[u]) \cup {}
      BY <2>1, <2>2, PostedCarries DEF TypeOK
    <2>4. QED
      BY <1>2, <1>3, <2>2, <2>3
  <1>9. ASSUME inbox' = inbox, local' = local PROVE Owned'
    BY <1>2, <1>3, <1>9
  <1>10. ASSUME NEW t \in Tab, Sleep(t) PROVE Owned'
    BY <1>9, <1>10 DEF Sleep
  <1>11. CASE Tick \/ UNCHANGED vars
    BY <1>9, <1>11 DEF Tick, vars
  <1>12. QED
    BY <1>1, <1>4, <1>5, <1>6, <1>7, <1>8, <1>10, <1>11, OwnedWrite DEF Next, Receive

\* Every step keeps every version on its way while at most one tab sleeps.
LEMMA AgreeStep == AgreeInv /\ OneAsleep /\ [Next]_vars => AgreeInv'
  <1> SUFFICES ASSUME AgreeInv, OneAsleep, [Next]_vars PROVE AgreeInv'
    OBVIOUS
  <1>1. StampInv' /\ TypeOK' /\ Forward
    BY StampStep, StepForward DEF AgreeInv, StampInv
  <1>2. AllOpened' /\ Shown' /\ Owned'
    BY <1>1, OpenedStep, ShownStep, OwnedStep
  <1>3. Answered'
    <2>1. \A t \in Tab : ~Open(t)
      BY DEF AgreeInv, AllOpened, Open
    <2>2. ASSUME NEW t \in Tab, NEW v \in Value, Write(t, v) PROVE Answered'
      BY <1>1, <2>2, AnsweredWrite
    <2>3. ASSUME NEW t \in Tab, OnUpdate(t) PROVE Answered'
      BY <1>1, <2>3, AnsweredUpdate
    <2>4. ASSUME NEW t \in Tab, OnRequest(t) PROVE Answered'
      BY <1>1, <2>4, AnsweredRequest
    <2>5. ASSUME NEW t \in Tab, Dispose(t) PROVE Answered'
      BY <1>1, <2>5, AnsweredDispose
    <2>6. ASSUME NEW t \in Tab, Lose(t) PROVE Answered'
      BY <1>1, <2>6, AnsweredLose
    <2>7. ASSUME NEW t \in Tab, Sleep(t) PROVE Answered'
      <3>1. Hears(t) /\ <<>> \in Seq(Message)
        BY <2>7 DEF Sleep, Hears
      <3>2. QED
        BY <1>1, <2>7, <3>1, AnsweredStill
    <2>8. ASSUME NEW t \in Tab, Wake(t) PROVE Answered'
      <3>1. Hears(t) /\ <<Request(t)>> \in Seq(Message)
        BY <2>8, MessagesTyped DEF Wake, Hears
      <3>2. QED
        BY <1>1, <2>8, <3>1, AnsweredStill
    <2>9. CASE Tick \/ UNCHANGED vars
      <3>1. local' = local /\ inbox' = inbox /\ phase' = phase
        BY <2>9 DEF Tick, vars
      <3>2. QED
        BY <3>1 DEF AgreeInv, Answered, Coming, Hears
    <2>10. QED
      BY <2>1, <2>2, <2>3, <2>4, <2>5, <2>6, <2>7, <2>8, <2>9 DEF Next, Receive
  <1>4. QED
    BY <1>1, <1>2, <1>3 DEF AgreeInv

\* Every tab is open from the start, and no effect changes the initial value.
OpenTogether == Founders = Tab /\ \A t \in Tab : Reaction[t][Initial] = Initial

\* Nobody has written, so nothing needs to be on its way.
LEMMA AgreeInit == OpenTogether /\ Init => AgreeInv
  <1> SUFFICES ASSUME OpenTogether, Init PROVE AgreeInv
    OBVIOUS
  <1>1. StampInv
    BY Starts, StampStart
  <1>2. /\ \A t \in Tab : phase[t] = "open"
        /\ \A t \in Tab : inbox[t] = <<>>
        /\ \A t \in Tab : source[t] = Initial
    BY DEF Init, OpenTogether
  <1>3. \A t \in Tab : local[t].value = Initial /\ local[t].at = 0 /\ local[t].origin = t
    BY DEF Init, Stamped
  <1>4. AllOpened /\ Shown
    BY <1>2, <1>3 DEF AllOpened, Shown, OpenTogether
  <1>5. \A t \in Tab : Carried(inbox[t]) = {}
    <2>1. Carried(<<>>) = {}
      BY DEF Carried
    <2>2. QED
      BY <1>2, <2>1
  <1>6. ASSUME NEW e \in Everywhere PROVE \E t \in Tab : e = local[t]
    BY <1>5 DEF Everywhere, InFlight, Held
  <1>7. \A t \in Tab : ~Beats(local[t], local[t])
    BY <1>1, BeatsOrders DEF StampInv, TypeOK
  <1>8. Owned
    BY <1>3, <1>6, <1>7 DEF Owned
  <1>9. Answered
    <2>1. ASSUME NEW u \in Tab PROVE ~(local[u].at > 0) /\ DOMAIN inbox[u] = {}
      BY <1>2, <1>3
    <2>2. QED
      BY <2>1 DEF Answered
  <1>10. QED
    BY <1>1, <1>4, <1>8, <1>9 DEF AgreeInv

\* When nothing is on its way, what one tab holds no other tab's version beats.
LEMMA AgreeSettles == AgreeInv => Agreement
  <1> SUFFICES ASSUME AgreeInv PROVE Agreement
    OBVIOUS
  <1>1. \A t \in Showing : source[t] = Reaction[t][local[t].value]
    BY DEF AgreeInv, Shown, Showing
  <1>2. ASSUME Quiet, NEW t \in Showing, NEW u \in Showing
        PROVE  local[t].value = local[u].value
    <2>1. /\ t \in Tab /\ u \in Tab /\ Hears(t) /\ Hears(u)
          /\ local[t] \in Versioned /\ local[u] \in Versioned
          /\ local[t] \in Everywhere /\ local[u] \in Everywhere
          /\ local[t] \in InFlight \cup Held /\ local[u] \in InFlight \cup Held
          /\ local[t].at \in Nat /\ local[u].at \in Nat
      BY DEF Showing, Hears, AgreeInv, StampInv, TypeOK, Everywhere, Held, Versioned
    <2>2. ASSUME NEW x \in Tab, NEW y \in Tab, x # y, Hears(x), Hears(y), local[y].at > 0
          PROVE  ~Beats(local[y], local[x])
      <3>1. Coming(local[y], x, y, 0)
        BY <2>2 DEF AgreeInv, Answered
      <3>2. inbox[x] = <<>> /\ inbox[y] = <<>> /\ phase[x] # "asleep"
        BY <1>2 DEF Quiet
      <3>3. Carried(<<>>) = {} /\ ~AskedIn(x, <<>>, 0)
        BY DEF Carried, AskedIn
      <3>4. QED
        BY <3>1, <3>2, <3>3 DEF Coming, Reaching
    <2>3. CASE t = u
      BY <2>3
    <2>4. CASE t # u /\ local[t].at > 0 /\ local[u].at > 0
      <3>1. ~Beats(local[t], local[u]) /\ ~Beats(local[u], local[t])
        BY <2>1, <2>2, <2>4
      <3>2. local[t].at = local[u].at /\ local[t].origin = local[u].origin
        BY <2>1, <3>1, BeatsOrders
      <3>3. StampNamesWrite
        BY DEF AgreeInv, StampInv
      <3>4. local[t] = local[u]
        BY <2>1, <3>2, <3>3 DEF StampNamesWrite
      <3>5. QED
        BY <3>4
    <2>5. CASE local[t].at = 0 /\ local[u].at = 0
      BY <2>1, <2>5 DEF AgreeInv, Owned
    <2>6. CASE t # u /\ local[t].at > 0 /\ local[u].at = 0
      BY <2>1, <2>2, <2>6 DEF Beats
    <2>7. CASE t # u /\ local[u].at > 0 /\ local[t].at = 0
      BY <2>1, <2>2, <2>7 DEF Beats
    <2>8. QED
      BY <2>1, <2>3, <2>4, <2>5, <2>6, <2>7
  <1>3. QED
    BY <1>1, <1>2 DEF Agreement

\* Tabs open from the start, of any number, hold the same value once nothing is in flight and
\* nobody sleeps, and show it as their effects leave it, as long as no two sleep at a time:
\* a write reaches everyone or is asked for on waking.
THEOREM Agrees == ASSUME OpenTogether PROVE Spec /\ []OneAsleep => []Agreement
  <1>1. Init => AgreeInv
    BY AgreeInit
  <1>2. AgreeInv /\ OneAsleep /\ [Next]_vars => AgreeInv'
    BY AgreeStep
  <1>3. AgreeInv => Agreement
    BY AgreeSettles
  <1>4. QED
    BY <1>1, <1>2, <1>3, PTL DEF Spec

----------------------------------------------------------------------------
\* With one suspension at most one tab ever sleeps, and it asks when there is no sleeper.

NoRequests == \A u \in Tab : \A j \in DOMAIN inbox[u] : inbox[u][j].type = "update"
SleepInv ==
    /\ sleeps = 0 => NoRequests /\ \A t \in Tab : phase[t] # "asleep"
    /\ \A t \in Tab : phase[t] = "asleep" =>
          NoRequests /\ \A u \in Tab \ {t} : phase[u] # "asleep"

\* The one sleeper is the only one, and nobody has asked.
LEMMA SleepsAlone == SleepInv => OneAsleep
  <1> SUFFICES ASSUME SleepInv, NEW t \in Tab, NEW u \in Tab, t # u, phase[u] = "asleep"
               PROVE  phase[t] # "asleep" /\ ~AskedIn(t, inbox[u], 0)
    BY DEF OneAsleep
  <1>1. phase[t] # "asleep" /\ NoRequests
    BY DEF SleepInv
  <1>2. QED
    BY <1>1 DEF NoRequests, AskedIn, Request

\* Nobody sleeps at first.
LEMMA SleepStart == Start => SleepInv
  BY DEF Start, SleepInv, NoRequests

\* Extending queues with updates, or handling a head, adds no request.
LEMMA RequestsTail ==
    ASSUME TypeOK, NoRequests, NEW t \in Tab, inbox[t] # <<>>
    PROVE  \A u \in Tab : \A j \in DOMAIN Handled(t)[u] : Handled(t)[u][j].type = "update"
  <1>1. inbox[t] \in Seq(Message)
    BY DEF TypeOK
  <1>2. \A j \in DOMAIN Tail(inbox[t]) : Tail(inbox[t])[j].type = "update"
    BY <1>1, Consumed DEF NoRequests
  <1>3. \A u \in Tab : Handled(t)[u] = IF u = t THEN Tail(inbox[t]) ELSE inbox[u]
    BY DEF Handled, TypeOK
  <1>4. QED
    BY <1>2, <1>3 DEF NoRequests

\* A tab goes to sleep only while nobody has yet, and wakes as the only sleeper.
LEMMA SleepStep ==
    MaxSleeps <= 1 /\ TypeOK /\ TypeOK' /\ SleepInv /\ [Next]_vars => SleepInv'
  <1> SUFFICES ASSUME MaxSleeps <= 1, TypeOK, TypeOK', SleepInv, [Next]_vars PROVE SleepInv'
    OBVIOUS
  <1>1. ASSUME NoRequests => NoRequests', sleeps' = sleeps,
               \A t \in Tab : phase'[t] = "asleep" => phase[t] = "asleep"
        PROVE  SleepInv'
    BY <1>1 DEF SleepInv
  <1>2. ASSUME sleeps # 0, sleeps' = sleeps, \A t \in Tab : phase'[t] # "asleep"
        PROVE  SleepInv'
    BY <1>2 DEF SleepInv
  <1>3. ASSUME NEW t \in Tab, Open(t) PROVE SleepInv'
    BY <1>1, <1>3 DEF Open, TypeOK, NoRequests
  <1>4. ASSUME NEW t \in Tab, OnUpdate(t) PROVE SleepInv'
    <2>1. NoRequests => NoRequests'
      BY <1>4, RequestsTail DEF OnUpdate, Incoming, NoRequests
    <2>2. QED
      BY <1>1, <1>4, <2>1 DEF OnUpdate
  <1>5. ASSUME NEW t \in Tab, OnRequest(t) PROVE SleepInv'
    <2>1. ~NoRequests
      <3>1. /\ inbox[t] \in Seq(Message) /\ inbox[t] # <<>>
            /\ Head(inbox[t]).type = "request"
        BY <1>5 DEF OnRequest, Incoming, TypeOK
      <3>2. 1 \in DOMAIN inbox[t] /\ Head(inbox[t]) = inbox[t][1]
        BY <3>1, Consumed
      <3>3. QED
        BY <3>1, <3>2 DEF NoRequests
    <2>2. QED
      BY <1>2, <1>5, <2>1 DEF OnRequest, SleepInv
  <1>6. ASSUME NEW t \in Tab, Dispose(t) PROVE SleepInv'
    <2>1. NoRequests => NoRequests'
      BY <1>6 DEF Dispose, NoRequests, TypeOK
    <2>2. QED
      BY <1>1, <1>6, <2>1 DEF Dispose, TypeOK
  <1>7. ASSUME NEW t \in Tab, Sleep(t) PROVE SleepInv'
    <2>1. sleeps = 0 /\ sleeps' = 1 /\ inbox' = inbox
      BY <1>7, BoundAssumption DEF Sleep, TypeOK
    <2>2. NoRequests' /\ \A u \in Tab : phase[u] # "asleep"
      BY <2>1 DEF SleepInv, NoRequests
    <2>3. \A u \in Tab \ {t} : phase'[u] # "asleep"
      BY <1>7, <2>2 DEF Sleep, TypeOK
    <2>4. QED
      BY <2>1, <2>2, <2>3 DEF SleepInv
  <1>8. ASSUME NEW t \in Tab, Lose(t) PROVE SleepInv'
    <2>1. NoRequests => NoRequests'
      BY <1>8, RequestsTail DEF Lose, NoRequests
    <2>2. QED
      BY <1>1, <1>8, <2>1 DEF Lose
  <1>9. ASSUME NEW t \in Tab, Wake(t) PROVE SleepInv'
    <2>1. sleeps # 0 /\ sleeps' = sleeps
      BY <1>9 DEF Wake, SleepInv
    <2>2. \A u \in Tab : phase'[u] # "asleep"
      BY <1>9 DEF Wake, SleepInv, TypeOK
    <2>3. QED
      BY <1>2, <2>1, <2>2
  <1>10. ASSUME NEW t \in Tab, NEW v \in Value, Write(t, v) PROVE SleepInv'
    <2>1. PICK mid \in Side, after \in Side : Wrote(t, v, mid, after)
      BY <1>10, WriteFacts
    <2>2. NoRequests => NoRequests'
      <3> SUFFICES ASSUME NoRequests, NEW u \in Tab, NEW j \in DOMAIN inbox'[u]
                   PROVE  inbox'[u][j].type = "update"
        BY DEF NoRequests
      <3>1. /\ inbox[u] \in Seq(Message) /\ after.sent \in Seq(Message)
            /\ inbox'[u] \in {inbox[u], inbox[u] \o after.sent}
        BY <2>1 DEF Wrote, Posted, TypeOK, Side
      <3>2. CASE inbox'[u] = inbox[u]
        BY <3>2 DEF NoRequests
      <3>3. CASE inbox'[u] = inbox[u] \o after.sent
        <4>1. CASE j \in DOMAIN inbox[u]
          <5>1. inbox'[u][j] = inbox[u][j]
            BY <3>1, <3>3, <4>1, Extended
          <5>2. QED
            BY <4>1, <5>1 DEF NoRequests
        <4>2. CASE j \notin DOMAIN inbox[u]
          <5>1. PICK k \in DOMAIN after.sent : inbox'[u][j] = after.sent[k]
            <6>1. j \in DOMAIN (inbox[u] \o after.sent)
              BY <3>3
            <6>2. inbox[u] \in Seq(Message) /\ after.sent \in Seq(Message)
              BY <3>1
            <6>3. \E k \in DOMAIN after.sent : (inbox[u] \o after.sent)[j] = after.sent[k]
              BY <4>2, <6>1, <6>2, Appended
            <6>4. QED
              BY <3>3, <6>3
          <5>2. QED
            BY <2>1, <5>1 DEF Wrote
        <4>3. QED
          BY <4>1, <4>2
      <3>4. QED
        BY <3>1, <3>2, <3>3
    <2>3. QED
      BY <1>1, <1>10, <2>2 DEF Write
  <1>11. CASE Tick \/ UNCHANGED vars
    BY <1>1, <1>11 DEF Tick, vars, NoRequests
  <1>12. QED
    BY <1>3, <1>4, <1>5, <1>6, <1>7, <1>8, <1>9, <1>10, <1>11 DEF Next, Receive

----------------------------------------------------------------------------
\* The two protocols side by side.

TabsVars == <<part, vars, elections>>

\* Every step is a step of the signal, and of the election its part names.
LEMMA Parts ==
    ASSUME [TabsNext]_TabsVars
    PROVE  /\ part' = part
           /\ [Next]_vars
           /\ part = "crowd" => [Crowd!Next]_(Crowd!vars)
           /\ part = "pair" => [Pair!Next]_(Pair!vars)
  <1>1. CASE SignalNext
    <2>1. /\ part' = part /\ part \in {"signal", "late"}
          /\ \/ \E t \in Latecomers : Open(t)
             \/ \E t \in Tab : \/ OnUpdate(t) \/ OnRequest(t) \/ Dispose(t) \/ Sleep(t)
                               \/ Lose(t) \/ Wake(t) \/ (\E v \in Value : Write(t, v))
             \/ Tick
      BY <1>1 DEF SignalNext, OfSignal
    <2>2. Latecomers \subseteq Tab
      BY LateAssumption
    <2>3. Next
      BY <2>1, <2>2 DEF Next, Receive
    <2>4. QED
      BY <2>1, <2>3
  <1>2. CASE CrowdNext
    <2>1. /\ part' = part /\ part = "crowd" /\ UNCHANGED vars
      BY <1>2 DEF CrowdNext, OfCrowd
    <2>2. Crowd!Next
      BY <1>2 DEF CrowdNext, OfCrowd, Crowd!Next, Crowd!Timers, Crowd!Messages,
                  Crowd!Environment
    <2>3. QED
      BY <2>1, <2>2
  <1>3. CASE PairNext
    <2>1. /\ part' = part /\ part = "pair" /\ UNCHANGED vars
      BY <1>3 DEF PairNext, OfPair
    <2>2. Pair!Next
      BY <1>3 DEF PairNext, OfPair, Pair!Next, Pair!Timers, Pair!Messages, Pair!Environment
    <2>3. QED
      BY <2>1, <2>2
  <1>4. CASE UNCHANGED TabsVars
    BY <1>4 DEF TabsVars, elections, Crowd!vars, Pair!vars
  <1>5. QED
    BY <1>1, <1>2, <1>3, <1>4 DEF TabsNext

\* Each tab's state and messages are in their types, of the signal and of the election under
\* way, for every set of tabs and values and every timing and bound.
THEOREM TabsTyped == TabsSpec => []AllTyped
  <1>1. TabsInit => AllTyped
    <2> SUFFICES ASSUME TabsInit PROVE AllTyped
      OBVIOUS
    <2>1. TypeOK
      BY Starts, TypedStart DEF TabsInit
    <2>2. part = "crowd" => Crowd!TypeOK
      BY Crowd!TypedInit, CrowdAssumption DEF TabsInit
    <2>3. part = "pair" => Pair!TypeOK
      BY Pair!TypedInit, PairAssumption DEF TabsInit
    <2>4. QED
      BY <2>1, <2>2, <2>3 DEF AllTyped
  <1>2. AllTyped /\ [TabsNext]_TabsVars => AllTyped'
    <2> SUFFICES ASSUME AllTyped, [TabsNext]_TabsVars PROVE AllTyped'
      OBVIOUS
    <2>1. TypeOK'
      BY Parts, TypedStep DEF AllTyped
    <2>2. part' = "crowd" => Crowd!TypeOK'
      BY Parts, Crowd!TypedStep, CrowdAssumption DEF AllTyped
    <2>3. part' = "pair" => Pair!TypeOK'
      BY Parts, Pair!TypedStep, PairAssumption DEF AllTyped
    <2>4. QED
      BY <2>1, <2>2, <2>3 DEF AllTyped
  <1>3. QED
    BY <1>1, <1>2, PTL DEF TabsSpec, TabsVars

\* A stamp with its origin names one write also where tabs open late, and what an open tab
\* holds is only ever replaced by a later version.
THEOREM TabsStamped == TabsSpec => []StampNamesWrite /\ HoldsLater
  <1>1. TabsInit => StampInv
    BY Starts, StampStart DEF TabsInit
  <1>2. StampInv /\ [TabsNext]_TabsVars => StampInv'
    BY Parts, StampStep
  <1>3. StampInv /\ [TabsNext]_TabsVars => [Forward]_vars
    BY Parts, StepForward
  <1>4. Forward => \A t \in Tab : Hears(t) => local'[t] = local[t] \/ Beats(local'[t], local[t])
    BY DEF Forward, Hears
  <1>5. StampInv => StampNamesWrite
    BY DEF StampInv
  <1>6. QED
    BY <1>1, <1>2, <1>3, <1>4, <1>5, PTL DEF TabsSpec, TabsVars, HoldsLater

\* Tabs open from the start agree once nothing is in flight, where at most one suspension ever
\* happens.
THEOREM TabsAgree ==
    ASSUME OpenTogether, MaxSleeps <= 1 PROVE TabsSpec => []OpenedTogetherAgree
  <1> DEFINE Kept == part = "signal" => AgreeInv /\ SleepInv
  <1>1. TabsInit => Kept
    BY Starts, AgreeInit, SleepStart DEF TabsInit
  <1>2. Kept /\ [TabsNext]_TabsVars => Kept'
    <2> SUFFICES ASSUME part = "signal", AgreeInv, SleepInv, [TabsNext]_TabsVars
                 PROVE  AgreeInv' /\ SleepInv'
      BY Parts
    <2>1. [Next]_vars
      BY Parts
    <2>2. AgreeInv'
      BY <2>1, SleepsAlone, AgreeStep
    <2>3. TypeOK /\ TypeOK'
      BY <2>2 DEF AgreeInv, StampInv
    <2>4. QED
      BY <2>1, <2>2, <2>3, SleepStep
  <1>3. Kept => OpenedTogetherAgree
    BY AgreeSettles DEF OpenedTogetherAgree
  <1>4. QED
    BY <1>1, <1>2, <1>3, PTL DEF TabsSpec, TabsVars

\* The crowd settles on at most one leader, however many tabs and whatever their timing, and of
\* the pair, where messages take less than a heartbeat and than the timeout and one suspension
\* is allowed, one gives way within a heartbeat and a message's delay.
THEOREM LeadersAlwaysGiveWay ==
    ASSUME Pair!Timely PROVE TabsSpec => []LeadersGiveWay
  <1> DEFINE Kept == (part = "crowd" => Crowd!CrowdInv) /\ (part = "pair" => Pair!PairInv)
  <1>1. Crowd!Prompt
    BY DEF Crowd!Prompt
  <1>2. TabsInit => Kept
    BY Crowd!CrowdInit, CrowdAssumption, Pair!PairInit, PairAssumption DEF TabsInit
  <1>3. Kept /\ [TabsNext]_TabsVars => Kept'
    <2> SUFFICES ASSUME Kept, [TabsNext]_TabsVars PROVE Kept'
      OBVIOUS
    <2>1. part' = "crowd" => Crowd!CrowdInv'
      BY <1>1, Parts, Crowd!CrowdStep, CrowdAssumption
    <2>2. part' = "pair" => Pair!PairInv'
      BY Parts, Pair!PairStep, PairAssumption
    <2>3. QED
      BY <2>1, <2>2
  <1>4. Kept => LeadersGiveWay
    <2>1. Crowd!CrowdInv => Crowd!SettledSingleLeader
      BY <1>1, Crowd!CrowdSettles, CrowdAssumption
    <2>2. Pair!PairInv => Pair!SplitHeals
      BY DEF Pair!PairInv
    <2>3. QED
      BY <2>1, <2>2 DEF LeadersGiveWay
  <1>5. QED
    BY <1>2, <1>3, <1>4, PTL DEF TabsSpec, TabsVars
=============================================================================
