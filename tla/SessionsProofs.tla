---------------------------- MODULE SessionsProofs ----------------------------
(***************************************************************************)
(* What holds of server sessions for every number of sessions, requests,   *)
(* callers and passwords, and every lifetime: the index a store keeps of a *)
(* subject's sessions, the session engine, and the passwords sessions are  *)
(* opened with.                                                            *)
(***************************************************************************)
EXTENDS MCSessions, FiniteSetTheorems, TLAPS

----------------------------------------------------------------------------
\* The index of a subject's sessions.

\* What is known of a session that has time, and whose write() neither failed nor was missed:
\* it is in the index or being written, and whoever will write the index back has read it.
Sound == Index!Live \ loose
Indexed ==
    /\ \A i \in Sound \ index : \E r \in Caller : Index!Writes(r) /\ i \in own[r]
    /\ \A i \in index : usable[i] <= left
    /\ \A r \in Caller :
          /\ at[r] = "write-index" => Sound \ beside[r] \subseteq seen[r] \cup own[r]
          /\ at[r] = "prune-look" => sessions \cap own[r] \subseteq beside[r]
          /\ at[r] = "prune" => Sound \ beside[r] \subseteq seen[r] \ own[r]
          /\ at[r] = "sign-out" => Sound \ beside[r] \subseteq seen[r]

\* Whatever is read of the index, or about to be put there, was issued.
Issued == \A r \in Caller : seen[r] \subseteq issued /\ own[r] \subseteq issued

IndexInv == Index!TypeOK /\ Issued /\ Indexed

\* At first there are no sessions.
LEMMA IndexStarts == Index!Init => IndexInv
  <1> SUFFICES ASSUME Index!Init PROVE IndexInv
    OBVIOUS
  <1>1. Index!TypeOK
    BY IndexAssumption DEF Index!ConstantsOK, Index!Init, Index!TypeOK, Index!Calls
  <1>2. Issued /\ Indexed
    BY DEF Index!Init, Issued, Indexed, Sound, Index!Live
  <1>. QED
    BY <1>1, <1>2 DEF IndexInv

\* Every call keeps every variable in its type.
LEMMA IndexTypes ==
    ASSUME Index!TypeOK, Issued, [Index!Next]_(Index!vars)
    PROVE  Index!TypeOK' /\ Issued'
  <1> USE IndexAssumption
      DEF Index!ConstantsOK, Index!TypeOK, Index!Calls, Issued, Index!Go, Index!Ends, Index!Store
  <1>w. \A r \in Caller : Index!BeingWritten(r) \subseteq Session
    BY DEF Index!BeingWritten
  <1>s. ASSUME NEW r \in Caller, NEW ids, Index!Store(r, ids)
        PROVE  left' \in 0..IndexTtl /\ (left' = 0 <=> index' = {})
    <2>1. IndexTtl \in Nat /\ IndexTtl # 0
      OBVIOUS
    <2>. QED
      BY <1>s, <2>1
  <1> HIDE DEF Index!Store
  <1>l. ASSUME NEW r \in Caller, NEW ids, Index!Store(r, ids)
        PROVE  index' = ids /\ loose' = loose \cup beside[r]
    BY <1>l DEF Index!Store
  <1>1. ASSUME NEW r \in Caller, Index!Writing(r) PROVE Index!TypeOK' /\ Issued'
    <2>1. CASE Index!WriteLook(r)
      BY <1>w, <2>1 DEF Index!WriteLook, Index!Reads
    <2>2. CASE Index!WriteIndex(r)
      BY <1>s, <1>l, <2>2 DEF Index!WriteIndex
    <2>3. ASSUME NEW i \in Session, Index!Write(r, i) PROVE Index!TypeOK' /\ Issued'
      <3>1. usable' \in [Session -> 0..Ceiling]
        BY <2>3 DEF Index!Write
      <3>2. beside' \in [Caller -> SUBSET Session]
        BY <2>3 DEF Index!Write
      <3>. QED
        BY <2>3, <3>1, <3>2 DEF Index!Write
    <2>. QED
      BY <1>1, <2>1, <2>2, <2>3 DEF Index!Writing
  <1>2. ASSUME NEW r \in Caller, Index!Destroying(r) PROVE Index!TypeOK' /\ Issued'
    <2>1. CASE Index!DestroyDelete(r)
      BY <2>1 DEF Index!DestroyDelete
    <2>3. CASE Index!PruneLook(r)
      BY <1>w, <2>3 DEF Index!PruneLook, Index!Reads
    <2>4. CASE Index!Prune(r)
      BY <1>s, <1>l, <2>4 DEF Index!Prune
    <2>2. ASSUME NEW i \in Session, Index!Destroy(r, i) PROVE Index!TypeOK' /\ Issued'
      BY <1>w, <2>2 DEF Index!Destroy
    <2>. QED
      BY <1>2, <2>1, <2>2, <2>3, <2>4 DEF Index!Destroying
  <1>3. ASSUME NEW r \in Caller, Index!SigningOut(r) PROVE Index!TypeOK' /\ Issued'
    <2>1. CASE Index!SignOut(r)
      BY <1>w, <2>1 DEF Index!SignOut, Index!Reads
    <2>2. ASSUME NEW i \in Session, Index!SignOutDelete(r, i) PROVE Index!TypeOK' /\ Issued'
      BY <2>2 DEF Index!SignOutDelete
    <2>3. CASE Index!SignOutEnds(r)
      BY <1>s, <1>l, <2>3 DEF Index!SignOutEnds
    <2>. QED
      BY <1>3, <2>1, <2>2, <2>3 DEF Index!SigningOut
  <1>4. ASSUME NEW i \in Session, Index!Expire(i) PROVE Index!TypeOK' /\ Issued'
    BY <1>4 DEF Index!Expire
  <1>5. ASSUME NEW r \in Caller, Index!Fails(r) PROVE Index!TypeOK' /\ Issued'
    BY <1>5 DEF Index!Fails
  <1>6. CASE Index!Tick
    BY <1>6 DEF Index!Tick, Index!Less
  <1>7. CASE UNCHANGED Index!vars
    BY <1>7 DEF Index!vars
  <1>. QED
    BY <1>1, <1>2, <1>3, <1>4, <1>5, <1>6, <1>7 DEF Index!Next

\* Every call keeps what is known of the index.
LEMMA IndexedStep ==
    ASSUME IndexInv, [Index!Next]_(Index!vars)
    PROVE  Indexed'
  <1> USE DEF IndexInv, Indexed, Sound, Index!Live, Index!Go, Index!Ends, Index!Store
  <1>t. /\ at \in [Caller -> Index!Calls] /\ own \in [Caller -> SUBSET Session]
        /\ seen \in [Caller -> SUBSET Session] /\ beside \in [Caller -> SUBSET Session]
        /\ usable \in [Session -> 0..Ceiling] /\ left \in 0..IndexTtl /\ index \subseteq issued
        /\ issued \subseteq Session /\ sessions \subseteq Session
    BY DEF Index!TypeOK
  <1>c. Ceiling \in Nat /\ IndexTtl \in Nat /\ Ceiling <= IndexTtl
    BY IndexAssumption DEF Index!ConstantsOK
  <1>w. \A r, s \in Caller : r # s /\ Index!Writes(s) => own[s] \subseteq Index!BeingWritten(r)
    BY DEF Index!BeingWritten
  <1>b. \A r \in Caller : Index!BeingWritten(r) \subseteq Session
    BY <1>t DEF Index!BeingWritten
  <1>1. ASSUME NEW r \in Caller, NEW i \in Session, Index!Write(r, i) PROVE Indexed'
    <2>1. usable' \in [Session -> 0..Ceiling] /\ \A j \in issued : usable'[j] = usable[j]
      BY <1>1, <1>t DEF Index!Write
    <2>2. Sound' \subseteq Sound \cup {i}
      <3>1. \A j \in Session \ {i} : usable'[j] = usable[j]
        BY <1>1, <1>t DEF Index!Write
      <3>. QED
        BY <1>1, <1>t, <3>1 DEF Index!Write
    <2>3. \A s \in Caller : Index!Writes(s)' <=> s = r \/ Index!Writes(s)
      BY <1>1, <1>t DEF Index!Write, Index!Writes
    <2>4. own' = [own EXCEPT ![r] = {i}]
      BY <1>1 DEF Index!Write
    <2>5. ~Index!Writes(r)
      BY <1>1 DEF Index!Write, Index!Writes
    <2>6. \A j \in Sound' \ index' : \E s \in Caller : Index!Writes(s)' /\ j \in own'[s]
      BY <1>1, <1>t, <2>2, <2>3, <2>4, <2>5 DEF Index!Write
    <2>7. \A j \in index' : usable'[j] <= left'
      BY <1>1, <1>t, <2>1 DEF Index!Write
    <2>8. ASSUME NEW s \in Caller, at'[s] \in {"write-index", "prune-look", "prune", "sign-out"}
          PROVE  /\ s # r /\ at'[s] = at[s] /\ own'[s] = own[s] /\ seen' = seen
                 /\ beside'[s] = beside[s] \cup {i}
      BY <1>1, <1>t, <2>8 DEF Index!Write
    <2>9. sessions' = sessions \cup {i}
      BY <1>1 DEF Index!Write
    <2>. QED
      BY <2>2, <2>6, <2>7, <2>8, <2>9
  <1>2. ASSUME NEW r \in Caller, Index!WriteLook(r) PROVE Indexed'
    BY <1>2, <1>t, <1>w, <1>b DEF Index!WriteLook, Index!Reads, Index!Writes
  <1>3. ASSUME NEW r \in Caller, Index!WriteIndex(r) PROVE Indexed'
    BY <1>3, <1>t, <1>c DEF Index!WriteIndex, Index!Writes, Issued
  <1>4. ASSUME NEW r \in Caller, NEW i \in Session, Index!Destroy(r, i) PROVE Indexed'
    BY <1>4, <1>t, <1>b DEF Index!Destroy, Index!Writes
  <1>5. ASSUME NEW r \in Caller, Index!DestroyDelete(r) PROVE Indexed'
    BY <1>5, <1>t DEF Index!DestroyDelete, Index!Writes
  <1>6. ASSUME NEW r \in Caller, Index!PruneLook(r) PROVE Indexed'
    BY <1>6, <1>t, <1>w, <1>b DEF Index!PruneLook, Index!Reads, Index!Writes
  <1>7. ASSUME NEW r \in Caller, Index!Prune(r) PROVE Indexed'
    BY <1>7, <1>t, <1>c DEF Index!Prune, Index!Writes, Issued
  <1>8. ASSUME NEW r \in Caller, Index!SignOut(r) PROVE Indexed'
    BY <1>8, <1>t, <1>w, <1>b DEF Index!SignOut, Index!Reads, Index!Writes
  <1>9. ASSUME NEW r \in Caller, NEW i \in Session, Index!SignOutDelete(r, i) PROVE Indexed'
    BY <1>9, <1>t DEF Index!SignOutDelete, Index!Writes
  <1>10. ASSUME NEW r \in Caller, Index!SignOutEnds(r) PROVE Indexed'
    BY <1>10, <1>t DEF Index!SignOutEnds, Index!Writes
  <1>11. ASSUME NEW i \in Session, Index!Expire(i) PROVE Indexed'
    BY <1>11, <1>t DEF Index!Expire, Index!Writes
  <1>12. ASSUME NEW r \in Caller, Index!Fails(r) PROVE Indexed'
    BY <1>12, <1>t DEF Index!Fails, Index!Writes
  <1>13. CASE Index!Tick
    BY <1>13, <1>t, <1>c DEF Index!Tick, Index!Less, Index!Writes
  <1>14. CASE UNCHANGED Index!vars
    BY <1>14 DEF Index!vars, Index!Writes
  <1>. QED
    BY <1>1, <1>2, <1>3, <1>4, <1>5, <1>6, <1>7, <1>8, <1>9, <1>10, <1>11, <1>12, <1>13, <1>14
       DEF Index!Next, Index!Writing, Index!Destroying, Index!SigningOut

\* When a destroyForSubject() is over, what is left and has time is loose.
LEMMA SignOutLeavesLoose ==
    ASSUME IndexInv, NEW r \in Caller, Index!SignOutEnds(r)
    PROVE  Index!Live \subseteq loose'
  <1>1. Index!Live \subseteq loose \cup beside[r]
    BY DEF IndexInv, Indexed, Sound, Index!SignOutEnds
  <1>. QED
    BY <1>1 DEF Index!SignOutEnds, Index!Store

----------------------------------------------------------------------------
\* The session engine.

\* Steps of a request that has a record in hand, that has an id for a successor, and both.
Asking == {"read", "follow"}
Continuing == {"touch", "reread"}
Carrying == {"touch", "reread", "mark"}
Rotating == {"mark", "issue"}
Working == {"touch", "reread", "mark", "issue"}

\* A record after a use, and after a rotation; and the request that rotates then.
Touched(rec, t) == [rec EXCEPT !.seen = t]
Superseded(rec, t, n) == [rec EXCEPT !.until = t, !.next = n]
Issuing(r) == [r EXCEPT !.step = "issue"]

\* A superseded record leads to an id, and what a request has in hand is a record.
Superseding ==
    /\ \A i \in Id : store[i].until # Never => store[i].next # 0
    /\ \A q \in Req :
          /\ req[q].step \in Carrying =>
                /\ req[q].rec \in Record
                /\ req[q].rec.until # Never => req[q].rec.next # 0
          /\ req[q].step \in Rotating => req[q].next \in Id

\* Ids in use were minted, and the id a rotation has minted for a successor is its own:
\* nothing is stored, given out or worked on under it.
Minted ==
    /\ \A t \in given : t.id <= minted
    /\ \A i \in Id : store[i] # Gone => i <= minted
    /\ \A q \in Req : req[q].step \in Working => req[q].id <= minted
    /\ \A q \in Req : req[q].step \in Rotating =>
          /\ req[q].next <= minted /\ store[req[q].next] = Gone
          /\ \A t \in given : t.id # req[q].next
          /\ \A p \in Req :
                /\ req[p].step \in Working => req[p].id # req[q].next
                /\ req[p].step \in Rotating /\ p # q => req[p].next # req[q].next

\* Of a record of session i: it ends with the lifetime that began with the sign-in, and
\* tells of no use there was not.
Dated(i, rec) == rec.expires = born[i] + AbsoluteTtl /\ rec.seen <= used[i]

Dates ==
    /\ \A i \in Id : store[i] # Gone => Dated(i, store[i])
    /\ \A q \in Req :
          /\ req[q].step \in Carrying => Dated(req[q].id, req[q].rec)
          /\ req[q].step \in Rotating => req[q].expires = born[req[q].id] + AbsoluteTtl

\* The successor's id is in no record before the predecessor is marked, and in no other's.
Reserved ==
    /\ \A i \in Id : store[i].next <= minted
    /\ \A q \in Req : req[q].step \in Carrying => req[q].rec.next <= minted
    /\ \A q \in Req : req[q].step \in Rotating =>
          /\ \A i \in Id : store[i].next = req[q].next => req[q].step = "issue" /\ i = req[q].id
          /\ \A p \in Req : req[p].step \in Carrying /\ req[p].rec.next = req[q].next
                              => req[q].step = "issue" /\ req[p].id = req[q].id

\* The record leads to a session that is there, or on its way.
Leads(i, rec) == rec.next # 0 => i \in cut \/ store[rec.next] # Gone \/ Arriving(rec.next)

Linked ==
    destroyed = {} =>
        /\ \A t \in given : store[t.id] # Gone
        /\ \A i \in Id : Leads(i, store[i])
        /\ \A q \in Req : req[q].step \in Carrying => Leads(req[q].id, req[q].rec)

EngineTyped == TypeOK /\ Superseding
EngineInv == EngineTyped /\ Minted /\ Dates /\ Reserved /\ Linked

----------------------------------------------------------------------------
\* The sizes the bounds of AuthSessions have.
LEMMA Sizes ==
    /\ MaxId \in Nat /\ 1 \in Id /\ Id \subseteq Nat /\ 0 \notin Id
    /\ MaxTime \in Nat /\ Time \subseteq Nat /\ 0 \in Time
    /\ AbsoluteTtl \in Nat /\ Overlap \in Nat /\ IdleTtl \in Nat /\ MaxFaults \in Nat
    /\ Far \subseteq Nat /\ 0 \in Far /\ Never \notin Far /\ Never \notin Time
    /\ \A t \in Time : t + AbsoluteTtl \in Far /\ t + Overlap \in Far
  BY SessionsAssumption DEF SessionsAssumption, Id, Time, Far, Never

\* What is stored, or nothing.
LEMMA NoRecord ==
    /\ Gone \notin Record /\ Gone.next = 0 /\ Gone.until = Never
  BY Sizes DEF Gone, Record

\* A request at rest.
LEMMA AtRest == Resting \in Request /\ Resting.step = "idle"
  BY Sizes DEF Resting, Request, Steps

\* A request moves on, and the others wait.
LEMMA Turns ==
    ASSUME req \in [Req -> Request], NEW q \in Req, NEW r \in Request, Becomes(q, r)
    PROVE  req' \in [Req -> Request] /\ req'[q] = r /\ \A p \in Req \ {q} : req'[p] = req[p]
  BY DEF Becomes

\* A record is written, and the others stay.
LEMMA Puts ==
    ASSUME store \in [Id -> Record \cup {Gone}], NEW i \in Id, NEW rec \in Record, Put(i, rec)
    PROVE  /\ store' \in [Id -> Record \cup {Gone}] /\ store'[i] = rec
           /\ \A j \in Id \ {i} : store'[j] = store[j]
  BY DEF Put

\* The record of a session that was just opened.
LEMMA FreshRecord ==
    ASSUME NEW t \in Time, NEW e \in Far
    PROVE  [seen |-> t, expires |-> e, until |-> Never, next |-> 0] \in Record
  BY DEF Record

\* What a read that succeeds has found, and what the request does then.
LEMMA Served ==
    ASSUME TypeOK, NEW q \in Req, req[q].step \in Asking, Verdict(q) = "served"
    PROVE  LET i == req[q].id  rec == store[i]
           IN  /\ i \in Id /\ rec \in Record
               /\ req[q].at < rec.expires /\ req[q].at - rec.seen <= IdleTtl
               /\ Seen(q) \in Request
               /\ \/ Seen(q).step = "idle"
                  \/ /\ Seen(q).step \in Continuing /\ Seen(q).id = i
                     /\ Seen(q).rec = [rec EXCEPT !.seen = req[q].at]
  <1> DEFINE i == req[q].id
             rec == store[i]
             known == [req[q] EXCEPT !.rec = [rec EXCEPT !.seen = req[q].at]]
  <1>1. req[q] \in Request /\ i \in Id /\ req[q].at \in Time
    BY DEF TypeOK, Request
  <1>2. rec \in Record /\ req[q].at < rec.expires /\ req[q].at - rec.seen <= IdleTtl
    <2>1. rec \in Record \cup {Gone}
      BY <1>1 DEF TypeOK
    <2>2. /\ rec # Gone /\ ~(req[q].at >= rec.expires) /\ ~(req[q].at - rec.seen > IdleTtl)
      BY DEF Verdict
    <2>3. rec \in Record
      BY <2>1, <2>2
    <2>4. rec.expires \in Nat /\ rec.seen \in Nat /\ req[q].at \in Nat /\ IdleTtl \in Nat
      BY <2>3, <1>1, Sizes DEF Record
    <2>. QED
      BY <2>2, <2>3, <2>4
  <1>3. [rec EXCEPT !.seen = req[q].at] \in Record
    BY <1>1, <1>2 DEF Record
  <1>4. known \in Request /\ known.id = i /\ known.rec = [rec EXCEPT !.seen = req[q].at]
    BY <1>1, <1>3 DEF Request
  <1>5. ASSUME NEW s \in Continuing
        PROVE  LET k == [known EXCEPT !.step = s]
               IN  k \in Request /\ k.step = s /\ k.id = i /\ k.rec = [rec EXCEPT !.seen = req[q].at]
    BY <1>4 DEF Request, Steps, Continuing
  <1>6. \/ Seen(q) = [known EXCEPT !.step = "touch"]
        \/ Seen(q) = [known EXCEPT !.step = "reread"]
        \/ Seen(q) = Resting
    BY DEF Seen, Onward
  <1>. HIDE DEF known, rec, i
  <1>7. CASE Seen(q) = [known EXCEPT !.step = "touch"]
    BY <1>1, <1>2, <1>5, <1>7 DEF i, rec, Continuing
  <1>8. CASE Seen(q) = [known EXCEPT !.step = "reread"]
    BY <1>1, <1>2, <1>5, <1>8 DEF i, rec, Continuing
  <1>9. CASE Seen(q) = Resting
    BY <1>1, <1>2, <1>9, AtRest DEF i, rec
  <1>. QED
    BY <1>6, <1>7, <1>8, <1>9

\* A request that ends, or begins to read, has nothing in hand; it may have used a session,
\* been given a token of what is stored, or cut a rotation short.
LEMMA StepLeaving ==
    ASSUME EngineInv, NEW q \in Req, NEW r \in Request, Becomes(q, r), r.step \notin Working,
           UNCHANGED <<now, store, minted, born, destroyed>>, faults' \in 0..MaxFaults,
           given \subseteq given',
           \A t \in given' \ given : \E i \in Id : store[i] \in Record /\ t = Token(i, store[i]),
           used' \in [Id -> Time], \A i \in Id : used[i] <= used'[i],
           cut \subseteq cut', cut' \subseteq Id, req[q].step = "issue" => req[q].id \in cut'
    PROVE  EngineInv'
  <1>1. /\ req' \in [Req -> Request] /\ req'[q] = r /\ \A p \in Req \ {q} : req'[p] = req[p]
    BY Turns DEF EngineInv, EngineTyped, TypeOK
  <1>2. /\ r.step \notin Carrying /\ r.step \notin Rotating
    BY DEF Working, Carrying, Rotating
  <1>3. \A t \in given' \ given : t.id \in Id /\ store[t.id] # Gone /\ t \in [id : Id, expires : Far]
    BY NoRecord DEF Token, Record
  <1>t. /\ store \in [Id -> Record \cup {Gone}] /\ req \in [Req -> Request]
        /\ \A t \in given : t \in [id : Id, expires : Far]
        /\ used \in [Id -> Time] /\ born \in [Id -> Time]
    BY DEF EngineInv, EngineTyped, TypeOK
  <1>4. EngineTyped'
    <2>1. TypeOK'
      BY <1>1, <1>3 DEF EngineInv, EngineTyped, TypeOK
    <2>2. Superseding'
      BY <1>1, <1>2 DEF EngineInv, EngineTyped, Superseding
    <2>. QED
      BY <2>1, <2>2 DEF EngineTyped
  <1>5. Minted'
    <2>1. \A t \in given' : t.id <= minted
      BY <1>3 DEF EngineInv, Minted
    <2>2. ASSUME NEW p \in Req, req'[p].step \in Rotating
          PROVE  \A t \in given' : t.id # req'[p].next
      BY <1>1, <1>2, <1>3, <2>2 DEF EngineInv, Minted
    <2>. QED
      BY <1>1, <1>2, <2>1, <2>2 DEF EngineInv, Minted
  <1>6. Dates'
    <2>1. ASSUME NEW i \in Id, NEW rec \in Record, Dated(i, rec) PROVE Dated(i, rec)'
      <3>1. used[i] \in Nat /\ used'[i] \in Nat /\ rec.seen \in Nat
        BY <1>t, Sizes DEF Record
      <3>. QED
        BY <2>1, <3>1 DEF Dated
    <2>2. \A p \in Req \ {q} : req[p].step \in Carrying => req[p].id \in Id /\ req[p].rec \in Record
      BY <1>t DEF EngineInv, EngineTyped, Superseding, Request
    <2>3. \A i \in Id : store[i] # Gone => store[i] \in Record
      BY <1>t
    <2>. QED
      BY <1>1, <1>2, <2>1, <2>2, <2>3 DEF EngineInv, Dates
  <1>7. Reserved'
    BY <1>1, <1>2 DEF EngineInv, Reserved
  <1>8. Linked'
    <2> SUFFICES ASSUME destroyed = {} PROVE Linked'
      BY DEF Linked
    <2>1. \A n \in Id : Arriving(n) => Arriving(n)' \/ (req[q].step = "issue" /\ req[q].next = n)
      BY <1>1 DEF Arriving
    <2>2. ASSUME NEW i \in Id, NEW rec \in Record, Leads(i, rec),
                 rec.next = req[q].next /\ req[q].step = "issue" => i = req[q].id
          PROVE  Leads(i, rec)'
      <3>1. rec.next # 0 => rec.next \in Id
        BY DEF Record
      <3>. QED
        BY <2>1, <2>2, <3>1 DEF Leads
    <2>3. ASSUME NEW i \in Id, store[i] \in Record PROVE Leads(i, store[i])'
      <3>1. store[i].next = req[q].next /\ req[q].step = "issue" => i = req[q].id
        BY DEF EngineInv, Reserved, Rotating
      <3>. QED
        BY <2>2, <2>3, <3>1 DEF EngineInv, Linked, Leads, Arriving
    <2>4. ASSUME NEW i \in Id, store[i] = Gone PROVE Leads(i, store[i])'
      BY <2>4, NoRecord DEF Leads
    <2>5. ASSUME NEW p \in Req \ {q}, req[p].step \in Carrying PROVE Leads(req[p].id, req[p].rec)'
      <3>1. req[p].rec \in Record /\ req[p].id \in Id
        BY <1>t, <2>5 DEF EngineInv, EngineTyped, Superseding, Request
      <3>2. req[p].rec.next = req[q].next /\ req[q].step = "issue" => req[p].id = req[q].id
        BY <2>5 DEF EngineInv, Reserved, Rotating
      <3>3. Leads(req[p].id, req[p].rec)
        BY <2>5 DEF EngineInv, Linked
      <3>4. ASSUME NEW i \in Id, NEW rec \in Record, i = req[p].id, rec = req[p].rec
            PROVE  Leads(i, rec)'
        BY <2>2, <3>2, <3>3, <3>4
      <3>. QED
        BY <1>1, <3>1, <3>4 DEF Leads, Arriving
    <2>6. \A t \in given' : store[t.id] # Gone
      BY <1>3 DEF EngineInv, Linked
    <2>. QED
      BY <1>t, <1>1, <1>2, <2>3, <2>4, <2>5, <2>6 DEF Linked, Leads, Arriving
  <1>. QED
    BY <1>4, <1>5, <1>6, <1>7, <1>8 DEF EngineInv

\* A request that is served has in hand the record that is stored, seen now.
LEMMA StepServed ==
    ASSUME EngineInv, NEW q \in Req, NEW r \in Request, Becomes(q, r),
           req[q].step \in Asking, r.step \in Continuing,
           r.id \in Id, store[r.id] \in Record,
           r.rec = Touched(store[r.id], req[q].at),
           UNCHANGED <<now, store, minted, faults, born, destroyed, cut>>,
           given \subseteq given',
           \A t \in given' \ given : \E i \in Id : store[i] \in Record /\ t = Token(i, store[i]),
           used' \in [Id -> Time], \A i \in Id : used[i] <= used'[i], req[q].at <= used'[r.id]
    PROVE  EngineInv'
  <1>1. /\ req' \in [Req -> Request] /\ req'[q] = r /\ \A p \in Req \ {q} : req'[p] = req[p]
    BY Turns DEF EngineInv, EngineTyped, TypeOK
  <1>2. /\ r.step \notin Rotating /\ r.step \in Carrying /\ req[q].step \notin Working
        /\ req[q].step # "issue"
    BY DEF Carrying, Rotating, Working, Asking, Continuing
  <1>3. \A t \in given' \ given : t.id \in Id /\ store[t.id] # Gone /\ t \in [id : Id, expires : Far]
    BY NoRecord DEF Token, Record
  <1>t. /\ store \in [Id -> Record \cup {Gone}] /\ req \in [Req -> Request]
        /\ \A t \in given : t \in [id : Id, expires : Far]
        /\ used \in [Id -> Time] /\ born \in [Id -> Time] /\ req[q].at \in Time
    BY DEF EngineInv, EngineTyped, TypeOK, Request
  <1>r. /\ r.rec \in Record /\ r.rec.next = store[r.id].next /\ r.rec.until = store[r.id].until
        /\ r.rec.expires = store[r.id].expires /\ r.rec.seen = req[q].at
    BY <1>t DEF Record, Touched
  <1>4. EngineTyped'
    <2>1. TypeOK'
      BY <1>1, <1>3 DEF EngineInv, EngineTyped, TypeOK
    <2>2. Superseding'
      BY <1>1, <1>2, <1>r DEF EngineInv, EngineTyped, Superseding
    <2>. QED
      BY <2>1, <2>2 DEF EngineTyped
  <1>n. store[r.id] # Gone
    BY NoRecord
  <1>5. Minted'
    <2>1. \A t \in given' : t.id <= minted
      BY <1>3 DEF EngineInv, Minted
    <2>2. ASSUME NEW p \in Req, req'[p].step \in Rotating
          PROVE  /\ p # q /\ req[p].step \in Rotating /\ req'[p] = req[p]
                 /\ \A t \in given' : t.id # req'[p].next
      BY <1>1, <1>2, <1>3, <2>2 DEF EngineInv, Minted
    <2>3. \A p \in Req : req'[p].step \in Working => req'[p].id <= minted
      BY <1>1, <1>n DEF EngineInv, Minted
    <2>4. ASSUME NEW p \in Req, req'[p].step \in Rotating, NEW o \in Req
          PROVE  /\ req'[o].step \in Working => req'[o].id # req'[p].next
                 /\ req'[o].step \in Rotating /\ o # p => req'[o].next # req'[p].next
      BY <1>1, <1>2, <1>n, <2>2, <2>4 DEF EngineInv, Minted
    <2>5. ASSUME NEW p \in Req, req'[p].step \in Rotating
          PROVE  req'[p].next <= minted /\ store[req'[p].next] = Gone
      BY <2>2, <2>5 DEF EngineInv, Minted
    <2>. QED
      BY <2>1, <2>2, <2>3, <2>4, <2>5 DEF EngineInv, Minted
  <1>6. Dates'
    <2>1. ASSUME NEW j \in Id, NEW x \in Record, Dated(j, x) PROVE Dated(j, x)'
      <3>1. used[j] \in Nat /\ used'[j] \in Nat /\ x.seen \in Nat
        BY <1>t, Sizes DEF Record
      <3>. QED
        BY <2>1, <3>1 DEF Dated
    <2>2. \A p \in Req \ {q} : req[p].step \in Carrying => req[p].id \in Id /\ req[p].rec \in Record
      BY <1>t DEF EngineInv, EngineTyped, Superseding, Request
    <2>3. \A j \in Id : store[j] # Gone => store[j] \in Record
      BY <1>t
    <2>4. Dated(r.id, r.rec)'
      <3>1. store[r.id].expires = born[r.id] + AbsoluteTtl
        BY <1>n DEF EngineInv, Dates, Dated
      <3>. QED
        BY <1>r, <3>1 DEF Dated
    <2>5. \A j \in Id : store[j] # Gone => Dated(j, store[j])'
      BY <2>1, <2>3 DEF EngineInv, Dates
    <2>6. ASSUME NEW p \in Req, req'[p].step \in Carrying PROVE Dated(req[p].id, req[p].rec)'
      <3>1. CASE p = q
        BY <1>1, <2>4, <3>1 DEF Dated
      <3>2. CASE p # q
        <4>1. req'[p] = req[p] /\ Dated(req[p].id, req[p].rec)
          BY <1>1, <2>6, <3>2 DEF EngineInv, Dates
        <4>. QED
          BY <2>1, <2>2, <2>6, <3>2, <4>1 DEF Dated
      <3>. QED
        BY <3>1, <3>2
    <2>7. \A p \in Req : req'[p].step \in Rotating => req'[p].expires = born[req'[p].id] + AbsoluteTtl
      BY <1>1, <1>2 DEF EngineInv, Dates
    <2>. QED
      BY <2>5, <2>6, <2>7 DEF Dates, Dated
  <1>7. Reserved'
    <2>1. r.rec.next <= minted
      BY <1>r DEF EngineInv, Reserved
    <2>2. ASSUME NEW p \in Req, req[p].step \in Rotating, r.rec.next = req[p].next
          PROVE  req[p].step = "issue" /\ r.id = req[p].id
      BY <1>r, <2>2 DEF EngineInv, Reserved
    <2>. QED
      BY <1>1, <1>2, <2>1, <2>2 DEF EngineInv, Reserved
  <1>8. Linked'
    <2> SUFFICES ASSUME destroyed = {} PROVE Linked'
      BY DEF Linked
    <2>1. ASSUME NEW n, Arriving(n) PROVE Arriving(n)'
      BY <1>1, <1>2, <2>1 DEF Arriving
    <2>2. ASSUME NEW j, NEW x, Leads(j, x) PROVE Leads(j, x)'
      BY <2>1, <2>2 DEF Leads
    <2>3. \A t \in given' : store[t.id] # Gone
      BY <1>3 DEF EngineInv, Linked
    <2>4. \A j \in Id : Leads(j, store[j])'
      BY <2>2 DEF EngineInv, Linked, Leads, Arriving
    <2>5. ASSUME NEW p \in Req, req'[p].step \in Carrying PROVE Leads(req[p].id, req[p].rec)'
      <3>1. CASE p = q
        BY <1>1, <1>r, <2>4, <3>1 DEF Leads, Arriving
      <3>2. CASE p # q
        <4>1. req'[p] = req[p] /\ Leads(req[p].id, req[p].rec)
          BY <1>1, <2>5, <3>2 DEF EngineInv, Linked
        <4>. QED
          BY <2>2, <4>1 DEF Leads, Arriving
      <3>. QED
        BY <3>1, <3>2
    <2>. QED
      BY <2>3, <2>4, <2>5 DEF Linked
  <1>. QED
    BY <1>4, <1>5, <1>6, <1>7, <1>8 DEF EngineInv

\* A renewal writes the record a request has in hand, or fails to.
LEMMA StepTouched ==
    ASSUME EngineInv, NEW q \in Req, req[q].step = "touch", NEW r \in Request, Becomes(q, r),
           \/ r.step = "idle"
           \/ r.step = "reread" /\ r.id = req[q].id /\ r.rec = req[q].rec,
           store' = store \/ Put(req[q].id, req[q].rec), faults' \in 0..MaxFaults,
           UNCHANGED <<now, given, minted, born, used, destroyed, cut>>
    PROVE  EngineInv'
  <1>1. /\ req' \in [Req -> Request] /\ req'[q] = r /\ \A p \in Req \ {q} : req'[p] = req[p]
    BY Turns DEF EngineInv, EngineTyped, TypeOK
  <1>2. /\ r.step \notin Rotating
        /\ r.step \in Carrying \cup Working => r.id = req[q].id /\ r.rec = req[q].rec
        /\ req[q].step \in Carrying /\ req[q].step \in Working /\ req[q].step # "issue"
    BY DEF Carrying, Rotating, Working
  <1>3. /\ req[q].id \in Id /\ req[q].rec \in Record
        /\ req[q].rec.until # Never => req[q].rec.next # 0
        /\ req[q].id <= minted /\ req[q].rec.next <= minted /\ Dated(req[q].id, req[q].rec)
        /\ destroyed = {} => Leads(req[q].id, req[q].rec)
    BY <1>2 DEF EngineInv, EngineTyped, TypeOK, Request, Superseding, Minted, Dates, Reserved, Linked
  <1>4. /\ store' \in [Id -> Record \cup {Gone}]
        /\ \A i \in Id : store'[i] = store[i] \/ (i = req[q].id /\ store'[i] = req[q].rec)
    <2>1. store \in [Id -> Record \cup {Gone}]
      BY DEF EngineInv, EngineTyped, TypeOK
    <2>. QED
      BY <1>3, <2>1, Puts
  <1>5. \A i \in Id : store[i] # Gone => store'[i] # Gone
    BY <1>3, <1>4, NoRecord
  <1>6. EngineTyped'
    <2>1. TypeOK'
      BY <1>1, <1>4 DEF EngineInv, EngineTyped, TypeOK
    <2>2. Superseding'
      BY <1>1, <1>2, <1>3, <1>4 DEF EngineInv, EngineTyped, Superseding
    <2>. QED
      BY <2>1, <2>2 DEF EngineTyped
  <1>7. Minted'
    <2>1. ASSUME NEW p \in Req, req'[p].step \in Rotating
          PROVE  /\ p # q /\ req[p].step \in Rotating /\ req'[p] = req[p]
                 /\ req[p].next \in Id /\ req[p].next # req[q].id
      BY <1>1, <1>2, <2>1 DEF EngineInv, EngineTyped, Superseding, Minted
    <2>2. ASSUME NEW p \in Req, req'[p].step \in Rotating
          PROVE  req'[p].next <= minted /\ store'[req'[p].next] = Gone
      BY <1>4, <2>1, <2>2 DEF EngineInv, Minted
    <2>3. ASSUME NEW p \in Req, req'[p].step \in Rotating, NEW o \in Req
          PROVE  /\ req'[o].step \in Working => req'[o].id # req'[p].next
                 /\ req'[o].step \in Rotating /\ o # p => req'[o].next # req'[p].next
      BY <1>1, <1>2, <2>1, <2>3 DEF EngineInv, Minted
    <2>4. ASSUME NEW p \in Req, req'[p].step \in Rotating PROVE \A t \in given : t.id # req'[p].next
      BY <2>1, <2>4 DEF EngineInv, Minted
    <2>5. \A p \in Req : req'[p].step \in Working => req'[p].id <= minted
      BY <1>1, <1>2, <1>3 DEF EngineInv, Minted
    <2>6. \A i \in Id : store'[i] # Gone => i <= minted
      BY <1>3, <1>4 DEF EngineInv, Minted
    <2>. QED
      BY <2>2, <2>3, <2>4, <2>5, <2>6 DEF EngineInv, Minted
  <1>8. Dates'
    <2>1. \A i \in Id : store'[i] # Gone => Dated(i, store'[i])
      BY <1>3, <1>4 DEF EngineInv, Dates
    <2>2. \A p \in Req : /\ req'[p].step \in Carrying => Dated(req'[p].id, req'[p].rec)
                         /\ req'[p].step \in Rotating
                                => req'[p].expires = born[req'[p].id] + AbsoluteTtl
      BY <1>1, <1>2, <1>3 DEF EngineInv, Dates
    <2>. QED
      BY <2>1, <2>2 DEF Dates, Dated
  <1>9. Reserved'
    <2>1. \A p \in Req : req'[p].step \in Rotating => p # q /\ req'[p] = req[p]
      BY <1>1, <1>2
    <2>2. \A i \in Id : store'[i].next <= minted
      BY <1>3, <1>4 DEF EngineInv, Reserved
    <2>3. \A p \in Req : req'[p].step \in Carrying => req'[p].rec.next <= minted
      BY <1>1, <1>2, <1>3 DEF EngineInv, Reserved
    <2>4. ASSUME NEW p \in Req, req'[p].step \in Rotating, NEW i \in Id, store'[i].next = req'[p].next
          PROVE  req'[p].step = "issue" /\ i = req'[p].id
      BY <1>2, <1>4, <2>1, <2>4 DEF EngineInv, Reserved
    <2>5. ASSUME NEW p \in Req, req'[p].step \in Rotating, NEW o \in Req,
                 req'[o].step \in Carrying, req'[o].rec.next = req'[p].next
          PROVE  req'[p].step = "issue" /\ req'[o].id = req'[p].id
      BY <1>1, <1>2, <2>1, <2>5 DEF EngineInv, Reserved
    <2>. QED
      BY <2>2, <2>3, <2>4, <2>5 DEF Reserved
  <1>10. Linked'
    <2> SUFFICES ASSUME destroyed = {} PROVE Linked'
      BY DEF Linked
    <2>1. ASSUME NEW n, Arriving(n) PROVE Arriving(n)'
      BY <1>1, <1>2, <2>1 DEF Arriving
    <2>2. ASSUME NEW j, NEW x \in Record \cup {Gone}, Leads(j, x) PROVE Leads(j, x)'
      <3>1. x.next # 0 => x.next \in Id
        BY NoRecord DEF Record
      <3>. QED
        BY <1>5, <2>1, <2>2, <3>1 DEF Leads
    <2>t. given \subseteq [id : Id, expires : Far] /\ store \in [Id -> Record \cup {Gone}]
      BY DEF EngineInv, EngineTyped, TypeOK
    <2>3. \A t \in given : store'[t.id] # Gone
      BY <1>5, <2>t DEF EngineInv, Linked
    <2>4. ASSUME NEW j \in Id, NEW x, x = store'[j] PROVE Leads(j, x)'
      <3>1. x \in Record \cup {Gone} /\ Leads(j, x)
        BY <1>3, <1>4, <2>t, <2>4 DEF EngineInv, Linked
      <3>. QED
        BY <2>2, <3>1
    <2>5. ASSUME NEW p \in Req, req'[p].step \in Carrying, NEW j, NEW x, j = req'[p].id, x = req'[p].rec
          PROVE  Leads(j, x)'
      <3>1. x \in Record /\ Leads(j, x)
        BY <1>1, <1>2, <1>3, <2>5 DEF EngineInv, Linked, EngineTyped, Superseding
      <3>. QED
        BY <2>2, <3>1
    <2>. QED
      BY <2>3, <2>4, <2>5 DEF Linked, Leads, Arriving
  <1>. QED
    BY <1>6, <1>7, <1>8, <1>9, <1>10 DEF EngineInv

\* A rotation mints an id nobody has for the successor.
LEMMA StepReread == ASSUME EngineInv, NEW q \in Req, Reread(q) PROVE EngineInv'
  <1> DEFINE r == [req[q] EXCEPT !.step = IF store[req[q].id] = Gone THEN "issue" ELSE "mark",
                                 !.at = now, !.next = minted + 1, !.expires = req[q].rec.expires,
                                 !.rec = store[req[q].id]]
  <1>0. /\ req[q].step = "reread" /\ minted < MaxId /\ minted' = minted + 1 /\ Becomes(q, r)
        /\ UNCHANGED <<now, store, given, faults, born, used, destroyed, cut>>
    BY DEF Reread, history
  <1>t. /\ store \in [Id -> Record \cup {Gone}] /\ req \in [Req -> Request] /\ minted \in Nat
        /\ minted + 1 \in Id /\ now \in Time /\ minted' \in 0..MaxId
        /\ given \subseteq [id : Id, expires : Far]
    <2>1. minted \in 0..MaxId /\ MaxId \in Nat
      BY Sizes DEF EngineInv, EngineTyped, TypeOK
    <2>2. minted \in Nat /\ minted + 1 \in Id /\ minted' \in 0..MaxId
      BY ONLY <1>0, <2>1 DEF Id
    <2>. QED
      BY <2>2 DEF EngineInv, EngineTyped, TypeOK
  <1>3. /\ req[q].id \in Id /\ req[q].rec \in Record
        /\ req[q].id <= minted /\ Dated(req[q].id, req[q].rec)
        /\ req[q].step \notin Rotating
    BY <1>0, <1>t DEF EngineInv, EngineTyped, Request, Superseding, Minted, Dates, Carrying, Working,
       Rotating
  <1>4. /\ r \in Request /\ r.step \in Rotating
        /\ r.id = req[q].id /\ r.next = minted + 1
        /\ r.rec = store[req[q].id] /\ r.expires = req[q].rec.expires
        /\ r.step \in Carrying <=> store[req[q].id] # Gone
        /\ r.step = "issue" <=> store[req[q].id] = Gone
    <2>1. store[req[q].id] \in Record \cup {Gone} /\ req[q].rec.expires \in Far /\ req[q] \in Request
      BY <1>3, <1>t DEF Record
    <2>. QED
      BY <1>t, <2>1 DEF Request, Steps, Rotating, Carrying
  <1>. HIDE DEF r
  <1>1. /\ req' \in [Req -> Request] /\ req'[q] = r /\ \A p \in Req \ {q} : req'[p] = req[p]
    BY <1>0, <1>4, <1>t, Turns
  <1>5. \A i \in Id : store[i] # Gone => store[i] \in Record
    BY <1>t
  <1>6. EngineTyped'
    <2>1. TypeOK'
      BY <1>0, <1>1, <1>t DEF EngineInv, EngineTyped, TypeOK
    <2>2. Superseding'
      BY <1>0, <1>1, <1>3, <1>4, <1>5, <1>t DEF EngineInv, EngineTyped, Superseding
    <2>. QED
      BY <2>1, <2>2 DEF EngineTyped
  <1>m. /\ \A t \in given : t.id \in Nat /\ t.id <= minted
        /\ \A i \in Id : i \in Nat /\ (store[i] # Gone => i <= minted)
        /\ \A p \in Req : req[p].step \in Working => req[p].id \in Nat /\ req[p].id <= minted
        /\ \A p \in Req : req[p].step \in Rotating => req[p].next \in Nat /\ req[p].next <= minted
    BY <1>t, Sizes DEF EngineInv, EngineTyped, Superseding, Minted, Request
  <1>7. Minted'
    <2>1. ASSUME NEW p \in Req, req'[p].step \in Rotating
          PROVE  /\ req'[p].next \in Nat /\ req'[p].next <= minted'
                 /\ p # q => req[p].step \in Rotating /\ req'[p] = req[p] /\ req[p].next <= minted
                 /\ store[req'[p].next] = Gone
                 /\ \A t \in given : t.id # req'[p].next
      <3>1. CASE p = q
        BY <1>0, <1>1, <1>4, <1>m, <1>t, <3>1
      <3>2. CASE p # q
        BY <1>0, <1>1, <1>m, <1>t, <2>1, <3>2 DEF EngineInv, Minted
      <3>. QED
        BY <3>1, <3>2
    <2>2. ASSUME NEW p \in Req, req'[p].step \in Working
          PROVE  req'[p].id \in Nat /\ req'[p].id <= minted
      BY <1>1, <1>3, <1>4, <1>m, <2>2, Sizes
    <2>3. ASSUME NEW p \in Req, req'[p].step \in Rotating, NEW o \in Req
          PROVE  /\ req'[o].step \in Working => req'[o].id # req'[p].next
                 /\ req'[o].step \in Rotating /\ o # p => req'[o].next # req'[p].next
      <3>1. CASE p = q
        BY <1>1, <1>4, <1>t, <2>1, <2>2, <2>3, <3>1
      <3>2. CASE o = q /\ p # q
        <4>1. req'[o].next = minted + 1 /\ req'[o].id = req[q].id /\ req'[p].next <= minted
          BY <1>1, <1>4, <2>1, <2>3, <3>2
        <4>2. req[q].id # req'[p].next
          <5>1. req[q].step \in Working
            BY <1>0 DEF Working
          <5>. QED
            BY <2>1, <2>3, <3>2, <5>1 DEF EngineInv, Minted
        <4>. QED
          BY <1>t, <2>1, <2>3, <4>1, <4>2
      <3>3. CASE o # q /\ p # q
        BY <1>1, <2>1, <2>3, <3>3 DEF EngineInv, Minted
      <3>. QED
        BY <3>1, <3>2, <3>3
    <2>4. /\ \A t \in given : t.id <= minted' 
          /\ \A i \in Id : store[i] # Gone => i <= minted'
          /\ \A p \in Req : req'[p].step \in Working => req'[p].id <= minted'
      BY <1>0, <1>m, <1>t, <2>2
    <2>. QED
      BY <1>0, <2>1, <2>3, <2>4 DEF Minted
  <1>8. Dates'
    <2>1. store[req[q].id] # Gone => Dated(req[q].id, store[req[q].id])
      BY <1>3 DEF EngineInv, Dates
    <2>2. \A p \in Req : /\ req'[p].step \in Carrying => Dated(req'[p].id, req'[p].rec)
                         /\ req'[p].step \in Rotating
                                => req'[p].expires = born[req'[p].id] + AbsoluteTtl
      BY <1>1, <1>3, <1>4, <2>1 DEF EngineInv, Dates, Dated
    <2>. QED
      BY <1>0, <2>2 DEF EngineInv, Dates, Dated
  <1>r. \A x \in Record \cup {Gone} : x.next \in Nat
    BY Sizes, NoRecord DEF Record
  <1>n. \A i \in Id : store[i].next \in Nat /\ store[i].next <= minted
    BY <1>t, <1>r DEF EngineInv, Reserved
  <1>c. \A p \in Req : req[p].step \in Carrying => req[p].rec.next \in Nat /\ req[p].rec.next <= minted
    BY <1>r DEF EngineInv, EngineTyped, Superseding, Reserved
  <1>9. Reserved'
    <2>1. \A p \in Req : req'[p].step \in Carrying => req'[p].rec.next \in Nat /\ req'[p].rec.next <= minted
      BY <1>1, <1>3, <1>4, <1>n, <1>c
    <2>2. ASSUME NEW p \in Req, req'[p].step \in Rotating
          PROVE  /\ \A i \in Id : store[i].next = req'[p].next
                        => req'[p].step = "issue" /\ i = req'[p].id
                 /\ \A o \in Req : req'[o].step \in Carrying /\ req'[o].rec.next = req'[p].next
                        => req'[p].step = "issue" /\ req'[o].id = req'[p].id
      <3>1. CASE p = q
        BY <1>1, <1>4, <1>n, <1>t, <2>1, <3>1
      <3>2. CASE p # q
        BY <1>1, <1>3, <1>4, <2>2, <3>2 DEF EngineInv, Reserved
      <3>. QED
        BY <3>1, <3>2
    <2>3. /\ \A i \in Id : store[i].next <= minted'
          /\ \A p \in Req : req'[p].step \in Carrying => req'[p].rec.next <= minted'
      BY <1>0, <1>n, <1>t, <2>1
    <2>. QED
      BY <1>0, <2>2, <2>3 DEF Reserved
  <1>10. Linked'
    <2> SUFFICES ASSUME destroyed = {} PROVE Linked'
      BY <1>0 DEF Linked
    <2>1. ASSUME NEW n, Arriving(n) PROVE Arriving(n)'
      BY <1>1, <1>3, <2>1 DEF Arriving, Rotating
    <2>2. ASSUME NEW j, NEW x, Leads(j, x) PROVE Leads(j, x)'
      BY <1>0, <2>1, <2>2 DEF Leads
    <2>4. ASSUME NEW j \in Id, NEW x, x = store[j] PROVE Leads(j, x)'
      BY <2>2, <2>4 DEF EngineInv, Linked
    <2>5. ASSUME NEW p \in Req, req'[p].step \in Carrying, NEW j, NEW x, j = req'[p].id, x = req'[p].rec
          PROVE  Leads(j, x)'
      <3>1. CASE p = q
        BY <1>1, <1>3, <1>4, <2>4, <2>5, <3>1
      <3>2. CASE p # q
        BY <1>1, <2>2, <2>5, <3>2 DEF EngineInv, Linked
      <3>. QED
        BY <3>1, <3>2
    <2>. QED
      BY <1>0, <2>4, <2>5 DEF EngineInv, Linked, Leads, Arriving
  <1>. QED
    BY <1>6, <1>7, <1>8, <1>9, <1>10 DEF EngineInv

\* The predecessor's record leads to the successor, which is on its way.
LEMMA StepMarked ==
    ASSUME EngineInv, NEW q \in Req, req[q].step = "mark",
           NEW x, x = Superseded(req[q].rec, req[q].at + Overlap, req[q].next),
           Put(req[q].id, x), Becomes(q, Issuing(req[q])),
           UNCHANGED <<now, given, minted, faults, born, used, destroyed, cut>>
    PROVE  EngineInv'
  <1> DEFINE r == Issuing(req[q])
  <1>0. Becomes(q, r)
    OBVIOUS
  <1>t. /\ store \in [Id -> Record \cup {Gone}] /\ req \in [Req -> Request]
        /\ req[q] \in Request /\ req[q].id \in Id /\ req[q].at \in Time
        /\ given \subseteq [id : Id, expires : Far]
    BY DEF EngineInv, EngineTyped, TypeOK, Request
  <1>2. req[q].step \in Carrying /\ req[q].step \in Working /\ req[q].step \in Rotating
        /\ req[q].step # "issue"
    BY DEF Carrying, Rotating, Working
  <1>3. /\ req[q].rec \in Record /\ req[q].next \in Id
        /\ req[q].id <= minted /\ req[q].next <= minted /\ Dated(req[q].id, req[q].rec)
        /\ req[q].expires = born[req[q].id] + AbsoluteTtl
        /\ store[req[q].next] = Gone /\ req[q].id # req[q].next
    BY <1>2 DEF EngineInv, EngineTyped, Superseding, Minted, Dates
  <1>4. /\ r \in Request /\ r.step = "issue" /\ r.id = req[q].id /\ r.next = req[q].next
        /\ r.expires = req[q].expires
        /\ r.step \notin Carrying /\ r.step \in Rotating
    BY <1>t DEF Request, Steps, Carrying, Rotating, Issuing
  <1>x. /\ x \in Record /\ x.next = req[q].next /\ x.until # Never /\ Dated(req[q].id, x)
    <2>1. req[q].at + Overlap \in Far /\ Never \notin Far
      BY <1>t, Sizes
    <2>2. /\ x \in Record /\ x.next = req[q].next /\ x.until = req[q].at + Overlap
          /\ x.expires = req[q].rec.expires /\ x.seen = req[q].rec.seen
      BY <1>3, <2>1 DEF Record, Superseded
    <2>. QED
      BY <1>3, <2>1, <2>2 DEF Dated
  <1>s. /\ store' \in [Id -> Record \cup {Gone}] /\ store'[req[q].id] = x
        /\ \A i \in Id \ {req[q].id} : store'[i] = store[i]
    BY <1>t, <1>x, Puts
  <1>. HIDE DEF r
  <1>1. /\ req' \in [Req -> Request] /\ req'[q] = r /\ \A p \in Req \ {q} : req'[p] = req[p]
    BY <1>0, <1>4, <1>t, Turns
  <1>5. /\ UNCHANGED <<now, given, minted, faults, born, used, destroyed, cut>>
        /\ \A i \in Id : store[i] # Gone => store'[i] # Gone
    BY <1>s, <1>x, NoRecord
  <1>6. EngineTyped'
    <2>1. TypeOK'
      BY <1>1, <1>5, <1>s DEF EngineInv, EngineTyped, TypeOK
    <2>2. x.next # 0
      BY <1>3, <1>x, Sizes
    <2>3. \A i \in Id : store'[i].until # Never => store'[i].next # 0
      BY <1>s, <2>2 DEF EngineInv, EngineTyped, Superseding
    <2>4. \A p \in Req :
             /\ req'[p].step \in Carrying => req'[p].rec \in Record /\ (req'[p].rec.until # Never => req'[p].rec.next # 0)
             /\ req'[p].step \in Rotating => req'[p].next \in Id
      BY <1>1, <1>3, <1>4 DEF EngineInv, EngineTyped, Superseding
    <2>. QED
      BY <2>1, <2>3, <2>4 DEF EngineTyped, Superseding
  <1>7. Minted'
    <2>1. ASSUME NEW p \in Req, req'[p].step \in Rotating
          PROVE  /\ req[p].step \in Rotating /\ req'[p].next = req[p].next
                 /\ req[p].next \in Id /\ req[p].next # req[q].id
                 /\ store[req[p].next] = Gone /\ req[p].next <= minted
                 /\ \A t \in given : t.id # req[p].next
      BY <1>1, <1>2, <1>4, <2>1 DEF EngineInv, EngineTyped, Superseding, Minted
    <2>2. ASSUME NEW p \in Req, req'[p].step \in Rotating PROVE store'[req'[p].next] = Gone
      BY <1>s, <2>1, <2>2
    <2>3. ASSUME NEW p \in Req, req'[p].step \in Working
          PROVE  req[p].step \in Working /\ req'[p].id = req[p].id
      BY <1>1, <1>2, <1>4, <2>3
    <2>4. ASSUME NEW p \in Req, req'[p].step \in Rotating, NEW o \in Req
          PROVE  /\ req'[o].step \in Working => req'[o].id # req'[p].next
                 /\ req'[o].step \in Rotating /\ o # p => req'[o].next # req'[p].next
      BY <2>1, <2>3, <2>4 DEF EngineInv, Minted
    <2>5. \A i \in Id : store'[i] # Gone => i <= minted
      BY <1>3, <1>s DEF EngineInv, Minted
    <2>. QED
      BY <1>5, <2>1, <2>2, <2>3, <2>4, <2>5 DEF EngineInv, Minted
  <1>8. Dates'
    <2>1. \A i \in Id : store'[i] # Gone => Dated(i, store'[i])
      BY <1>s, <1>x DEF EngineInv, Dates
    <2>2. \A p \in Req : /\ req'[p].step \in Carrying => Dated(req'[p].id, req'[p].rec)
                         /\ req'[p].step \in Rotating
                                => req'[p].expires = born[req'[p].id] + AbsoluteTtl
      BY <1>1, <1>3, <1>4 DEF EngineInv, Dates
    <2>. QED
      BY <1>5, <2>1, <2>2 DEF Dates, Dated
  <1>9. Reserved'
    <2>1. \A p \in Req : req'[p].step \in Rotating /\ p # q =>
             /\ req[p].step \in Rotating /\ req'[p] = req[p] /\ req[p].next # req[q].next
      BY <1>1, <1>2 DEF EngineInv, Minted
    <2>2. \A p \in Req : req'[p].step \in Carrying => p # q /\ req'[p] = req[p]
      BY <1>1, <1>4
    <2>3. ASSUME NEW p \in Req, req'[p].step \in Rotating
          PROVE  /\ \A i \in Id : store'[i].next = req'[p].next
                        => req'[p].step = "issue" /\ i = req'[p].id
                 /\ \A o \in Req : req'[o].step \in Carrying /\ req'[o].rec.next = req'[p].next
                        => req'[p].step = "issue" /\ req'[o].id = req'[p].id
      <3>1. CASE p = q
        <4>1. /\ \A i \in Id : store[i].next # req[q].next
              /\ \A o \in Req : req[o].step \in Carrying => req[o].rec.next # req[q].next
          BY <1>2 DEF EngineInv, Reserved
        <4>. QED
          BY <1>1, <1>4, <1>s, <2>2, <3>1, <4>1
      <3>2. CASE p # q
        <4>1. /\ req'[p] = req[p] /\ req[p].step \in Rotating /\ x.next # req[p].next
          BY <1>x, <2>1, <2>3, <3>2
        <4>. QED
          BY <1>s, <2>2, <4>1 DEF EngineInv, Reserved
      <3>. QED
        BY <3>1, <3>2
    <2>4. /\ \A i \in Id : store'[i].next <= minted
          /\ \A p \in Req : req'[p].step \in Carrying => req'[p].rec.next <= minted
      BY <1>3, <1>s, <1>x, <2>2 DEF EngineInv, Reserved
    <2>. QED
      BY <1>5, <2>3, <2>4 DEF Reserved
  <1>10. Linked'
    <2> SUFFICES ASSUME destroyed = {} PROVE Linked'
      BY <1>5 DEF Linked
    <2>1. ASSUME NEW n, Arriving(n) PROVE Arriving(n)'
      BY <1>1, <1>2, <2>1 DEF Arriving
    <2>2. ASSUME NEW j, NEW y \in Record \cup {Gone}, Leads(j, y) PROVE Leads(j, y)'
      <3>1. y.next # 0 => y.next \in Id
        BY NoRecord DEF Record
      <3>. QED
        BY <1>5, <2>1, <2>2, <3>1 DEF Leads
    <2>3. \A t \in given : store'[t.id] # Gone
      BY <1>5, <1>t DEF EngineInv, Linked
    <2>4. ASSUME NEW j \in Id, NEW y, y = store'[j] PROVE Leads(j, y)'
      <3>1. CASE j = req[q].id
        <4>1. y.next = req[q].next
          BY <1>s, <1>x, <2>4, <3>1
        <4>2. req'[q].step = "issue" /\ req'[q].next = y.next
          BY <1>1, <1>4, <4>1
        <4>. QED
          BY <4>2 DEF Leads, Arriving
      <3>2. CASE j # req[q].id
        <4>1. y = store[j] /\ y \in Record \cup {Gone} /\ Leads(j, y)
          BY <1>s, <1>t, <2>4, <3>2 DEF EngineInv, Linked
        <4>. QED
          BY <2>2, <4>1
      <3>. QED
        BY <3>1, <3>2
    <2>5. ASSUME NEW p \in Req, req'[p].step \in Carrying, NEW j, NEW y, j = req'[p].id, y = req'[p].rec
          PROVE  Leads(j, y)'
      <3>1. y \in Record /\ Leads(j, y)
        BY <1>1, <1>4, <2>5 DEF EngineInv, Linked, EngineTyped, Superseding
      <3>. QED
        BY <2>2, <3>1
    <2>. QED
      BY <1>5, <2>3, <2>4, <2>5 DEF Linked, Leads, Arriving
  <1>. QED
    BY <1>6, <1>7, <1>8, <1>9, <1>10 DEF EngineInv

\* The successor is stored under the id that waited for it, with the predecessor's lifetime.
LEMMA StepIssued ==
    ASSUME EngineInv, NEW q \in Req, req[q].step = "issue",
           NEW x, x = [seen |-> req[q].at, expires |-> req[q].expires, until |-> Never, next |-> 0],
           Put(req[q].next, x), given' = given \cup {Token(req[q].next, x)},
           born' = [born EXCEPT ![req[q].next] = born[req[q].id]],
           used' = [used EXCEPT ![req[q].next] = req[q].at], Becomes(q, Resting),
           UNCHANGED <<now, minted, faults, destroyed, cut>>
    PROVE  EngineInv'
  <1>t. /\ store \in [Id -> Record \cup {Gone}] /\ req \in [Req -> Request]
        /\ req[q] \in Request /\ req[q].id \in Id /\ req[q].at \in Time
        /\ given \subseteq [id : Id, expires : Far]
        /\ born \in [Id -> Time] /\ used \in [Id -> Time]
    BY DEF EngineInv, EngineTyped, TypeOK, Request
  <1>2. req[q].step \in Rotating /\ req[q].step \in Working
    BY DEF Rotating, Working
  <1>3. /\ req[q].next \in Id /\ req[q].next <= minted
        /\ req[q].expires = born[req[q].id] + AbsoluteTtl
        /\ store[req[q].next] = Gone /\ req[q].id # req[q].next
    BY <1>2 DEF EngineInv, EngineTyped, Superseding, Minted, Dates
  <1>x. /\ x \in Record /\ x.next = 0 /\ x.until = Never /\ x.seen = req[q].at
        /\ x.expires = req[q].expires
    BY <1>t, FreshRecord, Sizes DEF Request
  <1>s. /\ store' \in [Id -> Record \cup {Gone}] /\ store'[req[q].next] = x
        /\ \A i \in Id \ {req[q].next} : store'[i] = store[i]
    BY <1>t, <1>3, <1>x, Puts
  <1>1. /\ req' \in [Req -> Request] /\ req'[q] = Resting /\ \A p \in Req \ {q} : req'[p] = req[p]
    BY <1>t, AtRest, Turns
  <1>4. Resting.step \notin Carrying \cup Rotating \cup Working /\ Resting.step # "issue"
    BY AtRest DEF Carrying, Rotating, Working
  <1>g. \A t \in given' : t \in given \/ (t.id = req[q].next /\ t \in [id : Id, expires : Far])
    BY <1>3, <1>x DEF Token, Record
  <1>b. /\ born' \in [Id -> Time] /\ used' \in [Id -> Time]
        /\ born'[req[q].next] = born[req[q].id] /\ used'[req[q].next] = req[q].at
        /\ \A i \in Id \ {req[q].next} : born'[i] = born[i] /\ used'[i] = used[i]
    BY <1>3, <1>t
  <1>5. /\ UNCHANGED <<now, minted, faults, destroyed, cut>>
        /\ \A i \in Id : store[i] # Gone => store'[i] # Gone
        /\ store'[req[q].next] # Gone
    BY <1>s, <1>x, NoRecord
  <1>6. EngineTyped'
    <2>1. TypeOK'
      BY <1>1, <1>5, <1>s, <1>g, <1>b DEF EngineInv, EngineTyped, TypeOK
    <2>2. Superseding'
      BY <1>1, <1>4, <1>s, <1>x DEF EngineInv, EngineTyped, Superseding
    <2>. QED
      BY <2>1, <2>2 DEF EngineTyped
  <1>o. \A p \in Req : req'[p].step \in Carrying \cup Rotating \cup Working => p # q /\ req'[p] = req[p]
    BY <1>1, <1>4
  <1>7. Minted'
    <2>1. ASSUME NEW p \in Req, req'[p].step \in Rotating
          PROVE  /\ p # q /\ req'[p] = req[p] /\ req[p].next \in Id /\ req[p].next # req[q].next
                 /\ store[req[p].next] = Gone /\ req[p].next <= minted
                 /\ \A t \in given : t.id # req[p].next
      BY <1>2, <1>o, <2>1 DEF EngineInv, EngineTyped, Superseding, Minted
    <2>2. ASSUME NEW p \in Req, req'[p].step \in Rotating
          PROVE  store'[req'[p].next] = Gone /\ \A t \in given' : t.id # req'[p].next
      BY <1>s, <1>g, <2>1, <2>2
    <2>4. ASSUME NEW p \in Req, req'[p].step \in Rotating, NEW o \in Req
          PROVE  /\ req'[o].step \in Working => req'[o].id # req'[p].next
                 /\ req'[o].step \in Rotating /\ o # p => req'[o].next # req'[p].next
      BY <1>o, <2>1, <2>4 DEF EngineInv, Minted
    <2>5. /\ \A i \in Id : store'[i] # Gone => i <= minted
          /\ \A t \in given' : t.id <= minted
          /\ \A p \in Req : req'[p].step \in Working => req'[p].id <= minted
      BY <1>3, <1>s, <1>g, <1>o DEF EngineInv, Minted
    <2>. QED
      BY <1>5, <2>1, <2>2, <2>4, <2>5 DEF Minted
  <1>8. Dates'
    <2>1. ASSUME NEW i \in Id, i # req[q].next, NEW y, Dated(i, y) PROVE Dated(i, y)'
      BY <1>b, <2>1 DEF Dated
    <2>2. ASSUME NEW i \in Id, NEW y, y = store'[i], y # Gone PROVE Dated(i, y)'
      <3>1. CASE i = req[q].next
        <4>1. y.expires = born'[i] + AbsoluteTtl /\ y.seen = used'[i] /\ used'[i] \in Nat
          BY <1>3, <1>b, <1>s, <1>t, <1>x, <2>2, <3>1, Sizes
        <4>. QED
          BY <4>1 DEF Dated
      <3>2. CASE i # req[q].next
        BY <1>s, <2>1, <2>2, <3>2 DEF EngineInv, Dates
      <3>. QED
        BY <3>1, <3>2
    <2>3. ASSUME NEW p \in Req, req'[p].step \in Carrying \cup Rotating
          PROVE  p # q /\ req'[p] = req[p] /\ req[p].id \in Id /\ req[p].id # req[q].next
      <3>1. req[p].step \in Working
        BY <1>o, <2>3 DEF Carrying, Rotating, Working
      <3>. QED
        BY <1>2, <1>o, <1>t, <2>3, <3>1 DEF EngineInv, Minted, Request
    <2>4. ASSUME NEW p \in Req, req'[p].step \in Carrying, NEW i, NEW y, i = req'[p].id, y = req'[p].rec
          PROVE  Dated(i, y)'
      BY <2>1, <2>3, <2>4 DEF EngineInv, Dates
    <2>5. \A p \in Req : req'[p].step \in Rotating => req'[p].expires = born'[req'[p].id] + AbsoluteTtl
      BY <1>b, <2>3 DEF EngineInv, Dates
    <2>. QED
      BY <2>2, <2>4, <2>5 DEF Dates, Dated
  <1>9. Reserved'
    <2>1. ASSUME NEW p \in Req, req'[p].step \in Rotating
          PROVE  /\ req'[p] = req[p] /\ req[p].step \in Rotating /\ req[p].next # 0
      BY <1>o, <2>1, Sizes DEF EngineInv, EngineTyped, Superseding
    <2>2. /\ \A i \in Id : store'[i].next <= minted
          /\ \A p \in Req : req'[p].step \in Carrying => req'[p].rec.next <= minted
      <3>1. 0 <= minted
        BY DEF EngineInv, EngineTyped, TypeOK
      <3>. QED
        BY <1>o, <1>s, <1>x, <3>1 DEF EngineInv, Reserved
    <2>3. ASSUME NEW p \in Req, req'[p].step \in Rotating
          PROVE  /\ \A i \in Id : store'[i].next = req'[p].next
                        => req'[p].step = "issue" /\ i = req'[p].id
                 /\ \A o \in Req : req'[o].step \in Carrying /\ req'[o].rec.next = req'[p].next
                        => req'[p].step = "issue" /\ req'[o].id = req'[p].id
      BY <1>o, <1>s, <1>x, <2>1, <2>3 DEF EngineInv, Reserved
    <2>. QED
      BY <1>5, <2>2, <2>3 DEF Reserved
  <1>10. Linked'
    <2> SUFFICES ASSUME destroyed = {} PROVE Linked'
      BY <1>5 DEF Linked
    <2>1. ASSUME NEW n, Arriving(n) PROVE store'[n] # Gone \/ Arriving(n)'
      BY <1>1, <1>5, <2>1 DEF Arriving
    <2>2. ASSUME NEW j, NEW y \in Record \cup {Gone}, Leads(j, y) PROVE Leads(j, y)'
      <3>1. y.next # 0 => y.next \in Id
        BY NoRecord DEF Record
      <3>. QED
        BY <1>5, <2>1, <2>2, <3>1 DEF Leads
    <2>3. \A t \in given' : store'[t.id] # Gone
      BY <1>5, <1>g, <1>t DEF EngineInv, Linked
    <2>4. ASSUME NEW j \in Id, NEW y, y = store'[j] PROVE Leads(j, y)'
      <3>1. CASE j = req[q].next
        BY <1>s, <1>x, <2>4, <3>1 DEF Leads
      <3>2. CASE j # req[q].next
        <4>1. y = store[j] /\ y \in Record \cup {Gone} /\ Leads(j, y)
          BY <1>s, <1>t, <2>4, <3>2 DEF EngineInv, Linked
        <4>. QED
          BY <2>2, <4>1
      <3>. QED
        BY <3>1, <3>2
    <2>5. ASSUME NEW p \in Req, req'[p].step \in Carrying, NEW j, NEW y, j = req'[p].id, y = req'[p].rec
          PROVE  Leads(j, y)'
      <3>1. y \in Record /\ Leads(j, y)
        BY <1>o, <2>5 DEF EngineInv, Linked, EngineTyped, Superseding
      <3>. QED
        BY <2>2, <3>1
    <2>. QED
      BY <1>5, <2>3, <2>4, <2>5 DEF Linked, Leads, Arriving
  <1>. QED
    BY <1>6, <1>7, <1>8, <1>9, <1>10 DEF EngineInv

\* A sign-in opens a session under an id nobody has.
LEMMA StepSignIn == ASSUME EngineInv, SignIn PROVE EngineInv'
  <1> DEFINE n == minted + 1
             x == Fresh(now + AbsoluteTtl)
  <1>0. /\ minted < MaxId /\ minted' = n /\ Put(n, x) /\ given' = given \cup {Token(n, x)}
        /\ born' = [born EXCEPT ![n] = now] /\ used' = [used EXCEPT ![n] = now]
        /\ UNCHANGED <<now, req, faults, destroyed, cut>>
    BY DEF SignIn
  <1>t. /\ store \in [Id -> Record \cup {Gone}] /\ req \in [Req -> Request] /\ now \in Time
        /\ given \subseteq [id : Id, expires : Far]
        /\ born \in [Id -> Time] /\ used \in [Id -> Time]
    BY DEF EngineInv, EngineTyped, TypeOK
  <1>n. minted \in Nat /\ n \in Id /\ n \in Nat /\ minted < n /\ minted' \in 0..MaxId
    <2>1. minted \in 0..MaxId /\ MaxId \in Nat
      BY Sizes DEF EngineInv, EngineTyped, TypeOK
    <2>. QED
      BY ONLY <1>0, <2>1 DEF Id
  <1>x. /\ x \in Record /\ x.next = 0 /\ x.until = Never /\ x.seen = now
        /\ x.expires = now + AbsoluteTtl /\ x # Gone
    <2>1. now + AbsoluteTtl \in Far
      BY <1>t, Sizes
    <2>2. x \in Record
      BY <1>t, <2>1, FreshRecord DEF Fresh
    <2>. QED
      BY <2>2, NoRecord DEF Fresh
  <1>. HIDE DEF n, x
  <1>s. /\ store' \in [Id -> Record \cup {Gone}] /\ store'[n] = x
        /\ \A i \in Id \ {n} : store'[i] = store[i]
    BY <1>0, <1>n, <1>t, <1>x, Puts
  <1>g. \A t \in given' : t \in given \/ (t.id = n /\ t \in [id : Id, expires : Far])
    BY <1>0, <1>n, <1>x DEF Token, Record
  <1>b. /\ born' \in [Id -> Time] /\ used' \in [Id -> Time] /\ born'[n] = now /\ used'[n] = now
        /\ \A i \in Id \ {n} : born'[i] = born[i] /\ used'[i] = used[i]
    BY <1>0, <1>n, <1>t
  <1>c. ASSUME NEW k \in Id, k <= minted PROVE k \in Nat /\ k # n
    <2>1. k \in Nat
      BY Sizes
    <2>. QED
      BY ONLY <1>n, <1>c, <2>1
  <1>m. /\ \A t \in given : t.id \in Id /\ t.id \in Nat /\ t.id <= minted /\ t.id # n
        /\ \A i \in Id : i \in Nat /\ (store[i] # Gone => i <= minted /\ i # n)
        /\ \A p \in Req : req[p].step \in Working => req[p].id \in Nat /\ req[p].id <= minted /\ req[p].id # n
        /\ \A p \in Req : req[p].step \in Rotating => req[p].next \in Nat /\ req[p].next <= minted /\ req[p].next # n
    <2>1. \A t \in given : t.id \in Id /\ t.id <= minted
      BY <1>t DEF EngineInv, Minted
    <2>2. \A i \in Id : i \in Nat /\ (store[i] # Gone => i <= minted)
      BY Sizes DEF EngineInv, Minted
    <2>3. \A p \in Req : req[p].step \in Working => req[p].id \in Id /\ req[p].id <= minted
      BY <1>t DEF EngineInv, Minted, Request
    <2>4. \A p \in Req : req[p].step \in Rotating => req[p].next \in Id /\ req[p].next <= minted
      BY DEF EngineInv, EngineTyped, Superseding, Minted
    <2>. QED
      BY <1>c, <2>1, <2>2, <2>3, <2>4
  <1>o. \A p \in Req : req[p].step \in Carrying \cup Rotating
            => req[p].step \in Working /\ req[p].id \in Id
    BY <1>t DEF Carrying, Rotating, Working, Request
  <1>5. \A i \in Id : store[i] # Gone => store'[i] # Gone
    BY <1>s, <1>x
  <1>6. EngineTyped'
    <2>1. TypeOK'
      BY <1>0, <1>n, <1>s, <1>g, <1>b DEF EngineInv, EngineTyped, TypeOK
    <2>2. Superseding'
      BY <1>0, <1>s, <1>x DEF EngineInv, EngineTyped, Superseding
    <2>. QED
      BY <2>1, <2>2 DEF EngineTyped
  <1>7. Minted'
    <2>1. /\ \A t \in given' : t.id <= minted'
          /\ \A i \in Id : store'[i] # Gone => i <= minted'
          /\ \A p \in Req : req[p].step \in Working => req[p].id <= minted'
      BY <1>0, <1>g, <1>m, <1>n, <1>s
    <2>2. ASSUME NEW p \in Req, req[p].step \in Rotating
          PROVE  /\ req[p].next <= minted' /\ store'[req[p].next] = Gone
                 /\ \A t \in given' : t.id # req[p].next
      <3>1. req[p].next \in Id /\ store[req[p].next] = Gone /\ \A t \in given : t.id # req[p].next
        BY <2>2 DEF EngineInv, EngineTyped, Superseding, Minted
      <3>. QED
        BY <1>0, <1>g, <1>m, <1>n, <1>s, <2>2, <3>1
    <2>. QED
      BY <1>0, <2>1, <2>2 DEF EngineInv, Minted
  <1>8. Dates'
    <2>1. ASSUME NEW i \in Id, i # n, NEW y, Dated(i, y) PROVE Dated(i, y)'
      BY <1>b, <2>1 DEF Dated
    <2>2. ASSUME NEW i \in Id, NEW y, y = store'[i], y # Gone PROVE Dated(i, y)'
      <3>1. CASE i = n
        <4>1. y.expires = born'[i] + AbsoluteTtl /\ y.seen = used'[i] /\ used'[i] \in Nat
          BY <1>b, <1>s, <1>t, <1>x, <2>2, <3>1, Sizes
        <4>. QED
          BY <4>1 DEF Dated
      <3>2. CASE i # n
        BY <1>s, <2>1, <2>2, <3>2 DEF EngineInv, Dates
      <3>. QED
        BY <3>1, <3>2
    <2>4. ASSUME NEW p \in Req, req[p].step \in Carrying, NEW i, NEW y, i = req[p].id, y = req[p].rec
          PROVE  Dated(i, y)'
      BY <1>m, <1>o, <2>1, <2>4 DEF EngineInv, Dates
    <2>5. \A p \in Req : req[p].step \in Rotating => req[p].expires = born'[req[p].id] + AbsoluteTtl
      BY <1>b, <1>m, <1>o DEF EngineInv, Dates
    <2>. QED
      BY <1>0, <2>2, <2>4, <2>5 DEF Dates, Dated
  <1>r. \A y \in Record \cup {Gone} : y.next \in Nat
    BY Sizes, NoRecord DEF Record
  <1>9. Reserved'
    <2>1. \A i \in Id : store'[i].next <= minted'
      BY <1>0, <1>n, <1>r, <1>s, <1>t, <1>x DEF EngineInv, Reserved
    <2>2. \A p \in Req : req[p].step \in Carrying => req[p].rec.next <= minted'
      BY <1>0, <1>n, <1>r DEF EngineInv, EngineTyped, Superseding, Reserved
    <2>3. ASSUME NEW p \in Req, req[p].step \in Rotating, NEW i \in Id, store'[i].next = req[p].next
          PROVE  req[p].step = "issue" /\ i = req[p].id
      <3>1. req[p].next # 0
        BY <2>3, Sizes DEF EngineInv, EngineTyped, Superseding
      <3>. QED
        BY <1>s, <1>x, <2>3, <3>1 DEF EngineInv, Reserved
    <2>. QED
      BY <1>0, <2>1, <2>2, <2>3 DEF EngineInv, Reserved
  <1>10. Linked'
    <2> SUFFICES ASSUME destroyed = {} PROVE Linked'
      BY <1>0 DEF Linked
    <2>2. ASSUME NEW j, NEW y \in Record \cup {Gone}, Leads(j, y) PROVE Leads(j, y)'
      <3>1. y.next # 0 => y.next \in Id
        BY NoRecord DEF Record
      <3>. QED
        BY <1>0, <1>5, <2>2, <3>1 DEF Leads, Arriving
    <2>3. \A t \in given' : store'[t.id] # Gone
      BY <1>5, <1>g, <1>m, <1>s, <1>x DEF EngineInv, Linked
    <2>4. ASSUME NEW j \in Id, NEW y, y = store'[j] PROVE Leads(j, y)'
      <3>1. CASE j = n
        BY <1>s, <1>x, <2>4, <3>1 DEF Leads
      <3>2. CASE j # n
        <4>1. y = store[j] /\ y \in Record \cup {Gone} /\ Leads(j, y)
          BY <1>s, <1>t, <2>4, <3>2 DEF EngineInv, Linked
        <4>. QED
          BY <2>2, <4>1
      <3>. QED
        BY <3>1, <3>2
    <2>5. ASSUME NEW p \in Req, req[p].step \in Carrying, NEW j, NEW y, j = req[p].id, y = req[p].rec
          PROVE  Leads(j, y)'
      <3>1. y \in Record /\ Leads(j, y)
        BY <2>5 DEF EngineInv, Linked, EngineTyped, Superseding
      <3>. QED
        BY <2>2, <3>1
    <2>. QED
      BY <1>0, <2>3, <2>4, <2>5 DEF Linked, Leads, Arriving
  <1>. QED
    BY <1>6, <1>7, <1>8, <1>9, <1>10 DEF EngineInv

\* Signing out only takes records away.
LEMMA StepDestroy == ASSUME EngineInv, Destroy PROVE EngineInv'
  <1>0. /\ UNCHANGED <<now, given, minted, req, faults, born, used, cut>>
        /\ destroyed' # {} /\ destroyed' \subseteq Id
        /\ store' \in [Id -> Record \cup {Gone}]
        /\ \A i \in Id : store'[i] = store[i] \/ store'[i] = Gone
    <2>1. PICK out \in {{t.id} : t \in given} \cup {{i \in Id : store[i] # Gone}} :
             /\ ~(out \subseteq destroyed) /\ destroyed' = destroyed \cup out
             /\ store' = [i \in Id |-> IF i \in out THEN Gone ELSE store[i]]
      BY DEF Destroy
    <2>2. /\ store \in [Id -> Record \cup {Gone}] /\ destroyed \subseteq Id
          /\ given \subseteq [id : Id, expires : Far]
      BY DEF EngineInv, EngineTyped, TypeOK
    <2>3. out \subseteq Id /\ out # {}
      BY <2>1, <2>2
    <2>. QED
      BY <2>1, <2>2, <2>3 DEF Destroy
  <1>1. TypeOK'
    BY <1>0 DEF EngineInv, EngineTyped, TypeOK
  <1>2. Superseding'
    BY <1>0, NoRecord DEF EngineInv, EngineTyped, Superseding
  <1>3. Minted'
    <2>1. \A q \in Req : req[q].step \in Rotating => store'[req[q].next] = Gone
      BY <1>0 DEF EngineInv, EngineTyped, Superseding, Minted
    <2>. QED
      BY <1>0, <2>1 DEF EngineInv, Minted
  <1>4. Dates'
    BY <1>0 DEF EngineInv, Dates, Dated
  <1>5. Reserved'
    <2>1. 0 <= minted /\ \A q \in Req : req[q].step \in Rotating => req[q].next # 0
      BY Sizes DEF EngineInv, EngineTyped, TypeOK, Superseding
    <2>. QED
      BY <1>0, <2>1, NoRecord DEF EngineInv, Reserved
  <1>6. Linked'
    BY <1>0 DEF Linked
  <1>. QED
    BY <1>1, <1>2, <1>3, <1>4, <1>5, <1>6 DEF EngineInv, EngineTyped

\* Time passes, and that is all.
LEMMA StepTick == ASSUME EngineInv, Tick PROVE EngineInv'
  <1>0. UNCHANGED <<store, given, minted, req, faults, born, used, destroyed, cut>>
    BY DEF Tick, record, history
  <1>1. now' \in Time
    <2>1. now \in 0..MaxTime /\ MaxTime \in Nat /\ now < MaxTime /\ now' = now + 1
      BY Sizes DEF EngineInv, EngineTyped, TypeOK, Tick, Time
    <2>. QED
      BY ONLY <2>1 DEF Time
  <1>. QED
    BY <1>0, <1>1 DEF EngineInv, EngineTyped, TypeOK, Superseding, Minted, Dates, Dated, Reserved,
       Linked, Leads, Arriving

\* A read that succeeds keeps the invariant, with or without a token to give.
LEMMA StepServe ==
    ASSUME EngineInv, NEW q \in Req, req[q].step \in Asking, Serve(q),
           UNCHANGED <<now, store, minted, faults, born, destroyed, cut>>,
           given' = given \/ given' = given \cup {Token(req[q].id, store[req[q].id])}
    PROVE  EngineInv'
  <1>1. TypeOK /\ Verdict(q) = "served" /\ Becomes(q, Seen(q))
    BY DEF EngineInv, EngineTyped, Serve
  <1>2. /\ req[q].id \in Id /\ store[req[q].id] \in Record /\ Seen(q) \in Request
        /\ \/ Seen(q).step = "idle"
           \/ /\ Seen(q).step \in Continuing /\ Seen(q).id = req[q].id
              /\ Seen(q).rec = Touched(store[req[q].id], req[q].at)
    BY <1>1, Served DEF Touched
  <1>3. \A t \in given' \ given : \E i \in Id : store[i] \in Record /\ t = Token(i, store[i])
    BY <1>2
  <1>4. /\ used' \in [Id -> Time] /\ \A i \in Id : used[i] <= used'[i]
        /\ req[q].at <= used'[req[q].id]
    <2>1. /\ used' = [used EXCEPT ![req[q].id] = IF @ < req[q].at THEN req[q].at ELSE @]
          /\ used \in [Id -> Time] /\ req[q].at \in Time
      BY <1>1 DEF Serve, TypeOK, Request
    <2>2. /\ used[req[q].id] \in Nat /\ req[q].at \in Nat
          /\ used'[req[q].id] = IF used[req[q].id] < req[q].at THEN req[q].at ELSE used[req[q].id]
          /\ \A i \in Id \ {req[q].id} : used'[i] = used[i]
          /\ \A i \in Id : used[i] \in Nat
      BY <1>2, <2>1, Sizes
    <2>3. used[req[q].id] <= used'[req[q].id] /\ req[q].at <= used'[req[q].id]
      BY ONLY <2>2
    <2>4. ASSUME NEW i \in Id PROVE used[i] <= used'[i]
      <3>1. CASE i = req[q].id
        BY <2>3, <3>1
      <3>2. CASE i # req[q].id
        <4>1. used[i] \in Nat /\ used'[i] = used[i]
          BY <2>2, <3>2
        <4>. QED
          BY ONLY <4>1
      <3>. QED
        BY <3>1, <3>2
    <2>. QED
      BY <1>2, <2>1, <2>3, <2>4
  <1>5. faults' \in 0..MaxFaults /\ cut \subseteq Id
    BY <1>1 DEF TypeOK
  <1>6. CASE Seen(q).step = "idle"
    <2>1. Seen(q).step \notin Working /\ req[q].step # "issue"
      BY <1>6 DEF Working, Asking
    <2>. QED
      BY <1>1, <1>2, <1>3, <1>4, <1>5, <2>1, StepLeaving
  <1>7. CASE Seen(q).step # "idle"
    BY <1>1, <1>2, <1>3, <1>4, <1>7, StepServed
  <1>. QED
    BY <1>6, <1>7

\* A write that fails is counted.
LEMMA Faults == ASSUME TypeOK, Fault PROVE faults' \in 0..MaxFaults
  <1>1. faults \in 0..MaxFaults /\ MaxFaults \in Nat /\ faults < MaxFaults /\ faults' = faults + 1
    BY Sizes DEF TypeOK, Fault
  <1>. QED
    BY ONLY <1>1

\* Every step of a request keeps the invariant.
LEMMA StepOfRequest == ASSUME EngineInv, NEW q \in Req, Step(q) PROVE EngineInv'
  <1> DEFINE Leaving(r) ==
        /\ r \in Request /\ r.step \notin Working /\ Becomes(q, r)
        /\ UNCHANGED <<now, store, minted, born, destroyed>> /\ faults' \in 0..MaxFaults
        /\ given' = given
        /\ used' = used
        /\ ((req[q].step # "issue" /\ cut' = cut) \/ cut' = cut \cup {req[q].id})
  <1>t. /\ TypeOK /\ req[q] \in Request /\ req[q].id \in Id /\ used \in [Id -> Time]
        /\ faults \in 0..MaxFaults /\ cut \subseteq Id
    BY DEF EngineInv, EngineTyped, TypeOK, Request
  <1>l. ASSUME NEW r, Leaving(r) PROVE EngineInv'
    <2>1. /\ used' \in [Id -> Time] /\ \A i \in Id : used[i] <= used'[i]
          /\ cut \subseteq cut' /\ cut' \subseteq Id /\ (req[q].step = "issue" => req[q].id \in cut')
          /\ given \subseteq given'
          /\ \A t \in given' \ given : \E i \in Id : store[i] \in Record /\ t = Token(i, store[i])
      <3>1. used' = used /\ given' = given /\ ((req[q].step # "issue" /\ cut' = cut) \/ cut' = cut \cup {req[q].id})
        BY <1>l
      <3>2. \A i \in Id : used[i] \in Nat
        BY <1>t, Sizes
      <3>3. \A i \in Id : used[i] <= used'[i]
        BY <3>1, <3>2
      <3>. QED
        BY <1>t, <3>1, <3>3
    <2>. QED
      BY <1>l, <2>1, StepLeaving
  <1>r. Resting \in Request /\ Resting.step \notin Working
    BY AtRest DEF Working
  <1>1. CASE Ask(q)
    <2>1. PICK t \in given, rotates \in BOOLEAN :
             Becomes(q, [Resting EXCEPT !.step = "read", !.rotates = rotates, !.at = now, !.id = t.id])
      BY <1>1 DEF Ask
    <2> DEFINE r == [Resting EXCEPT !.step = "read", !.rotates = rotates, !.at = now, !.id = t.id]
    <2>2. t.id \in Id /\ now \in Time
      BY <1>t DEF TypeOK
    <2>3. r \in Request /\ r.step \notin Working
      BY <1>r, <2>2 DEF Request, Steps, Working
    <2>4. Leaving(r)
      BY <1>1, <1>t, <2>1, <2>3 DEF Ask, record, history
    <2>. QED
      BY <1>l, <2>4
  <1>2. CASE Read(q)
    <2>1. req[q].step = "read" /\ req[q].step \in Asking
          /\ UNCHANGED <<now, store, given, minted, faults, born, destroyed, cut>>
      BY <1>2 DEF Read, Asking, record
    <2>2. CASE Serve(q)
      BY <2>1, <2>2, StepServe
    <2>3. CASE Refuse(q)
      BY <1>l, <1>r, <1>t, <2>1, <2>3 DEF Refuse
    <2>4. CASE /\ Verdict(q) = "successor" /\ UNCHANGED used
               /\ Becomes(q, [req[q] EXCEPT !.step = "follow", !.id = store[req[q].id].next])
      <3> DEFINE r == [req[q] EXCEPT !.step = "follow", !.id = store[req[q].id].next]
      <3>1. store[req[q].id] # Gone /\ store[req[q].id].until # Never
        BY <2>1, <2>4 DEF Verdict
      <3>2. store[req[q].id] \in Record /\ store[req[q].id].next # 0
        BY <1>t, <3>1 DEF TypeOK, EngineInv, EngineTyped, Superseding
      <3>3. store[req[q].id].next \in Id
        BY <3>2 DEF Record
      <3>4. r \in Request /\ r.step \notin Working
        BY <1>t, <3>3 DEF Request, Steps, Working
      <3>5. Leaving(r)
        BY <1>t, <2>1, <2>4, <3>4
      <3>. QED
        BY <1>l, <3>5
    <2>. QED
      BY <1>2, <2>2, <2>3, <2>4 DEF Read
  <1>3. CASE Follow(q)
    <2>1. req[q].step = "follow" /\ req[q].step \in Asking
          /\ UNCHANGED <<now, store, minted, faults, born, destroyed, cut>>
      BY <1>3 DEF Follow, Asking
    <2>2. CASE Serve(q) /\ given' = given \cup {Token(req[q].id, store[req[q].id])}
      BY <2>1, <2>2, StepServe
    <2>3. CASE Refuse(q) /\ UNCHANGED given
      BY <1>l, <1>r, <1>t, <2>1, <2>3 DEF Refuse
    <2>. QED
      BY <1>3, <2>2, <2>3 DEF Follow
  <1>4. CASE Touch(q)
    <2>1. /\ req[q].step = "touch" /\ Becomes(q, Onward(req[q]))
          /\ UNCHANGED <<now, given, minted, born, used, destroyed, cut>>
          /\ store' = store \/ Put(req[q].id, req[q].rec)
          /\ faults' \in 0..MaxFaults
      BY <1>4, <1>t, Faults DEF Touch, history
    <2>2. /\ Onward(req[q]) \in Request
          /\ \/ Onward(req[q]).step = "idle"
             \/ /\ Onward(req[q]).step = "reread" /\ Onward(req[q]).id = req[q].id
                /\ Onward(req[q]).rec = req[q].rec
      BY <1>t, AtRest DEF Onward, Request, Steps
    <2>. QED
      BY <2>1, <2>2, StepTouched
  <1>5. CASE Reread(q)
    BY <1>5, StepReread
  <1>6. CASE Mark(q)
    <2> DEFINE x == Superseded(req[q].rec, req[q].at + Overlap, req[q].next)
    <2>1. req[q].step = "mark" /\ UNCHANGED <<now, given, minted, born, used, destroyed, cut>>
      BY <1>6 DEF Mark
    <2>2. \/ Put(req[q].id, x) /\ Becomes(q, Issuing(req[q])) /\ UNCHANGED faults
          \/ Fault /\ Becomes(q, Resting) /\ UNCHANGED store
      BY <1>6 DEF Mark, Superseded, Issuing
    <2>3. CASE Fault /\ Becomes(q, Resting) /\ UNCHANGED store
      BY <1>l, <1>r, <1>t, <2>1, <2>3, Faults
    <2>4. CASE Put(req[q].id, x) /\ Becomes(q, Issuing(req[q])) /\ UNCHANGED faults
      <3> HIDE DEF x
      <3>1. x = Superseded(req[q].rec, req[q].at + Overlap, req[q].next)
        BY DEF x
      <3>. QED
        BY <2>1, <2>4, <3>1, StepMarked
    <2>. QED
      BY <2>2, <2>3, <2>4
  <1>7. CASE Issue(q)
    <2> DEFINE x == [seen |-> req[q].at, expires |-> req[q].expires, until |-> Never, next |-> 0]
    <2>1. req[q].step = "issue" /\ Becomes(q, Resting) /\ UNCHANGED <<now, minted, destroyed>>
      BY <1>7 DEF Issue
    <2>x. x = [Fresh(req[q].expires) EXCEPT !.seen = req[q].at]
      BY DEF Fresh
    <2>2. \/ /\ Put(req[q].next, x) /\ given' = given \cup {Token(req[q].next, x)}
             /\ born' = [born EXCEPT ![req[q].next] = born[req[q].id]]
             /\ used' = [used EXCEPT ![req[q].next] = req[q].at]
             /\ UNCHANGED <<faults, cut>>
          \/ Fault /\ cut' = cut \cup {req[q].id} /\ UNCHANGED <<store, given, born, used>>
      BY <1>7, <2>x DEF Issue
    <2>3. CASE Fault /\ cut' = cut \cup {req[q].id} /\ UNCHANGED <<store, given, born, used>>
      BY <1>l, <1>r, <1>t, <2>1, <2>3, Faults
    <2>4. CASE /\ Put(req[q].next, x) /\ given' = given \cup {Token(req[q].next, x)}
               /\ born' = [born EXCEPT ![req[q].next] = born[req[q].id]]
               /\ used' = [used EXCEPT ![req[q].next] = req[q].at]
               /\ UNCHANGED <<faults, cut>>
      <3> HIDE DEF x
      <3>1. x = [seen |-> req[q].at, expires |-> req[q].expires, until |-> Never, next |-> 0]
        BY DEF x
      <3>. QED
        BY <2>1, <2>4, <3>1, StepIssued
    <2>. QED
      BY <2>2, <2>3, <2>4
  <1>. QED
    BY <1>1, <1>2, <1>3, <1>4, <1>5, <1>6, <1>7 DEF Step

\* At first nobody has signed in.
LEMMA EngineStarts == Init => EngineInv
  <1> SUFFICES ASSUME Init PROVE EngineInv
    OBVIOUS
  <1>1. /\ store \in [Id -> Record \cup {Gone}] /\ \A i \in Id : store[i] = Gone
        /\ req \in [Req -> Request] /\ \A q \in Req : req[q].step = "idle"
    BY AtRest DEF Init
  <1>2. TypeOK
    BY <1>1, Sizes DEF Init, TypeOK
  <1>3. \A q \in Req : req[q].step \notin Carrying \cup Rotating \cup Working
    BY <1>1 DEF Carrying, Rotating, Working
  <1>4. Superseding /\ Minted /\ Dates
    BY <1>1, <1>3, NoRecord DEF Init, Superseding, Minted, Dates
  <1>5. Reserved /\ Linked
    BY <1>1, <1>3, NoRecord DEF Init, Reserved, Linked, Leads
  <1>. QED
    BY <1>2, <1>4, <1>5 DEF EngineInv, EngineTyped

\* Every step of the session engine keeps its invariant.
LEMMA EngineStep == ASSUME EngineInv, [Next]_vars PROVE EngineInv'
  <1>1. CASE UNCHANGED vars
    BY <1>1 DEF vars, record, history, EngineInv, EngineTyped, TypeOK, Superseding, Minted, Dates,
       Dated, Reserved, Linked, Leads, Arriving, Request, Record, Fresh
  <1>. QED
    BY <1>1, StepTick, StepSignIn, StepDestroy, StepOfRequest DEF Next

\* The invariant is what the engine promises of lifetimes.
LEMMA EnginePromises == EngineInv => LifetimesHold
  <1> SUFFICES ASSUME EngineInv PROVE LifetimesHold
    OBVIOUS
  <1>1. ASSUME NEW q \in Req, Reading(q), Verdict(q) = "served"
        PROVE  req[q].at < born[req[q].id] + AbsoluteTtl /\ Unused(q) <= IdleTtl
    <2>1. TypeOK /\ req[q].step \in Asking
      BY <1>1 DEF EngineInv, EngineTyped, Reading, Asking
    <2>2. /\ req[q].id \in Id /\ store[req[q].id] \in Record
          /\ req[q].at < store[req[q].id].expires
          /\ req[q].at - store[req[q].id].seen <= IdleTtl
      BY <1>1, <2>1, Served
    <2>3. Dated(req[q].id, store[req[q].id])
      BY <2>2, NoRecord DEF EngineInv, Dates
    <2>4. /\ req[q].at \in Nat /\ store[req[q].id].seen \in Nat /\ used[req[q].id] \in Nat
          /\ IdleTtl \in Nat
      BY <2>1, <2>2, Sizes DEF TypeOK, Request, Record
    <2>. QED
      BY <2>2, <2>3, <2>4 DEF Dated, Unused
  <1>2. NobodyLost
    <2> SUFFICES ASSUME destroyed = {}, NEW t \in given, t.id \notin cut
                 PROVE  /\ store[t.id] # Gone
                        /\ store[t.id].next # 0 => store[store[t.id].next] # Gone \/ Arriving(store[t.id].next)
      BY DEF NobodyLost
    <2>1. t.id \in Id
      BY DEF EngineInv, EngineTyped, TypeOK
    <2>. QED
      BY <2>1 DEF EngineInv, Linked, Leads
  <1>. QED
    BY <1>1, <1>2 DEF LifetimesHold, CeilingHolds, IdleHolds

----------------------------------------------------------------------------
\* Passwords.

\* What a request of each kind goes through.
Kinds(x) ==
    /\ x.at = "verify" => x.kind \in {"signin", "change"}
    /\ x.at \in {"upgrade", "open"} => x.kind = "signin"
    /\ x.at \in {"consume", "destroy"} => x.kind = "redeem"
    /\ x.at = "write" => x.kind \in {"change", "redeem"}

\* It signs in, or it sets a password.
Signing(x) == x.at \in {"verify", "upgrade", "open"} /\ x.kind = "signin"
Sets(x) == x.at # "idle" /\ ~Signing(x)

\* Attempts that will fail, and those of them that counted too few to lock.
Wrong == {r \in Client : requests[r].at = "verify" /\ ~requests[r].right}
Few == {r \in Wrong : requests[r].failed + 1 < Threshold}

UserTyped == User!PasswordsTyped /\ \A r \in Client : Kinds(requests[r])

\* A failure is counted for each call at most, and until there is a lock there are no more
\* than the lock needs, but for those that overlap.
Counted ==
    /\ failed + Cardinality(Wrong) <= calls
    /\ lockedUntil = User!Never => failed + Cardinality(Few) <= Threshold + Cardinality(Client) - 2

\* Sign-ins do not overlap what sets passwords: what they verified is the password there is,
\* and there are no sessions when a password is written.
KeptApart ==
    apart =>
        /\ \A r, s \in Client : ~(Signing(requests[r]) /\ Sets(requests[s]))
        /\ \A r \in Client : Signing(requests[r]) => requests[r].hash.password = hash.password
        /\ \A r \in Client : requests[r].at = "write" => opened = {}
        /\ opened \subseteq {hash.password}

\* No hash is too weak.
Strong ==
    ~upgrades =>
        /\ ~hash.weak
        /\ \A r \in Client : requests[r].at # "idle" => ~requests[r].hash.weak /\ requests[r].at # "upgrade"

\* Calls are told apart by their numbers.
Numbered ==
    /\ hash.password <= calls /\ \A p \in retired : p <= calls
    /\ \A r \in Client : requests[r].at # "idle" =>
          requests[r].call <= calls /\ requests[r].hash.password <= calls
    /\ \A r, s \in Client : requests[r].at # "idle" /\ requests[s].at # "idle" /\ r # s
                               => requests[r].call # requests[s].call

\* What a call will set is not there yet and was not there before.
NotYet ==
    apart \/ ~upgrades =>
        /\ hash.password \notin retired
        /\ \A r \in Client : Sets(requests[r]) => requests[r].call \notin retired \cup {hash.password}
        /\ \A a \in proven : a[2] \in retired
        /\ \A a, b \in proven : a[2] = b[2] => a = b

\* The link there is was not redeemed.
Links ==
    /\ link.token <= calls
    /\ \A a \in redeemed : a[2] <= calls /\ (link # User!NoLink => a[2] # link.token)
    /\ \A a, b \in redeemed : a[2] = b[2] => a = b

UserInv == UserTyped /\ Counted /\ KeptApart /\ Strong /\ Numbered /\ NotYet /\ Links

USE UserAssumption DEF User!PasswordsAssumption

\* What the constants are.
LEMMA Limits ==
    /\ Threshold \in Nat /\ Threshold > 0 /\ LockTime \in Nat /\ LockTime > 0
    /\ LinkTtl \in Nat /\ MaxCalls \in Nat /\ MaxClock \in Nat
    /\ IsFiniteSet(Client) /\ Cardinality(Client) \in Nat /\ Cardinality(Client) > 0
  <1>1. IsFiniteSet(Client) /\ Client # {}
    BY DEF User!IsFiniteSet, IsFiniteSet
  <1>2. Cardinality(Client) \in Nat /\ Cardinality(Client) # 0
    BY <1>1, FS_CardinalityType, FS_EmptySet
  <1>. QED
    BY <1>1, <1>2

HIDE UserAssumption DEF User!PasswordsAssumption

\* A request that goes on or ends, and what it knows stays the same.
Follows(x, y) ==
    \/ y = User!NoRequest
    \/ /\ y \in User!Asking /\ Kinds(y)
       /\ y.kind = x.kind /\ y.call = x.call /\ y.hash = x.hash
       /\ y.at # "verify" /\ (Signing(y) => Signing(x)) /\ (Sets(y) => Sets(x))
       /\ y.at = "upgrade" => x.at = "upgrade" \/ x.hash.weak
Goes(r, y) ==
    /\ requests[r].at # "idle" /\ Follows(requests[r], y)
    /\ requests' \in [Client -> {User!NoRequest} \cup User!Asking]
    /\ requests'[r] = y /\ \A s \in Client \ {r} : requests'[s] = requests[s]

\* A request is at rest, or it knows who it is.
LEMMA Knows ==
    ASSUME UserTyped, NEW r \in Client
    PROVE  /\ requests \in [Client -> {User!NoRequest} \cup User!Asking]
           /\ requests[r].at # "idle" => requests[r] \in User!Asking
           /\ requests[r].at = "idle" => requests[r] = User!NoRequest
           /\ Kinds(requests[r])
  BY DEF UserTyped, User!PasswordsTyped, User!NoRequest, User!Asking

\* A request that ends.
LEMMA Ends ==
    ASSUME UserTyped, NEW r \in Client, requests[r].at # "idle", User!Over(r)
    PROVE  Goes(r, User!NoRequest)
  BY Knows DEF Goes, Follows, User!Over

\* A request that goes on.
LEMMA GoesOn ==
    ASSUME UserTyped, NEW r \in Client, NEW step, User!Go(r, step),
           \/ /\ requests[r].at = "verify" /\ requests[r].kind = "signin" /\ requests[r].hash.weak
              /\ step = "upgrade"
           \/ /\ requests[r].at \in {"verify", "upgrade"} /\ requests[r].kind = "signin"
              /\ step = "open"
           \/ requests[r].at = "verify" /\ requests[r].kind = "change" /\ step = "write"
           \/ requests[r].at = "consume" /\ step = "destroy"
           \/ requests[r].at = "destroy" /\ step = "write"
    PROVE  \E y : Goes(r, y) /\ y.at = step
  <1> DEFINE y == [requests[r] EXCEPT !.at = step]
  <1>1. requests[r] \in User!Asking /\ Kinds(requests[r])
    BY Knows
  <1>2. /\ y \in User!Asking /\ y.at = step /\ y.kind = requests[r].kind
        /\ y.call = requests[r].call /\ y.hash = requests[r].hash
    BY <1>1 DEF User!Asking
  <1>3. /\ requests' \in [Client -> {User!NoRequest} \cup User!Asking]
        /\ requests'[r] = y /\ \A s \in Client \ {r} : requests'[s] = requests[s]
    BY <1>2, Knows DEF User!Go
  <1>. HIDE DEF y
  <1>4. Follows(requests[r], y)
    BY <1>1, <1>2 DEF Follows, Kinds, Signing, Sets
  <1>. QED
    BY <1>1, <1>2, <1>3, <1>4 DEF Goes, User!Asking

\* A request that comes in.
Comes(r, y) ==
    /\ requests[r].at = "idle" /\ calls' = calls + 1 /\ calls < MaxCalls
    /\ y \in User!Asking /\ Kinds(y) /\ y.call = calls' /\ y.hash = hash
    /\ y.at \in {"verify", "consume"} /\ y.failed = failed
    /\ apart => IF y.kind = "signin" THEN User!Setting = {} ELSE User!SigningIn = {}
    /\ requests' \in [Client -> {User!NoRequest} \cup User!Asking]
    /\ requests'[r] = y /\ \A s \in Client \ {r} : requests'[s] = requests[s]

\* What each kind of request knows when it comes in.
LEMMA ComesIn ==
    ASSUME UserTyped, NEW r \in Client, NEW kind, NEW step, NEW right \in BOOLEAN,
           NEW token \in 0..MaxCalls, User!Begins(r, kind, step, right, token),
           \/ kind \in {"signin", "change"} /\ step = "verify"
           \/ kind = "redeem" /\ step = "consume"
    PROVE  \E y : Comes(r, y)
  <1> DEFINE y == [at |-> step, kind |-> kind, call |-> calls', right |-> right, hash |-> hash,
                   failed |-> failed, token |-> token]
  <1>1. /\ requests[r].at = "idle" /\ calls' = calls + 1 /\ calls < MaxCalls
        /\ requests' = [requests EXCEPT ![r] = y]
        /\ apart => IF kind = "signin" THEN User!Setting = {} ELSE User!SigningIn = {}
    BY DEF User!Begins, User!At
  <1>2. calls' \in 1..MaxCalls
    <2>1. calls \in 0..MaxCalls /\ MaxCalls \in Nat
      BY Limits DEF UserTyped, User!PasswordsTyped
    <2>. QED
      BY ONLY <1>1, <2>1
  <1>3. /\ y \in User!Asking /\ y.call = calls' /\ y.hash = hash /\ y.at = step /\ y.kind = kind
        /\ y.failed = failed
    BY <1>2 DEF User!Asking, UserTyped, User!PasswordsTyped
  <1>. HIDE DEF y
  <1>4. /\ requests' \in [Client -> {User!NoRequest} \cup User!Asking]
        /\ requests'[r] = y /\ \A s \in Client \ {r} : requests'[s] = requests[s]
    BY <1>1, <1>3, Knows
  <1>5. Kinds(y)
    BY <1>3 DEF Kinds
  <1>. QED
    BY <1>1, <1>3, <1>4, <1>5 DEF Comes

\* Both sets of attempts are finite, and so are those without one.
LEMMA Attempts ==
    /\ \A S \in SUBSET Client : IsFiniteSet(S) /\ Cardinality(S) \in Nat
                                  /\ Cardinality(S) <= Cardinality(Client)
    /\ \A S \in SUBSET Client, r \in Client :
          /\ r \in S => Cardinality(S \ {r}) = Cardinality(S) - 1
          /\ r \notin S => Cardinality(S \cup {r}) = Cardinality(S) + 1
                             /\ Cardinality(S) < Cardinality(Client)
  <1>1. ASSUME NEW S \in SUBSET Client
        PROVE  IsFiniteSet(S) /\ Cardinality(S) \in Nat /\ Cardinality(S) <= Cardinality(Client)
    BY Limits, FS_Subset, FS_CardinalityType
  <1>2. ASSUME NEW S \in SUBSET Client, NEW r \in Client, r \in S
        PROVE  Cardinality(S \ {r}) = Cardinality(S) - 1
    BY <1>1, <1>2, FS_RemoveElement
  <1>3. ASSUME NEW S \in SUBSET Client, NEW r \in Client, r \notin S
        PROVE  Cardinality(S \cup {r}) = Cardinality(S) + 1 /\ Cardinality(S) < Cardinality(Client)
    <2>1. Cardinality(S \cup {r}) = Cardinality(S) + 1
      BY <1>1, <1>3, FS_AddElement
    <2>2. Cardinality(S \cup {r}) <= Cardinality(Client)
      BY <1>1
    <2>. QED
      BY <1>1, <2>1, <2>2, Limits
  <1>. QED
    BY <1>1, <1>2, <1>3

\* A request that goes on or ends is no attempt any more.
LEMMA NotAttempts ==
    ASSUME UserTyped, NEW r \in Client, NEW y, Goes(r, y)
    PROVE  Wrong' = Wrong \ {r} /\ Few' = Few \ {r} /\ Wrong \subseteq Client /\ Few \subseteq Client
  <1>1. y.at # "verify"
    BY DEF Goes, Follows, User!NoRequest
  <1>2. \A s \in Client : s \in Wrong' <=> s \in Wrong \ {r}
    BY <1>1 DEF Goes, Wrong
  <1>3. \A s \in Client : s \in Few' <=> s \in Few \ {r}
    BY <1>1, <1>2 DEF Goes, Few, Wrong
  <1>. QED
    BY <1>2, <1>3 DEF Wrong, Few

\* A request that comes in may be one.
LEMMA OneAttempt ==
    ASSUME UserTyped, NEW r \in Client, NEW y, Comes(r, y)
    PROVE  /\ r \notin Wrong /\ r \notin Few /\ Wrong \subseteq Client /\ Few \subseteq Client
           /\ Wrong' = Wrong \/ Wrong' = Wrong \cup {r}
           /\ Few' = Few \/ (Few' = Few \cup {r} /\ failed + 1 < Threshold)
  <1>1. r \notin Wrong /\ r \notin Few
    BY DEF Wrong, Few, Comes
  <1>2. \A s \in Client \ {r} : s \in Wrong' <=> s \in Wrong
    BY DEF Comes, Wrong
  <1>3. \A s \in Client \ {r} : s \in Few' <=> s \in Few
    BY <1>2 DEF Comes, Few, Wrong
  <1>4. r \in Few' => failed + 1 < Threshold
    BY DEF Comes, Few
  <1>5. Wrong' \subseteq Client /\ Few' \subseteq Client /\ Wrong \subseteq Client /\ Few \subseteq Client
    BY DEF Wrong, Few
  <1>6. Wrong' = IF r \in Wrong' THEN Wrong \cup {r} ELSE Wrong
    BY <1>1, <1>2, <1>5
  <1>7. Few' = IF r \in Few' THEN Few \cup {r} ELSE Few
    BY <1>1, <1>3, <1>5
  <1>. QED
    BY <1>1, <1>4, <1>5, <1>6, <1>7

\* What is counted, when a request goes on or ends.
LEMMA CountedOn ==
    ASSUME UserTyped, Counted, NEW r \in Client, NEW y, Goes(r, y), calls' = calls,
           \/ failed' = failed /\ lockedUntil' = lockedUntil
           \/ failed' = 0 /\ r \notin Wrong
           \/ /\ r \in Wrong /\ failed' = failed + 1
              /\ r \in Few => lockedUntil' = lockedUntil
              /\ r \notin Few => lockedUntil' # User!Never
    PROVE  Counted' /\ failed' \in 0..MaxCalls
  <1> DEFINE w == Cardinality(Wrong)
             f == Cardinality(Few)
             n == Cardinality(Client)
  <1>1. /\ Wrong' = Wrong \ {r} /\ Few' = Few \ {r} /\ Wrong \subseteq Client /\ Few \subseteq Client
    BY NotAttempts
  <1>2. /\ w \in Nat /\ f \in Nat /\ n \in Nat /\ n > 0 /\ f <= n /\ failed \in Nat
        /\ calls \in 0..MaxCalls /\ MaxCalls \in Nat /\ Threshold \in Nat /\ Threshold > 0
    BY <1>1, Attempts, Limits DEF UserTyped, User!PasswordsTyped
  <1>3. /\ w' = (IF r \in Wrong THEN w - 1 ELSE w) /\ f' = (IF r \in Few THEN f - 1 ELSE f)
        /\ r \notin Few => f < n
    <2>1. Cardinality(Wrong') = IF r \in Wrong THEN w - 1 ELSE w
      <3>1. r \notin Wrong => Wrong \ {r} = Wrong
        OBVIOUS
      <3>. QED
        BY <1>1, <3>1, Attempts
    <2>2. Cardinality(Few') = IF r \in Few THEN f - 1 ELSE f
      <3>1. r \notin Few => Few \ {r} = Few
        OBVIOUS
      <3>. QED
        BY <1>1, <3>1, Attempts
    <2>. QED
      BY <1>1, <2>1, <2>2, Attempts
  <1>4. n' = n
    OBVIOUS
  <1>5. r \in Few => r \in Wrong
    BY DEF Few
  <1>6. /\ failed + w <= calls
        /\ lockedUntil = User!Never => failed + f <= Threshold + n - 2
    BY DEF Counted
  <1>. HIDE DEF w, f, n
  <1>7. w' \in Nat /\ f' \in Nat
    BY <1>1, Attempts DEF w, f
  <1>8. failed' + w' <= calls /\ failed' \in 0..MaxCalls
    BY <1>2, <1>3, <1>6, <1>7
  <1>9. lockedUntil' = User!Never => failed' + f' <= Threshold + n - 2
    BY <1>2, <1>3, <1>5, <1>6
  <1>. QED
    BY <1>4, <1>8, <1>9 DEF Counted, w, f, n, User!Never

\* The same, when a request comes in.
LEMMA CountedIn ==
    ASSUME UserTyped, Counted, NEW r \in Client, NEW y, Comes(r, y),
           failed' = failed, lockedUntil' = lockedUntil
    PROVE  Counted'
  <1> DEFINE w == Cardinality(Wrong)
             f == Cardinality(Few)
             n == Cardinality(Client)
  <1>1. /\ r \notin Wrong /\ r \notin Few /\ Wrong \subseteq Client /\ Few \subseteq Client
        /\ Wrong' = Wrong \/ Wrong' = Wrong \cup {r}
        /\ Few' = Few \/ (Few' = Few \cup {r} /\ failed + 1 < Threshold)
    BY OneAttempt
  <1>2. /\ w \in Nat /\ f \in Nat /\ n \in Nat /\ f < n /\ failed \in Nat /\ calls \in Nat
        /\ Threshold \in Nat /\ calls' = calls + 1
    <2>1. w \in Nat /\ f \in Nat /\ f < n
      BY <1>1, Attempts
    <2>2. n \in Nat /\ Threshold \in Nat
      BY Limits
    <2>3. failed \in Nat /\ calls \in Nat
      BY Limits DEF UserTyped, User!PasswordsTyped
    <2>. QED
      BY <2>1, <2>2, <2>3 DEF Comes
  <1>3. /\ w' \in {w, w + 1}
        /\ f' = f \/ (f' = f + 1 /\ failed + 1 < Threshold)
    BY <1>1, Attempts
  <1>4. n' = n
    OBVIOUS
  <1>5. /\ failed + w <= calls
        /\ lockedUntil = User!Never => failed + f <= Threshold + n - 2
    BY DEF Counted
  <1>. HIDE DEF w, f, n
  <1>6. failed + w' <= calls'
    <2>1. failed + w + 1 <= calls + 1 /\ failed + w <= calls + 1
      BY <1>2, <1>5
    <2>2. w' = w \/ w' = w + 1
      BY <1>3
    <2>3. failed + (w + 1) <= calls + 1
      BY ONLY <1>2, <2>1
    <2>. QED
      BY <1>2, <2>1, <2>2, <2>3
  <1>7. lockedUntil = User!Never => failed + f' <= Threshold + n - 2
    <2>1. CASE f' = f
      BY <1>5, <2>1
    <2>2. CASE f' = f + 1 /\ failed + 1 < Threshold
      <3>1. failed + (f + 1) <= Threshold + n - 2
        BY ONLY <1>2, <2>2
      <3>. QED
        BY <2>2, <3>1
    <2>. QED
      BY <1>3, <2>1, <2>2
  <1>. QED
    BY <1>4, <1>6, <1>7 DEF Counted, w, f, n, User!Never

\* Sessions and passwords stay together, when a request goes on or ends.
LEMMA ApartOn ==
    ASSUME UserTyped, KeptApart, NEW r \in Client, NEW y, Goes(r, y), apart' = apart,
           \/ hash' = hash /\ opened' = opened /\ y.at # "write"
           \/ /\ hash' = hash /\ opened' = opened \cup {requests[r].hash.password}
              /\ requests[r].at = "open" /\ y = User!NoRequest
           \/ hash' = hash /\ opened' = {}
           \/ /\ requests[r].at = "upgrade" /\ opened' = opened /\ y.at # "write"
              /\ hash'.password = requests[r].hash.password
           \/ requests[r].at = "write" /\ opened' = opened /\ y = User!NoRequest
    PROVE  KeptApart'
  <1> SUFFICES ASSUME apart PROVE KeptApart'
    BY DEF KeptApart
  <1>0. User!NoRequest.at = "idle" /\ Kinds(requests[r])
    BY Knows DEF User!NoRequest
  <1>1. /\ Signing(y) => Signing(requests[r]) /\ y.hash = requests[r].hash
        /\ Sets(y) => Sets(requests[r])
    BY <1>0 DEF Goes, Follows, Signing, Sets
  <1>2. \A s, t \in Client : ~(Signing(requests[s]) /\ Sets(requests[t]))
    BY DEF KeptApart
  <1>3. \A s, t \in Client : ~(Signing(requests'[s]) /\ Sets(requests'[t]))
    BY <1>1, <1>2 DEF Goes
  <1>4. requests[r].at \in {"open", "upgrade"} => Signing(requests[r])
    BY <1>0 DEF Kinds, Signing
  <1>5. \A s \in Client : requests[s].at = "write" => Sets(requests[s])
    BY DEF Sets, Signing
  <1>6. requests[r].at = "write" \/ hash'.password = hash.password
    BY <1>4 DEF KeptApart
  <1>7. ASSUME NEW s \in Client, Signing(requests'[s]) PROVE requests'[s].hash.password = hash'.password
    <2>1. Signing(requests[s]) /\ requests'[s].hash = requests[s].hash
      BY <1>1, <1>7 DEF Goes
    <2>2. requests[r].at # "write"
      BY <1>2, <1>5, <2>1
    <2>. QED
      BY <1>6, <2>1, <2>2 DEF KeptApart
  <1>8. ASSUME NEW s \in Client, requests'[s].at = "write" PROVE opened' = {}
    <2>1. CASE opened' = {}
      BY <2>1
    <2>2. CASE opened' # {}
      <3>1. y.at # "write"
        BY <1>0, <2>2
      <3>2. s # r /\ requests[s].at = "write"
        BY <1>8, <3>1 DEF Goes
      <3>3. opened = {} /\ ~Signing(requests[r])
        BY <1>2, <1>5, <3>2 DEF KeptApart
      <3>. QED
        BY <1>4, <2>2, <3>3
    <2>. QED
      BY <2>1, <2>2
  <1>9. opened' \subseteq {hash'.password}
    <2>1. CASE requests[r].at = "write"
      BY <2>1 DEF KeptApart
    <2>2. CASE requests[r].at # "write"
      BY <1>4, <1>6, <2>2 DEF KeptApart
    <2>. QED
      BY <2>1, <2>2
  <1>. QED
    BY <1>3, <1>7, <1>8, <1>9 DEF KeptApart, Signing, Sets

\* The same, when a request comes in.
LEMMA ApartIn ==
    ASSUME UserTyped, KeptApart, NEW r \in Client, NEW y, Comes(r, y),
           apart' = apart, hash' = hash, opened' = opened
    PROVE  KeptApart'
  <1> SUFFICES ASSUME apart PROVE KeptApart'
    BY DEF KeptApart
  <1>1. \A s \in Client : /\ s \in User!SigningIn <=> Signing(requests[s])
                          /\ s \in User!Setting <=> Sets(requests[s])
    BY DEF User!SigningIn, User!Setting, Signing, Sets
  <1>2. Signing(y) => y.kind = "signin" /\ \A s \in Client : ~Sets(requests[s])
    BY <1>1 DEF Signing, Comes
  <1>3. Sets(y) => y.kind # "signin" /\ \A s \in Client : ~Signing(requests[s])
    BY <1>1 DEF Signing, Sets, Comes, Kinds
  <1>4. ~(Signing(y) /\ Sets(y))
    BY DEF Sets
  <1>5. \A s, t \in Client : ~(Signing(requests'[s]) /\ Sets(requests'[t]))
    BY <1>2, <1>3, <1>4 DEF KeptApart, Comes
  <1>6. \A s \in Client : Signing(requests'[s]) => requests'[s].hash.password = hash'.password
    BY DEF KeptApart, Comes
  <1>7. \A s \in Client : requests'[s].at = "write" => opened' = {}
    BY DEF KeptApart, Comes
  <1>. QED
    BY <1>5, <1>6, <1>7 DEF KeptApart, Signing, Sets

\* No hash is too weak, when a request goes on or ends, or comes in.
LEMMA StrongOn ==
    ASSUME UserTyped, Strong, NEW r \in Client, NEW y, Goes(r, y) \/ Comes(r, y),
           upgrades' = upgrades, hash' = hash \/ hash'.weak = FALSE
    PROVE  Strong'
  <1> SUFFICES ASSUME ~upgrades PROVE Strong'
    BY DEF Strong
  <1>1. ~hash.weak
    BY DEF Strong
  <1>2. ~hash'.weak
    BY <1>1
  <1>3. y.at # "idle" => ~y.hash.weak /\ y.at # "upgrade"
    BY <1>1 DEF Strong, Goes, Comes, Follows, User!NoRequest
  <1>4. \A s \in Client : requests'[s].at # "idle" => ~requests'[s].hash.weak /\ requests'[s].at # "upgrade"
    BY <1>3 DEF Strong, Goes, Comes
  <1>. QED
    BY <1>2, <1>4 DEF Strong

\* Calls that wait have numbers of their own, when a request goes on or ends.
LEMMA NumberedOn ==
    ASSUME UserTyped, Numbered, NEW r \in Client, NEW y, Goes(r, y), calls' = calls,
           hash'.password \in {hash.password, requests[r].call, requests[r].hash.password},
           retired' \subseteq retired \cup {hash.password}
    PROVE  Numbered'
  <1>1. y.at # "idle" => y.call = requests[r].call /\ y.hash = requests[r].hash
    BY DEF Goes, Follows, User!NoRequest
  <1>2. requests[r].at # "idle"
    BY DEF Goes
  <1>3. hash'.password <= calls' /\ \A p \in retired' : p <= calls'
    BY <1>2 DEF Numbered
  <1>4. \A s \in Client : requests'[s].at # "idle" =>
          /\ requests[s].at # "idle"
          /\ requests'[s].call = requests[s].call /\ requests'[s].hash = requests[s].hash
    BY <1>1, <1>2 DEF Goes
  <1>. QED
    BY <1>3, <1>4 DEF Numbered

\* The same, when a request comes in.
LEMMA NumberedIn ==
    ASSUME UserTyped, Numbered, NEW r \in Client, NEW y, Comes(r, y),
           hash' = hash, retired' = retired
    PROVE  Numbered'
  <1>1. /\ calls \in Nat /\ calls' = calls + 1 /\ hash.password \in Nat /\ retired \subseteq Nat
        /\ y.call = calls + 1 /\ y.hash = hash
    BY Limits DEF UserTyped, User!PasswordsTyped, User!Hash, Comes
  <1>2. \A s \in Client : requests[s].at # "idle" => requests[s].call \in Nat
                                                       /\ requests[s].hash.password \in Nat
    BY Knows, Limits DEF User!Asking, User!Hash
  <1>3. \A p \in Nat : p <= calls => p <= calls' /\ p # calls + 1
    BY <1>1
  <1>4. hash'.password <= calls' /\ \A p \in retired' : p <= calls'
    BY <1>1, <1>3 DEF Numbered
  <1>5. \A s \in Client \ {r} : requests'[s].at # "idle" =>
          requests'[s].call <= calls' /\ requests'[s].hash.password <= calls'
            /\ requests'[s].call # y.call
    BY <1>1, <1>2, <1>3 DEF Numbered, Comes
  <1>6. y.call <= calls' /\ y.hash.password <= calls'
    BY <1>1, <1>4
  <1>7. \A s \in Client : requests'[s].at # "idle" =>
          requests'[s].call <= calls' /\ requests'[s].hash.password <= calls'
    BY <1>5, <1>6 DEF Comes
  <1>8. ASSUME NEW s \in Client, NEW t \in Client, requests'[s].at # "idle",
               requests'[t].at # "idle", s # t
        PROVE  requests'[s].call # requests'[t].call
    BY <1>5, <1>8 DEF Numbered, Comes
  <1>. QED
    BY <1>4, <1>7, <1>8 DEF Numbered

\* What a call will set is not there yet, when a request goes on or ends.
LEMMA NotYetOn ==
    ASSUME UserTyped, KeptApart, Strong, Numbered, NotYet, NEW r \in Client, NEW y, Goes(r, y),
           apart' = apart, upgrades' = upgrades,
           \/ hash' = hash /\ retired' = retired /\ proven' = proven
           \/ /\ requests[r].at = "upgrade" /\ retired' = retired /\ proven' = proven
              /\ hash'.password = requests[r].hash.password
           \/ /\ requests[r].at = "write" /\ y = User!NoRequest
              /\ hash'.password = requests[r].call /\ retired' = retired \cup {hash.password}
              /\ proven' = proven \/ proven' = proven \cup {<<requests[r].call, hash.password>>}
    PROVE  NotYet'
  <1> SUFFICES ASSUME apart \/ ~upgrades PROVE NotYet'
    BY DEF NotYet
  <1>0. User!NoRequest.at = "idle" /\ Kinds(requests[r]) /\ requests[r].at # "idle"
    BY Knows DEF User!NoRequest, Goes
  <1>1. /\ Sets(y) => Sets(requests[r]) /\ y.call = requests[r].call
    BY <1>0 DEF Goes, Follows, Sets
  <1>2. \A s \in Client : Sets(requests'[s]) =>
          Sets(requests[s]) /\ requests'[s].call = requests[s].call
    BY <1>1 DEF Goes
  <1>3. CASE hash' = hash /\ retired' = retired /\ proven' = proven
    BY <1>2, <1>3 DEF NotYet, Sets, Signing
  <1>4. CASE /\ requests[r].at = "upgrade" /\ retired' = retired /\ proven' = proven
             /\ hash'.password = requests[r].hash.password
    <2>1. apart /\ Signing(requests[r])
      BY <1>0, <1>4 DEF Strong, Signing, Kinds
    <2>2. hash'.password = hash.password
      BY <1>4, <2>1 DEF KeptApart
    <2>. QED
      BY <1>2, <1>4, <2>2 DEF NotYet, Sets, Signing
  <1>5. CASE /\ requests[r].at = "write" /\ y = User!NoRequest
             /\ hash'.password = requests[r].call /\ retired' = retired \cup {hash.password}
             /\ proven' = proven \/ proven' = proven \cup {<<requests[r].call, hash.password>>}
    <2>1. Sets(requests[r])
      BY <1>5 DEF Sets, Signing
    <2>2. /\ requests[r].call # hash.password /\ requests[r].call \notin retired
          /\ hash.password \notin retired
      BY <2>1 DEF NotYet
    <2>3. ASSUME NEW s \in Client, Sets(requests'[s])
          PROVE  requests'[s].call \notin retired' \cup {hash'.password}
      <3>1. s # r /\ Sets(requests[s]) /\ requests'[s].call = requests[s].call
        BY <1>0, <1>2, <1>5, <2>3 DEF Goes, Sets
      <3>2. requests[s].call # requests[r].call
        BY <1>0, <3>1 DEF Numbered, Sets
      <3>. QED
        BY <1>5, <3>1, <3>2 DEF NotYet
    <2>4. \A a \in proven' : a[2] \in retired'
      BY <1>5 DEF NotYet
    <2>5. \A a, b \in proven' : a[2] = b[2] => a = b
      <3>1. \A a \in proven : a[2] # hash.password
        BY <2>2 DEF NotYet
      <3>. QED
        BY <1>5, <3>1 DEF NotYet
    <2>6. hash'.password \notin retired'
      BY <1>5, <2>2
    <2>. QED
      BY <2>3, <2>4, <2>5, <2>6 DEF NotYet, Sets, Signing
  <1>. QED
    BY <1>3, <1>4, <1>5

\* The same, when a request comes in.
LEMMA NotYetIn ==
    ASSUME UserTyped, Numbered, NotYet, NEW r \in Client, NEW y, Comes(r, y),
           UNCHANGED <<apart, upgrades, hash, retired, proven>>
    PROVE  NotYet'
  <1> SUFFICES ASSUME apart \/ ~upgrades PROVE NotYet'
    BY DEF NotYet
  <1>1. /\ calls \in Nat /\ hash.password \in Nat /\ retired \subseteq Nat /\ y.call = calls + 1
    BY Limits DEF UserTyped, User!PasswordsTyped, User!Hash, Comes
  <1>2. hash.password <= calls /\ \A p \in retired : p <= calls
    BY DEF Numbered
  <1>3. y.call \notin retired \cup {hash.password}
    BY <1>1, <1>2
  <1>4. \A s \in Client : Sets(requests'[s]) => requests'[s].call \notin retired \cup {hash.password}
    BY <1>3 DEF NotYet, Comes
  <1>. QED
    BY <1>4 DEF NotYet, Sets, Signing

\* The link, and links that were redeemed.
LEMMA LinksStay ==
    ASSUME UserTyped, Links, calls' \in {calls, calls + 1}, redeemed' = redeemed,
           \/ link' = link \/ link' = User!NoLink
           \/ link'.token = calls' /\ calls' = calls + 1
    PROVE  Links'
  <1>1. /\ calls \in Nat /\ link.token \in Nat /\ \A a \in redeemed : a[2] \in Nat
    BY Limits DEF UserTyped, User!PasswordsTyped
  <1>2. \A p \in Nat : p <= calls => p <= calls'
    BY <1>1
  <1>3. link'.token <= calls'
    BY <1>1, <1>2 DEF Links, User!NoLink
  <1>4. ASSUME NEW a \in redeemed PROVE a[2] <= calls' /\ (link' # User!NoLink => a[2] # link'.token)
    <2>1. a[2] \in Nat /\ a[2] <= calls /\ (link # User!NoLink => a[2] # link.token)
      BY <1>1 DEF Links
    <2>. QED
      BY <1>1, <1>2, <2>1
  <1>. QED
    BY <1>3, <1>4 DEF Links, User!NoLink

\* A link is redeemed.
LEMMA LinksUsed ==
    ASSUME UserTyped, Links, NEW r \in Client, link # User!NoLink, link' = User!NoLink,
           calls' = calls, redeemed' = redeemed \cup {<<requests[r].call, link.token>>}
    PROVE  Links'
  <1>1. calls \in Nat /\ User!NoLink.token = 0
    BY Limits DEF UserTyped, User!PasswordsTyped, User!NoLink
  <1>2. \A a \in redeemed : a[2] # link.token
    BY DEF Links
  <1>3. \A a \in redeemed' : a[2] <= calls'
    BY DEF Links
  <1>4. \A a, b \in redeemed' : a[2] = b[2] => a = b
    BY <1>2 DEF Links
  <1>5. link'.token <= calls'
    BY <1>1
  <1>. QED
    BY <1>3, <1>4, <1>5 DEF Links, User!NoLink

\* What the variables that no request's own record tells of are.
LEMMA Plain ==
    ASSUME UserTyped
    PROVE  /\ apart \in BOOLEAN /\ upgrades \in BOOLEAN /\ clock \in 0..MaxClock
           /\ hash \in User!Hash /\ failed \in 0..MaxCalls /\ calls \in 0..MaxCalls
           /\ lockedUntil \in {User!Never} \cup 1..(MaxClock + LockTime)
           /\ link \in [token : 0..MaxCalls, expires : 0..(MaxClock + LinkTtl)]
           /\ opened \subseteq 0..MaxCalls /\ retired \subseteq 0..MaxCalls
           /\ redeemed \subseteq (1..MaxCalls) \X (0..MaxCalls)
           /\ proven \subseteq (1..MaxCalls) \X (0..MaxCalls)
  BY DEF UserTyped, User!PasswordsTyped, User!settings

\* The other way around, of a step.
LEMMA Typed ==
    ASSUME apart' \in BOOLEAN, upgrades' \in BOOLEAN, clock' \in 0..MaxClock,
           hash' \in User!Hash, failed' \in 0..MaxCalls, calls' \in 0..MaxCalls,
           lockedUntil' \in {User!Never} \cup 1..(MaxClock + LockTime),
           link' \in [token : 0..MaxCalls, expires : 0..(MaxClock + LinkTtl)],
           opened' \subseteq 0..MaxCalls, retired' \subseteq 0..MaxCalls,
           redeemed' \subseteq (1..MaxCalls) \X (0..MaxCalls),
           proven' \subseteq (1..MaxCalls) \X (0..MaxCalls),
           requests' \in [Client -> {User!NoRequest} \cup User!Asking],
           \A s \in Client : Kinds(requests'[s])
    PROVE  UserTyped'
  BY DEF UserTyped, User!PasswordsTyped, User!settings, User!Hash, User!Asking, User!NoRequest,
     User!Never, Kinds

\* Whatever a request does, it is of its kind.
LEMMA OfItsKind ==
    ASSUME UserTyped, NEW r \in Client, NEW y, Goes(r, y) \/ Comes(r, y)
    PROVE  /\ requests' \in [Client -> {User!NoRequest} \cup User!Asking]
           /\ \A s \in Client : Kinds(requests'[s])
  <1>1. Kinds(y)
    BY DEF Goes, Comes, Follows, Kinds, User!NoRequest
  <1>. QED
    BY <1>1, Knows DEF Goes, Comes

\* A request comes in.
LEMMA StepComes ==
    ASSUME UserInv, NEW r \in Client, NEW kind, NEW step, NEW right \in BOOLEAN,
           NEW token \in 0..MaxCalls, User!Begins(r, kind, step, right, token),
           \/ kind \in {"signin", "change"} /\ step = "verify"
           \/ kind = "redeem" /\ step = "consume"
    PROVE  UserInv'
  <1>0. UserTyped
    BY DEF UserInv
  <1>1. PICK y : Comes(r, y)
    BY <1>0, ComesIn
  <1>2. /\ UNCHANGED <<apart, upgrades, clock, hash, failed, lockedUntil, link, opened, retired,
                       redeemed, proven>>
        /\ calls' = calls + 1
    BY <1>1 DEF User!Begins, User!settings, User!record, User!histories, Comes
  <1>3. UserTyped'
    <2>1. calls' \in 0..MaxCalls
      <3>1. calls \in 0..MaxCalls /\ MaxCalls \in Nat /\ calls' = calls + 1 /\ calls < MaxCalls
        BY <1>0, <1>1, <1>2, Limits, Plain DEF Comes
      <3>. QED
        BY ONLY <3>1
    <2>. QED
      BY <1>0, <1>1, <1>2, <2>1, Plain, OfItsKind, Typed
  <1>4. Counted' /\ KeptApart' /\ Strong' /\ Numbered' /\ NotYet' /\ Links'
    BY <1>0, <1>1, <1>2, CountedIn, ApartIn, StrongOn, NumberedIn, NotYetIn, LinksStay DEF UserInv
  <1>. QED
    BY <1>3, <1>4 DEF UserInv

\* A request goes on, ends or fails, and changes nothing else.
LEMMA StepAlone ==
    ASSUME UserInv, NEW r \in Client, NEW y, Goes(r, y), y.at # "write",
           UNCHANGED <<apart, upgrades, clock, hash, failed, lockedUntil, link, opened, calls,
                       retired, redeemed, proven>>
    PROVE  UserInv'
  <1>0. UserTyped
    BY DEF UserInv
  <1>1. UserTyped'
    BY <1>0, Plain, OfItsKind, Typed
  <1>2. Counted' /\ KeptApart' /\ Strong' /\ Numbered' /\ NotYet' /\ Links'
    BY <1>0, CountedOn, ApartOn, StrongOn, NumberedOn, NotYetOn, LinksStay DEF UserInv
  <1>. QED
    BY <1>1, <1>2 DEF UserInv

\* An attempt fails or succeeds, and is counted.
LEMMA StepAttempt ==
    ASSUME UserInv, NEW r \in Client, User!AttemptFails(r) \/ User!Matches(r)
    PROVE  UserInv'
  <1>0. UserTyped /\ requests[r].at = "verify" /\ Counted
    BY DEF UserInv, User!AttemptFails, User!Matches, User!At
  <1>1. /\ UNCHANGED <<apart, upgrades, clock, hash, link, opened, calls, retired, redeemed, proven>>
    BY DEF User!AttemptFails, User!Matches, User!settings, User!histories
  <1>2. PICK y : Goes(r, y) /\ y.at # "write"
    <2>1. CASE User!AttemptFails(r)
      BY <1>0, <2>1, Ends DEF User!AttemptFails, User!NoRequest
    <2>2. CASE User!Matches(r)
      BY <1>0, <2>2, GoesOn DEF User!Matches
    <2>. QED
      BY <2>1, <2>2
  <1>3. lockedUntil' \in {User!Never} \cup 1..(MaxClock + LockTime)
    <2>1. clock \in Nat /\ clock <= MaxClock /\ MaxClock \in Nat /\ LockTime \in Nat /\ LockTime > 0
      BY <1>0, Plain, Limits
    <2>2. clock + LockTime \in 1..(MaxClock + LockTime)
      BY ONLY <2>1
    <2>3. lockedUntil' \in {lockedUntil, clock + LockTime, User!Never}
      BY DEF User!AttemptFails, User!Matches
    <2>. QED
      BY <1>0, <2>2, <2>3, Plain
  <1>4. \/ failed' = 0 /\ r \notin Wrong
        \/ /\ r \in Wrong /\ failed' = failed + 1
           /\ r \in Few => lockedUntil' = lockedUntil
           /\ r \notin Few => lockedUntil' # User!Never
    <2>1. CASE User!Matches(r)
      BY <2>1 DEF User!Matches, Wrong
    <2>2. CASE User!AttemptFails(r)
      <3>1. /\ r \in Wrong /\ failed' = failed + 1
            /\ lockedUntil' = IF requests[r].failed + 1 >= Threshold THEN clock + LockTime ELSE lockedUntil
        BY <2>2 DEF User!AttemptFails, Wrong, User!At
      <3>2. r \in Few <=> requests[r].failed + 1 < Threshold
        BY <3>1 DEF Few
      <3>3. clock + LockTime # User!Never
        BY <1>0, Plain, Limits DEF User!Never
      <3>4. requests[r].failed \in Nat /\ Threshold \in Nat
        BY <1>0, Knows, Limits DEF User!Asking
      <3>. QED
        BY <3>1, <3>2, <3>3, <3>4
    <2>. QED
      BY <2>1, <2>2
  <1>5. Counted' /\ failed' \in 0..MaxCalls
    BY <1>0, <1>1, <1>2, <1>4, CountedOn
  <1>6. UserTyped'
    BY <1>0, <1>1, <1>2, <1>3, <1>5, Plain, OfItsKind, Typed
  <1>7. KeptApart' /\ Strong' /\ Numbered' /\ NotYet' /\ Links'
    BY <1>0, <1>1, <1>2, ApartOn, StrongOn, NumberedOn, NotYetOn, LinksStay DEF UserInv
  <1>. QED
    BY <1>5, <1>6, <1>7 DEF UserInv

\* A hash is made again, or a session opened.
LEMMA StepSignsIn ==
    ASSUME UserInv, NEW r \in Client, User!Upgrade(r) \/ User!Opens(r)
    PROVE  UserInv'
  <1>0. UserTyped
    BY DEF UserInv
  <1>1. UNCHANGED <<apart, upgrades, clock, failed, lockedUntil, link, calls, retired, redeemed, proven>>
    BY DEF User!Upgrade, User!Opens, User!settings, User!record, User!histories
  <1>2. /\ requests[r] \in User!Asking /\ requests[r].at \in {"upgrade", "open"}
        /\ requests[r].hash \in User!Hash /\ requests[r].call \in 0..MaxCalls
    <2>1. requests[r] \in User!Asking /\ requests[r].at \in {"upgrade", "open"}
      BY <1>0, Knows DEF User!Upgrade, User!Opens, User!At
    <2>. QED
      BY <2>1, Limits DEF User!Asking
  <1>3. PICK y : Goes(r, y) /\ y.at # "write" /\ (User!Opens(r) => y = User!NoRequest)
    <2>1. CASE User!Upgrade(r)
      <3>1. requests[r].at = "upgrade" /\ requests[r].kind = "signin"
        BY <1>0, <2>1, Knows DEF User!Upgrade, User!At, Kinds
      <3>2. User!Go(r, "open") /\ ~User!Opens(r)
        BY <2>1, <3>1 DEF User!Upgrade, User!Opens, User!At
      <3>. QED
        BY <1>0, <3>1, <3>2, GoesOn
    <2>2. CASE User!Opens(r)
      BY <1>0, <2>2, Ends DEF User!Opens, User!NoRequest, User!At
    <2>. QED
      BY <2>1, <2>2
  <1>4. CASE User!Upgrade(r)
    <2>1. /\ hash' \in User!Hash /\ hash'.weak = FALSE /\ opened' = opened
          /\ hash'.password = requests[r].hash.password /\ requests[r].at = "upgrade"
      BY <1>2, <1>4 DEF User!Upgrade, User!Hash, User!At
    <2>2. UserTyped'
      BY <1>0, <1>1, <1>3, <1>4, <2>1, Plain, OfItsKind, Typed DEF User!Upgrade
    <2>3. Counted' /\ KeptApart' /\ Strong' /\ Numbered' /\ NotYet' /\ Links'
      BY <1>0, <1>1, <1>3, <2>1, CountedOn, ApartOn, StrongOn, NumberedOn, NotYetOn, LinksStay
         DEF UserInv
    <2>. QED
      BY <1>4, <2>2, <2>3 DEF UserInv
  <1>5. CASE User!Opens(r)
    <2>1. /\ hash' = hash /\ opened' = opened \cup {requests[r].hash.password}
          /\ requests[r].at = "open"
      BY <1>5 DEF User!Opens, User!record, User!At
    <2>2. clock' = clock /\ opened' \subseteq 0..MaxCalls
      BY <1>0, <1>2, <1>5, <2>1, Plain DEF User!Opens, User!Hash
    <2>3. UserTyped'
      BY <1>0, <1>1, <1>3, <2>1, <2>2, Plain, OfItsKind, Typed
    <2>4. Counted' /\ KeptApart' /\ Strong' /\ Numbered' /\ NotYet' /\ Links'
      BY <1>0, <1>1, <1>3, <1>5, <2>1, CountedOn, ApartOn, StrongOn, NumberedOn, NotYetOn, LinksStay
         DEF UserInv
    <2>. QED
      BY <2>3, <2>4 DEF UserInv
  <1>. QED
    BY <1>4, <1>5

\* Sessions are revoked, before the password that ends them is written.
LEMMA StepRevokes ==
    ASSUME UserInv, NEW r \in Client, User!revokeSessions(r)
    PROVE  UserInv'
  <1>0. UserTyped
    BY DEF UserInv
  <1>1. /\ UNCHANGED <<apart, upgrades, clock, hash, failed, lockedUntil, link, calls, retired,
                       redeemed, proven>>
        /\ opened' = {}
    BY DEF User!revokeSessions, User!settings, User!record, User!histories
  <1>2. PICK y : Goes(r, y)
    BY <1>0, GoesOn DEF User!revokeSessions, User!At
  <1>3. UserTyped'
    BY <1>0, <1>1, <1>2, Plain, OfItsKind, Typed
  <1>4. Counted' /\ KeptApart' /\ Strong' /\ Numbered' /\ NotYet' /\ Links'
    BY <1>0, <1>1, <1>2, CountedOn, ApartOn, StrongOn, NumberedOn, NotYetOn, LinksStay DEF UserInv
  <1>. QED
    BY <1>3, <1>4 DEF UserInv

\* A new password is written.
LEMMA StepWrites ==
    ASSUME UserInv, NEW r \in Client, requests[r].at = "write", User!NewHash(r), User!Over(r),
           UNCHANGED <<apart, upgrades, clock, link, opened, calls, redeemed>>,
           \/ failed' = failed /\ lockedUntil' = lockedUntil
           \/ failed' = 0 /\ lockedUntil' = User!Never,
           proven' = proven \/ proven' = proven \cup {<<requests[r].call, hash.password>>}
    PROVE  UserInv'
  <1>0. UserTyped
    BY DEF UserInv
  <1>1. Goes(r, User!NoRequest)
    BY <1>0, Ends
  <1>2. requests[r].call \in 1..MaxCalls /\ requests[r].call \in 0..MaxCalls /\ r \notin Wrong
    <2>1. requests[r] \in User!Asking
      BY <1>0, Knows
    <2>. QED
      BY <2>1, Limits DEF User!Asking, Wrong
  <1>3. /\ hash' \in User!Hash /\ hash'.weak = FALSE /\ hash'.password = requests[r].call
        /\ retired' = retired \cup {hash.password} /\ hash.password \in 0..MaxCalls
    BY <1>0, <1>2, Plain DEF User!NewHash, User!Hash
  <1>4. UserTyped'
    <2>1. failed' \in 0..MaxCalls /\ lockedUntil' \in {User!Never} \cup 1..(MaxClock + LockTime)
      BY <1>0, Plain, Limits
    <2>2. proven' \subseteq (1..MaxCalls) \X (0..MaxCalls) /\ retired' \subseteq 0..MaxCalls
      BY <1>0, <1>2, <1>3, Plain
    <2>. QED
      BY <1>0, <1>1, <1>3, <2>1, <2>2, Plain, OfItsKind, Typed
  <1>5. Counted' /\ KeptApart' /\ Strong' /\ Numbered' /\ NotYet' /\ Links'
    BY <1>0, <1>1, <1>2, <1>3, CountedOn, ApartOn, StrongOn, NumberedOn, NotYetOn, LinksStay
       DEF UserInv
  <1>. QED
    BY <1>4, <1>5 DEF UserInv

\* A link is consumed, or was before.
LEMMA StepConsumes ==
    ASSUME UserInv, NEW r \in Client, User!consume(r)
    PROVE  UserInv'
  <1>0. UserTyped
    BY DEF UserInv
  <1>1. /\ UNCHANGED <<apart, upgrades, clock, hash, failed, lockedUntil, opened, calls, retired, proven>>
        /\ requests[r].at = "consume"
    BY DEF User!consume, User!settings, User!record, User!At
  <1>2. CASE link.token = requests[r].token /\ clock < link.expires
    <2>1. /\ link' = User!NoLink /\ User!Go(r, "destroy")
          /\ redeemed' = redeemed \cup {<<requests[r].call, link.token>>}
      BY <1>2 DEF User!consume
    <2>2. PICK y : Goes(r, y) /\ y.at = "destroy"
      BY <1>0, <1>1, <2>1, GoesOn
    <2>3. link # User!NoLink
      BY <1>0, <1>2, Plain, Limits DEF User!NoLink
    <2>4. /\ requests[r].call \in 1..MaxCalls /\ link.token \in 0..MaxCalls
          /\ link' \in [token : 0..MaxCalls, expires : 0..(MaxClock + LinkTtl)]
      BY <1>0, <1>1, <2>1, Knows, Plain, Limits DEF User!Asking, User!NoLink
    <2>5. UserTyped'
      BY <1>0, <1>1, <2>1, <2>2, <2>4, Plain, OfItsKind, Typed
    <2>6. Counted' /\ KeptApart' /\ Strong' /\ Numbered' /\ NotYet' /\ Links'
      BY <1>0, <1>1, <2>1, <2>2, <2>3, CountedOn, ApartOn, StrongOn, NumberedOn, NotYetOn, LinksUsed
         DEF UserInv
    <2>. QED
      BY <2>5, <2>6 DEF UserInv
  <1>3. CASE ~(link.token = requests[r].token /\ clock < link.expires)
    <2>1. User!Over(r) /\ link' = link /\ redeemed' = redeemed
      BY <1>3 DEF User!consume
    <2>2. Goes(r, User!NoRequest) /\ User!NoRequest.at # "write"
      BY <1>0, <1>1, <2>1, Ends DEF User!NoRequest
    <2>. QED
      BY <1>1, <2>1, <2>2, StepAlone
  <1>. QED
    BY <1>2, <1>3

\* Links are issued and revoked, and time passes, whatever the requests do.
LEMMA StepAside ==
    ASSUME UserInv, User!issue \/ User!revoke \/ User!Tick
    PROVE  UserInv'
  <1>0. UserTyped
    BY DEF UserInv
  <1>1. UNCHANGED <<apart, upgrades, hash, failed, lockedUntil, opened, requests, retired, redeemed,
                    proven>>
    BY DEF User!issue, User!revoke, User!Tick, User!settings, User!record, User!histories
  <1>2. /\ calls \in Nat /\ calls <= MaxCalls /\ MaxCalls \in Nat /\ clock \in Nat
        /\ clock <= MaxClock /\ MaxClock \in Nat /\ LinkTtl \in Nat
    BY <1>0, Plain, Limits
  <1>3. /\ calls' \in {calls, calls + 1} /\ calls' \in 0..MaxCalls /\ clock' \in 0..MaxClock
    BY <1>2 DEF User!issue, User!revoke, User!Tick
  <1>4. /\ link' = link \/ link' = User!NoLink \/ (link'.token = calls' /\ calls' = calls + 1)
        /\ link' \in [token : 0..MaxCalls, expires : 0..(MaxClock + LinkTtl)]
    <2>1. CASE User!issue
      <3>1. calls' \in 0..MaxCalls /\ clock + LinkTtl \in 0..(MaxClock + LinkTtl)
        BY <1>2, <1>3
      <3>. QED
        BY <2>1, <3>1 DEF User!issue
    <2>2. CASE User!revoke
      BY <1>2, <2>2 DEF User!revoke, User!NoLink
    <2>3. CASE User!Tick
      BY <1>0, <2>3, Plain DEF User!Tick
    <2>. QED
      BY <2>1, <2>2, <2>3
  <1>5. UserTyped'
    <2>1. /\ requests' \in [Client -> {User!NoRequest} \cup User!Asking]
          /\ \A s \in Client : Kinds(requests'[s])
      BY <1>0, <1>1 DEF UserTyped, User!PasswordsTyped
    <2>. QED
      BY <1>0, <1>1, <1>3, <1>4, <2>1, Plain, Typed
  <1>6. Counted'
    <2>1. Wrong' = Wrong /\ Few' = Few
      BY <1>1 DEF Wrong, Few
    <2>2. /\ Cardinality(Wrong) \in Nat /\ failed \in Nat
      BY <1>0, Attempts, Plain DEF Wrong
    <2>3. failed + Cardinality(Wrong) <= calls
      BY DEF UserInv, Counted
    <2>4. failed + Cardinality(Wrong) <= calls'
      BY <1>2, <1>3, <2>2, <2>3
    <2>. QED
      BY <1>1, <2>1, <2>4 DEF UserInv, Counted, User!Never
  <1>7. KeptApart' /\ Strong'
    BY <1>1 DEF UserInv, KeptApart, Strong, Signing, Sets
  <1>8. Numbered'
    <2>1. \A p \in Nat : p <= calls => p <= calls'
      BY <1>2, <1>3
    <2>2. hash.password \in Nat /\ retired \subseteq Nat
      BY <1>0, Plain DEF User!Hash
    <2>3. \A s \in Client : requests[s].at # "idle" => requests[s].call \in Nat
                                                         /\ requests[s].hash.password \in Nat
      BY <1>0, Knows, Limits DEF User!Asking, User!Hash
    <2>. QED
      BY <1>1, <2>1, <2>2, <2>3 DEF UserInv, Numbered
  <1>9. NotYet'
    BY <1>1 DEF UserInv, NotYet, Sets, Signing
  <1>10. Links'
    BY <1>0, <1>1, <1>3, <1>4, LinksStay DEF UserInv
  <1>. QED
    BY <1>5, <1>6, <1>7, <1>8, <1>9, <1>10 DEF UserInv

\* The first state.
LEMMA UserStarts == ASSUME User!PasswordsInit PROVE UserInv
  <1>1. UserTyped
    BY Limits DEF User!PasswordsInit, UserTyped, User!PasswordsTyped, User!settings, User!NoLink,
       User!NoRequest, User!Hash, Kinds
  <1>2. Counted
    <2>1. Wrong = {} /\ Few = {}
      BY DEF User!PasswordsInit, User!NoRequest, Wrong, Few
    <2>2. Cardinality(Wrong) = 0 /\ Cardinality(Few) = 0
      BY <2>1, FS_EmptySet
    <2>. QED
      BY <2>2, Limits DEF User!PasswordsInit, Counted
  <1>3. KeptApart /\ Strong /\ Numbered /\ NotYet /\ Links
    BY DEF User!PasswordsInit, User!NoRequest, User!NoLink, KeptApart, Strong, Numbered, NotYet,
       Links, Sets, Signing
  <1>. QED
    BY <1>1, <1>2, <1>3 DEF UserInv

\* Every step.
LEMMA UserStep == ASSUME UserInv, User!PasswordsNext PROVE UserInv'
  <1>0. UserTyped
    BY DEF UserInv
  <1>1. CASE User!issue \/ User!revoke \/ User!Tick
    BY <1>1, StepAside
  <1>2. ASSUME NEW r \in Client, User!authenticate(r) \/ User!changePassword(r) PROVE UserInv'
    BY <1>2, StepComes, Limits DEF User!authenticate, User!changePassword
  <1>3. ASSUME NEW r \in Client, User!redeem(r) PROVE UserInv'
    <2>1. link.token \in 0..MaxCalls
      BY <1>0, Plain
    <2>. QED
      BY <1>3, <2>1, StepComes DEF User!redeem
  <1>4. ASSUME NEW r \in Client, User!AttemptFails(r) \/ User!Matches(r) PROVE UserInv'
    BY <1>4, StepAttempt
  <1>5. ASSUME NEW r \in Client, User!Upgrade(r) \/ User!Opens(r) PROVE UserInv'
    BY <1>5, StepSignsIn
  <1>6. ASSUME NEW r \in Client, User!consume(r) PROVE UserInv'
    BY <1>6, StepConsumes
  <1>7. ASSUME NEW r \in Client, User!revokeSessions(r) PROVE UserInv'
    BY <1>7, StepRevokes
  <1>8. ASSUME NEW r \in Client, User!replacePasswordHash(r) PROVE UserInv'
    <2>1. /\ requests[r].at = "write" /\ User!Over(r)
          /\ UNCHANGED <<apart, upgrades, clock, link, opened, calls, redeemed>>
      BY <1>8 DEF User!replacePasswordHash, User!settings, User!At
    <2>2. CASE hash = requests[r].hash
      BY <1>8, <2>1, <2>2, StepWrites DEF User!replacePasswordHash
    <2>3. CASE hash # requests[r].hash
      <3>1. UNCHANGED <<hash, failed, lockedUntil, retired, proven>>
        BY <1>8, <2>3 DEF User!replacePasswordHash, User!record
      <3>2. Goes(r, User!NoRequest) /\ User!NoRequest.at # "write"
        BY <1>0, <2>1, Ends DEF User!NoRequest
      <3>. QED
        BY <2>1, <3>1, <3>2, StepAlone
    <2>. QED
      BY <2>2, <2>3
  <1>9. ASSUME NEW r \in Client, User!updatePasswordHash(r) PROVE UserInv'
    BY <1>9, StepWrites DEF User!updatePasswordHash, User!settings, User!At
  <1>10. ASSUME NEW r \in Client, User!Fails(r) PROVE UserInv'
    <2>1. /\ UNCHANGED <<apart, upgrades, clock, hash, failed, lockedUntil, link, opened, calls,
                         retired, redeemed, proven>>
          /\ requests[r].at # "idle" /\ User!Over(r)
      BY <1>10 DEF User!Fails, User!settings, User!record, User!histories, User!At
    <2>2. Goes(r, User!NoRequest) /\ User!NoRequest.at # "write"
      BY <1>0, <2>1, Ends DEF User!NoRequest
    <2>. QED
      BY <2>1, <2>2, StepAlone
  <1>. QED
    BY <1>1, <1>2, <1>3, <1>4, <1>5, <1>6, <1>7, <1>8, <1>9, <1>10 DEF User!PasswordsNext

\* What the module promises.
LEMMA UserPromises == ASSUME UserInv PROVE User!PasswordsTyped /\ PasswordsAgree
  <1>1. \A S : User!Cardinality(S) = Cardinality(S)
    BY DEF User!Cardinality, Cardinality
  <1>2. User!LockComes
    <2>1. /\ lockedUntil = User!Never => failed + Cardinality(Few) <= Threshold + Cardinality(Client) - 2
          /\ failed \in Nat
      BY Plain DEF UserInv, Counted
    <2>2. Cardinality(Few) \in Nat /\ Threshold \in Nat /\ Cardinality(Client) \in Nat
      BY Attempts, Limits DEF Few, Wrong
    <2>3. lockedUntil = User!Never => failed <= Threshold + Cardinality(Client) - 2
      BY <2>1, <2>2
    <2>. QED
      BY <1>1, <2>3 DEF User!LockComes
  <1>3. User!SessionsAreCurrent /\ User!ReplacedForGood /\ User!OneWins
    BY DEF UserInv, KeptApart, NotYet, Links, User!SessionsAreCurrent, User!ReplacedForGood,
       User!OneWins
  <1>. QED
    BY <1>2, <1>3 DEF UserInv, UserTyped, PasswordsAgree

----------------------------------------------------------------------------
\* Server sessions together: a step is one of a component, or leaves it as it is.

together == <<part, vars, indexing, passwords>>
SessionsInv == IndexInv /\ EngineInv /\ UserInv

\* What a step is to each component.
LEMMA StepOfParts ==
    ASSUME [PartsNext]_together
    PROVE  /\ [Next]_vars /\ [Index!Next]_(Index!vars)
           /\ [User!PasswordsNext]_(User!passwordVars)
  <1> USE DEF together, indexing, passwords, Index!vars, User!passwordVars, User!settings,
              User!record, User!histories
  <1>1. CASE EngineNext
    <2>1. UNCHANGED <<indexing, passwords>>
      BY <1>1 DEF EngineNext, OfEngine
    <2>2. Next
      BY <1>1 DEF EngineNext, OfEngine, Next, Step
    <2>. QED
      BY <2>1, <2>2
  <1>2. CASE IndexNext
    <2>1. UNCHANGED <<vars, passwords>>
      BY <1>2 DEF IndexNext, OfIndex
    <2>2. Index!Next
      BY <1>2 DEF IndexNext, OfIndex, Index!Next, Index!Writing, Index!Destroying, Index!SigningOut
    <2>. QED
      BY <2>1, <2>2
  <1>3. CASE PasswordsNext
    <2>1. UNCHANGED <<vars, indexing>>
      BY <1>3 DEF PasswordsNext, OfPasswords
    <2>2. User!PasswordsNext
      BY <1>3 DEF PasswordsNext, OfPasswords, User!PasswordsNext
    <2>. QED
      BY <2>1, <2>2
  <1>4. CASE UNCHANGED together
    BY <1>4
  <1>. QED
    BY <1>1, <1>2, <1>3, <1>4 DEF PartsNext

\* A step that leaves passwords as they are keeps their invariant.
LEMMA UserRests == ASSUME UserInv, UNCHANGED User!passwordVars PROVE UserInv'
  <1>1. UNCHANGED <<apart, upgrades, clock, hash, failed, lockedUntil, link, opened, requests, calls,
                    retired, redeemed, proven>>
    BY DEF User!passwordVars, User!settings, User!record, User!histories
  <1>2. UserTyped'
    BY <1>1 DEF UserInv, UserTyped, User!PasswordsTyped, User!settings
  <1>3. Counted'
    <2>1. Wrong' = Wrong /\ Few' = Few
      BY <1>1 DEF Wrong, Few
    <2>. QED
      BY <1>1, <2>1 DEF UserInv, Counted, User!Never
  <1>4. KeptApart' /\ Strong' /\ Numbered' /\ NotYet' /\ Links'
    BY <1>1 DEF UserInv, KeptApart, Strong, Numbered, NotYet, Links, Sets, Signing
  <1>. QED
    BY <1>2, <1>3, <1>4 DEF UserInv

\* The invariants of the components hold of server sessions together.
LEMMA SessionsInvariant == PartsSpec => []SessionsInv
  <1>1. PartsInit => SessionsInv
    BY IndexStarts, EngineStarts, UserStarts DEF PartsInit, SessionsInv
  <1>2. SessionsInv /\ [PartsNext]_together => SessionsInv'
    <2> SUFFICES ASSUME SessionsInv, [PartsNext]_together PROVE SessionsInv'
      OBVIOUS
    <2>1. IndexInv'
      BY StepOfParts, IndexTypes, IndexedStep DEF SessionsInv, IndexInv
    <2>2. EngineInv'
      BY StepOfParts, EngineStep DEF SessionsInv
    <2>3. UserInv'
      BY StepOfParts, UserStep, UserRests DEF SessionsInv
    <2>. QED
      BY <2>1, <2>2, <2>3 DEF SessionsInv
  <1>. QED
    BY <1>1, <1>2, PTL DEF PartsSpec, together

\* Whatever sign-ins, requests, sign-outs, faults and removals do, every variable of the
\* session engine, of the index of sessions and of the passwords keeps its type.
THEOREM SessionsAreTyped == PartsSpec => []AllTyped
  <1>1. SessionsInv => AllTyped
    BY UserPromises DEF SessionsInv, IndexInv, EngineInv, EngineTyped, AllTyped
  <1>. QED
    BY <1>1, SessionsInvariant, PTL

\* For every lifetime, overlap and number of requests: no session is read after the ceiling
\* its sign-in set, or after it was idle for too long, whichever records renewals and
\* rotations that overlap write back; and no holder of a token is signed out by them.
THEOREM LifetimesAreKept == PartsSpec => []LifetimesHold
  <1>1. SessionsInv => LifetimesHold
    BY EnginePromises DEF SessionsInv
  <1>. QED
    BY <1>1, SessionsInvariant, PTL

\* For every number of requests, links and attempts: sessions there are were opened with the
\* password there is, a password that was replaced does not come back, one change and one
\* redemption win, and the lock is late by no more attempts than overlap.
THEOREM PasswordsAreKept == PartsSpec => []PasswordsAgree
  <1>1. SessionsInv => PasswordsAgree
    BY UserPromises DEF SessionsInv
  <1>. QED
    BY <1>1, SessionsInvariant, PTL

\* However calls overlap and fail, for every lifetime: when destroyForSubject() is over, a
\* session that is left and has time before its ceiling is one whose write() failed, or came
\* between the read of the index by some call and its writing back.
THEOREM SignedOutEverywhere == PartsSpec => SignOutIsTotal
  <1>1. SessionsInv /\ [PartsNext]_together
           => [\A r \in Caller : Index!SignOutEnds(r) => Index!Live \subseteq loose']_(Index!vars)
    BY SignOutLeavesLoose DEF SessionsInv
  <1>. QED
    BY <1>1, SessionsInvariant, PTL DEF PartsSpec, together, SignOutIsTotal, Index!SignOutIsTotal
=============================================================================
