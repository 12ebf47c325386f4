----------------------------- MODULE AuthSessions -----------------------------
(***************************************************************************)
(* Stateful sessions: packages/auth/src/server/session-engine.ts over the   *)
(* SessionStore of contract.ts, whose operations are atomic here.           *)
(*                                                                         *)
(* A request reads the clock when it comes in and goes to the store at each *)
(* await; between two awaits other requests run.  The record written back   *)
(* is always the whole record read before.  Claims are left out: they never *)
(* change which record is written.                                          *)
(***************************************************************************)
EXTENDS Integers, FiniteSets

CONSTANTS
    Req,          \* requests under way at a time
    MaxId,        \* bound on sessions
    MaxTime,      \* bound on the clock
    MaxFaults,    \* bound on failed writes
    IdleTtl, AbsoluteTtl, Overlap, RenewAfter

ASSUME SessionsAssumption ==
    /\ MaxId \in Nat \ {0} /\ MaxTime \in Nat /\ MaxFaults \in Nat
    /\ IdleTtl \in Nat \ {0} /\ AbsoluteTtl \in Nat \ {0} /\ IdleTtl <= AbsoluteTtl
    /\ Overlap \in Nat /\ RenewAfter \in Nat

VARIABLES
    now,
    store,       \* the record of each session
    given,       \* tokens clients have: session and signed expiry
    req,         \* the requests under way
    minted, faults,
    born, used,  \* of each session: sign-in, last use
    destroyed, cut         \* sessions signed out; whose rotation failed half-way

record == <<store, given, minted>>
history == <<born, used, destroyed, cut>>
vars == <<now, record, req, faults, history>>

Id == 1..MaxId
Time == 0..MaxTime
Never == -1
Far == 0..(MaxTime + AbsoluteTtl + Overlap)
Gone == [seen |-> Never, expires |-> Never, until |-> Never, next |-> 0]
Record == [seen : Time, expires : Far, until : {Never} \cup Far, next : {0} \cup Id]
Fresh(expires) == [seen |-> now, expires |-> expires, until |-> Never, next |-> 0]
Steps == {"idle", "read", "follow", "touch", "reread", "mark", "issue"}

\* A request: its token's session, the session it works with and that one's record.
Resting == [step |-> "idle", rotates |-> FALSE, at |-> 0, id |-> 1,
            rec |-> Gone, next |-> 0, expires |-> 0]

Init ==
    /\ now = 0 /\ store = [i \in Id |-> Gone] /\ given = {} /\ minted = 0
    /\ req = [q \in Req |-> Resting] /\ faults = 0
    /\ born = [i \in Id |-> 0] /\ used = [i \in Id |-> 0]
    /\ destroyed = {} /\ cut = {}

Tick == now < MaxTime /\ now' = now + 1 /\ UNCHANGED <<record, req, faults, history>>

Token(i, rec) == [id |-> i, expires |-> rec.expires]
Put(i, rec) == store' = [store EXCEPT ![i] = rec]
Becomes(q, r) == req' = [req EXCEPT ![q] = r]

\* issue(): a sign-in.
SignIn ==
    /\ minted < MaxId /\ minted' = minted + 1
    /\ LET rec == Fresh(now + AbsoluteTtl)
       IN  Put(minted', rec) /\ given' = given \cup {Token(minted', rec)}
    /\ born' = [born EXCEPT ![minted'] = now] /\ used' = [used EXCEPT ![minted'] = now]
    /\ UNCHANGED <<now, req, faults, destroyed, cut>>

\* read(), or rotate(), which starts by reading: a token that has expired by its own
\* account is refused at once.
Ask(q) ==
    /\ req[q].step = "idle"
    /\ \E t \in given, rotates \in BOOLEAN :
          /\ now < t.expires
          /\ rotates => minted < MaxId
          /\ Becomes(q, [Resting EXCEPT !.step = "read", !.rotates = rotates, !.at = now,
                                        !.id = t.id])
    /\ UNCHANGED <<now, record, faults, history>>

Reading(q) == req[q].step \in {"read", "follow"}

\* Mutation: any use of a session counts from its sign-in.
VerdictByAge(q) ==
    LET r == req[q]  rec == store[r.id]
    IN  IF rec = Gone THEN IF r.step = "read" THEN "missing" ELSE "dangling"
        ELSE IF r.step = "read" /\ rec.until # Never
             THEN IF r.at > rec.until THEN "retired" ELSE "successor"
        ELSE IF r.at >= rec.expires THEN "expired"
        ELSE "served"

\* What read() makes of the record it gets; a superseded session leads to its
\* successor, whose own successor is not looked for.
Verdict(q) ==
    LET r == req[q]  rec == store[r.id]
    IN  IF rec = Gone THEN IF r.step = "read" THEN "missing" ELSE "dangling"
        ELSE IF r.step = "read" /\ rec.until # Never
             THEN IF r.at > rec.until THEN "retired" ELSE "successor"
        ELSE IF r.at >= rec.expires THEN "expired"
        ELSE IF r.at - rec.seen > IdleTtl THEN "unused"
        ELSE "served"

\* What follows a successful read.
Onward(r) == IF r.rotates THEN [r EXCEPT !.step = "reread"] ELSE Resting

Seen(q) ==
    LET r == req[q]  rec == store[r.id]  known == [r EXCEPT !.rec = [rec EXCEPT !.seen = r.at]]
    IN  IF r.at - rec.seen >= RenewAfter THEN [known EXCEPT !.step = "touch"] ELSE Onward(known)

Serve(q) ==
    /\ Verdict(q) = "served"
    /\ Becomes(q, Seen(q))
    /\ used' = [used EXCEPT ![req[q].id] = IF @ < req[q].at THEN req[q].at ELSE @]

Refuse(q) ==
    /\ Verdict(q) \notin {"served", "successor"}
    /\ Becomes(q, Resting)
    /\ UNCHANGED used

Read(q) ==
    /\ req[q].step = "read"
    /\ \/ Serve(q)
       \/ Refuse(q)
       \/ /\ Verdict(q) = "successor"
          /\ Becomes(q, [req[q] EXCEPT !.step = "follow", !.id = store[req[q].id].next])
          /\ UNCHANGED used
    /\ UNCHANGED <<now, record, faults, born, destroyed, cut>>

\* A superseded token within its overlap: the client gets the successor's token.
Follow(q) ==
    /\ req[q].step = "follow"
    /\ \/ Serve(q) /\ given' = given \cup {Token(req[q].id, store[req[q].id])}
       \/ Refuse(q) /\ UNCHANGED given
    /\ UNCHANGED <<now, store, minted, faults, born, destroyed, cut>>

\* A write the store refuses.
Fault == faults < MaxFaults /\ faults' = faults + 1

\* The idle window slides: the record as it was read, seen now.
Touch(q) ==
    /\ req[q].step = "touch"
    /\ \/ Put(req[q].id, req[q].rec) /\ UNCHANGED faults
       \/ Fault /\ UNCHANGED store
    /\ Becomes(q, Onward(req[q]))
    /\ UNCHANGED <<now, given, minted, history>>

----------------------------------------------------------------------------
\* rotate(): a new identifier, and the predecessor as it is by now.
Reread(q) ==
    /\ req[q].step = "reread"
    /\ minted < MaxId /\ minted' = minted + 1
    /\ LET pred == store[req[q].id]
       IN  Becomes(q, [req[q] EXCEPT !.step = IF pred = Gone THEN "issue" ELSE "mark",
                                     !.at = now, !.next = minted', !.expires = req[q].rec.expires,
                                     !.rec = pred])
    /\ UNCHANGED <<now, store, given, faults, history>>

\* Mutation: the predecessor goes at once.
MarkGone(q) ==
    /\ req[q].step = "mark"
    /\ Put(req[q].id, Gone)
    /\ Becomes(q, [req[q] EXCEPT !.step = "issue"])
    /\ UNCHANGED <<now, given, minted, faults, history>>

\* The predecessor is superseded, for the overlap.
Mark(q) ==
    /\ req[q].step = "mark"
    /\ LET r == req[q]
       IN  \/ /\ Put(r.id, [r.rec EXCEPT !.until = r.at + Overlap, !.next = r.next])
              /\ Becomes(q, [r EXCEPT !.step = "issue"])
              /\ UNCHANGED faults
           \/ Fault /\ Becomes(q, Resting) /\ UNCHANGED store
    /\ UNCHANGED <<now, given, minted, born, used, destroyed, cut>>

\* Mutation: a rotation starts the absolute lifetime again.
IssueAnew(q) ==
    /\ req[q].step = "issue"
    /\ LET r == req[q]  rec == [Fresh(r.at + AbsoluteTtl) EXCEPT !.seen = r.at]
       IN  Put(r.next, rec) /\ given' = given \cup {Token(r.next, rec)}
           /\ born' = [born EXCEPT ![r.next] = born[r.id]] /\ used' = [used EXCEPT ![r.next] = r.at]
    /\ Becomes(q, Resting)
    /\ UNCHANGED <<now, minted, faults, destroyed, cut>>

\* issueFrom(): the successor is written and its token given out.
Issue(q) ==
    /\ req[q].step = "issue"
    /\ LET r == req[q]  rec == [Fresh(r.expires) EXCEPT !.seen = r.at]
       IN  \/ /\ Put(r.next, rec) /\ given' = given \cup {Token(r.next, rec)}
              /\ born' = [born EXCEPT ![r.next] = born[r.id]]
              /\ used' = [used EXCEPT ![r.next] = r.at]
              /\ UNCHANGED <<faults, cut>>
           \/ Fault /\ cut' = cut \cup {r.id} /\ UNCHANGED <<store, given, born, used>>
    /\ Becomes(q, Resting)
    /\ UNCHANGED <<now, minted, destroyed>>

\* destroy(), and destroyForSubject(): everyone here is one user.
Destroy ==
    /\ \E out \in {{t.id} : t \in given} \cup {{i \in Id : store[i] # Gone}} :
          /\ ~(out \subseteq destroyed)
          /\ store' = [i \in Id |-> IF i \in out THEN Gone ELSE store[i]]
          /\ destroyed' = destroyed \cup out
    /\ UNCHANGED <<now, given, minted, req, faults, born, used, cut>>

Step(q) == Ask(q) \/ Read(q) \/ Follow(q) \/ Touch(q) \/ Reread(q) \/ Mark(q) \/ Issue(q)

Next == Tick \/ SignIn \/ Destroy \/ \E q \in Req : Step(q)

Spec == Init /\ [][Next]_vars

----------------------------------------------------------------------------
Request == [step : Steps, rotates : BOOLEAN, at : Time, id : Id,
            rec : Record \cup {Gone}, next : {0} \cup Id, expires : {0} \cup Far]

\* Every variable keeps its type.
TypeOK ==
    /\ now \in Time /\ store \in [Id -> Record \cup {Gone}]
    /\ given \subseteq [id : Id, expires : Far]
    /\ req \in [Req -> Request]
    /\ minted \in 0..MaxId /\ faults \in 0..MaxFaults
    /\ born \in [Id -> Time] /\ used \in [Id -> Time]
    /\ destroyed \subseteq Id /\ cut \subseteq Id

\* The absolute lifetime is counted from the sign-in and no use, renewal or rotation
\* extends it.
CeilingHolds ==
    \A q \in Req : Reading(q) /\ Verdict(q) = "served" => req[q].at < born[req[q].id] + AbsoluteTtl

\* How long the session has gone without use when the request comes in.
Unused(q) == req[q].at - used[req[q].id]

\* A session nobody has used for longer than the idle window is not served, however
\* its renewals and its requests overlap.
IdleHolds == \A q \in Req : Reading(q) /\ Verdict(q) = "served" => Unused(q) <= IdleTtl

Arriving(i) == \E q \in Req : req[q].step = "issue" /\ req[q].next = i

\* Rotations that race leave no client with a token that leads nowhere, unless somebody
\* signed out or the store refused the successor.
NobodyLost ==
    destroyed = {} =>
      \A t \in given : t.id \notin cut =>
        /\ store[t.id] # Gone
        /\ LET next == store[t.id].next
           IN  next # 0 => store[next] # Gone \/ Arriving(next)

\* Test: "rejects a destroyed session immediately" (session-engine.test.ts:262).
DestroyedStaysDead == \A i \in destroyed : store[i] = Gone

=============================================================================
