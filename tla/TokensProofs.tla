----------------------------- MODULE TokensProofs -----------------------------
(***************************************************************************)
(* What holds of the server's replicas for every number of processes,        *)
(* grants, flows, callbacks and keys: the lock of a session store, token     *)
(* refreshing, signing in and the signing keys.                              *)
(***************************************************************************)
EXTENDS MCTokens, TLAPS

----------------------------------------------------------------------------
\* The store's lock is the lease it promises, but for handles given between the two calls of
\* another process: for any number of processes and deaths, any time to live, and a driver
\* that drops what is over or keeps it.

\* Who may act owns the record, and whoever is about to write without having seen that will
\* rob it.
RecordSays ==
    /\ \A p \in Process : token = p /\ at[p] \in {"confirm", "hold", "delete"} => left = lease[p]
    /\ \A p \in Holders : token = p
    /\ \A q \in Process :
          /\ at[q] = "set" => Holders \subseteq given[q]
          /\ at[q] = "delete" => Holders \ {q} \subseteq given[q]

LockInv == TypeOK /\ RecordSays

\* At first nobody has asked for the lock.
LEMMA LockInit == Init => LockInv
  BY LockAssumption DEF Init, LockInv, RecordSays, TypeOK, Holders, InTime, Calls

\* Time left never grows, and ends at zero.
LEMMA LessWorks ==
    \A n \in 0..Ttl : Less(n) \in 0..Ttl /\ Less(n) = IF n = 0 THEN 0 ELSE n - 1
  BY LockAssumption DEF Less

\* Every action keeps every variable in its type.
LEMMA TypeStep == ASSUME TypeOK, [Next]_vars PROVE TypeOK'
  <1> USE LockAssumption DEF TypeOK, Calls, Go, Ends
  <1>1. CASE UNCHANGED vars
    BY <1>1 DEF vars
  <1>2. CASE Tick
    BY <1>2, LessWorks DEF Tick, Honoured
  <1>3. ASSUME NEW p \in Process, Look(p) PROVE TypeOK'
    BY <1>3 DEF Look
  <1>4. ASSUME NEW p \in Process, Set(p) PROVE TypeOK'
    BY <1>4 DEF Set, Overtakes
  <1>5. ASSUME NEW p \in Process, Confirm(p) PROVE TypeOK'
    BY <1>5 DEF Confirm, Passes
  <1>6. ASSUME NEW p \in Process, Release(p) PROVE TypeOK'
    BY <1>6 DEF Release
  <1>7. ASSUME NEW p \in Process, Delete(p) PROVE TypeOK'
    BY <1>7 DEF Delete, Overtakes
  <1>8. ASSUME NEW p \in Process, Crash(p) PROVE TypeOK'
    BY <1>8 DEF Crash
  <1>9. QED
    BY <1>1, <1>2, <1>3, <1>4, <1>5, <1>6, <1>7, <1>8 DEF Next, Attempt, Finish

\* Whoever reads that the record is free, or its own, reads that nobody else may act.
LEMMA FreeIsFree ==
    ASSUME LockInv
    PROVE  /\ Free => Holders = {}
           /\ \A p \in Process : token = p => Holders \subseteq {p}
  BY LockAssumption DEF LockInv, RecordSays, TypeOK, Free, Holders, InTime

\* Whatever is written robs everyone who may act, but the one who wrote it.
LEMMA WritesRob ==
    ASSUME LockInv, NEW p \in Process, Set(p) \/ Delete(p)
    PROVE  Holders' = {} /\ \A q \in Process \ {p} : at'[q] = at[q] /\ lease'[q] = lease[q]
  <1> USE DEF LockInv, RecordSays, TypeOK, Go, Ends, Overtakes
  <1>1. Holders \ {p} \subseteq given[p]
    BY DEF Set, Delete
  <1>2. at'[p] \notin {"hold", "delete"} /\ robbed' = (robbed \cup given[p]) \ {p}
    BY DEF Set, Delete
  <1>3. \A q \in Process \ {p} : at'[q] = at[q] /\ lease'[q] = lease[q]
    BY DEF Set, Delete
  <1>. QED
    BY <1>1, <1>2, <1>3 DEF Holders, InTime

\* As time passes those who may act become fewer, and the one who owns the record is not
\* among them for longer than its record.
LEMMA TimePasses ==
    ASSUME LockInv, Tick
    PROVE  /\ Holders' \subseteq Holders
           /\ \A p \in Process : lease'[p] = Less(lease[p])
           /\ left' = Less(left) /\ at' = at /\ given' = given
           /\ token' = token \/ (token' = None /\ left' = 0)
  BY LessWorks DEF LockInv, TypeOK, Tick, Holders, InTime

\* Every action keeps the record telling the truth, one step per action.
LEMMA RecordStep == ASSUME LockInv, [Next]_vars PROVE RecordSays'
  <1> USE LockAssumption DEF LockInv, RecordSays, TypeOK, Calls, Go, Ends
  <1>1. CASE UNCHANGED vars
    BY <1>1 DEF vars, Holders, InTime
  <1>2. CASE Tick
    <2>1. \A p \in Process : token' = p => token = p
      BY <1>2, TimePasses
    <2>2. ASSUME NEW p \in Holders' PROVE token' = p
      <3>1. p \in Holders /\ lease'[p] > 0
        BY <1>2, TimePasses DEF Holders, InTime
      <3>2. left = lease[p] /\ token = p
        BY <3>1 DEF Holders, InTime
      <3>. QED
        BY <1>2, <3>1, <3>2, TimePasses DEF Holders, InTime
    <2>. QED
      BY <1>2, <2>1, <2>2, TimePasses
  <1>3. ASSUME NEW p \in Process, Look(p) PROVE RecordSays'
    <2>1. Holders = {} /\ Holders' = {}
      BY <1>3, FreeIsFree DEF Look, Holders, InTime
    <2>. QED
      BY <1>3, <2>1 DEF Look
  <1>4. ASSUME NEW p \in Process, Set(p) PROVE RecordSays'
    BY <1>4, WritesRob DEF Set
  <1>5. ASSUME NEW p \in Process, Confirm(p) PROVE RecordSays'
    <2>1. CASE token = p
      <3>1. Holders' \subseteq {p}
        BY <1>5, <2>1, FreeIsFree DEF Confirm, Holders, InTime
      <3>2. \A q \in Process \ {p} : at'[q] = at[q]
        BY <1>5, <2>1 DEF Confirm
      <3>3. at'[p] = "hold" /\ token' = token /\ left' = left /\ lease' = lease
        BY <1>5, <2>1 DEF Confirm
      <3>4. \A q \in Process \ {p} : at'[q] \in {"set", "delete"} => p \in given'[q]
        <4>1. Passes(p)
          BY <1>5, <2>1 DEF Confirm
        <4>2. ASSUME NEW q \in Process, at[q] \in {"set", "delete"} PROVE given'[q] = given[q] \cup {p}
          BY <4>1, <4>2 DEF Passes
        <4>. QED
          BY <3>2, <4>2
      <3>5. left = lease[p]
        BY <1>5, <2>1 DEF Confirm
      <3>. QED
        BY <2>1, <3>1, <3>2, <3>3, <3>4, <3>5
    <2>2. CASE token # p
      <3>1. Holders' = Holders
        BY <1>5, <2>2 DEF Confirm, Holders, InTime
      <3>. QED
        BY <1>5, <2>2, <3>1 DEF Confirm
    <2>. QED
      BY <2>1, <2>2
  <1>6. ASSUME NEW p \in Process, Release(p) PROVE RecordSays'
    <2>1. Holders' \subseteq Holders
      BY <1>6 DEF Release, Holders, InTime
    <2>. QED
      BY <1>6, <2>1, FreeIsFree DEF Release
  <1>7. ASSUME NEW p \in Process, Delete(p) PROVE RecordSays'
    BY <1>7, WritesRob DEF Delete
  <1>8. ASSUME NEW p \in Process, Crash(p) PROVE RecordSays'
    <2>1. Holders' \subseteq Holders
      BY <1>8 DEF Crash, Holders, InTime
    <2>. QED
      BY <1>8, <2>1 DEF Crash
  <1>9. QED
    BY <1>1, <1>2, <1>3, <1>4, <1>5, <1>6, <1>7, <1>8 DEF Next, Attempt, Finish

\* So every step keeps both.
LEMMA LockInvStep == LockInv /\ [Next]_vars => LockInv'
  BY TypeStep, RecordStep DEF LockInv

\* So they hold in every reachable state of the store.
LEMMA LockInvariant == Spec => []LockInv
  BY LockInvStep, LockInit, PTL DEF Spec

\* However attempts and releases overlap, and whatever time and deaths come between their
\* calls: of two handles within their time one was given between the read and the write of
\* another process.
THEOREM AtMostOneHolder == Spec => []Exclusive
  <1>1. LockInv => Exclusive
    BY DEF LockInv, RecordSays, Exclusive
  <1>2. QED
    BY <1>1, LockInvariant, PTL

\* A step gives the lock to one process, takes it from its holder or leaves it.
LEMMA StepIsLease == ASSUME LockInv, [Next]_vars PROVE [Promise!Next]_Holders
  <1> DEFINE Held == Holders
  <1>0. \A p, q \in Held : p = q /\ p \in Process
    BY DEF LockInv, RecordSays, Holders, InTime
  <1>g. ASSUME NEW p \in Process, Held = {}, Holders' \subseteq {p} PROVE [Promise!Next]_Holders
    BY <1>g DEF Promise!Next, Promise!Grant
  <1>h. ASSUME Holders' = {} \/ Holders' = Held PROVE [Promise!Next]_Holders
    <2>1. ASSUME NEW p \in Held, Holders' = {} PROVE Promise!Next
      BY <1>0, <2>1 DEF Promise!Next, Promise!Give
    <2>. QED
      BY <1>h, <2>1
  <1>s. ASSUME Holders' \subseteq Held PROVE [Promise!Next]_Holders
    <2>1. Holders' = {} \/ Holders' = Held
      BY <1>0, <1>s
    <2>. QED
      BY <1>h, <2>1
  <1> USE DEF LockInv, TypeOK, Calls, Go, Ends
  <1>1. CASE UNCHANGED vars
    BY <1>1 DEF vars, Holders, InTime
  <1>2. CASE Tick
    BY <1>2, <1>s, TimePasses
  <1>3. ASSUME NEW p \in Process, Look(p) PROVE Holders' = Held
    BY <1>3 DEF Look, Holders, InTime
  <1>4. ASSUME NEW p \in Process, Set(p) \/ Delete(p) PROVE [Promise!Next]_Holders
    BY <1>4, <1>h, WritesRob
  <1>5. ASSUME NEW p \in Process, Confirm(p) PROVE [Promise!Next]_Holders
    <2>1. CASE token = p
      <3>1. Held = {} /\ Holders' \subseteq {p}
        BY <1>5, <2>1, FreeIsFree DEF Confirm, Holders, InTime
      <3>. QED
        BY <3>1, <1>g
    <2>2. CASE token # p
      BY <1>5, <1>h, <2>2 DEF Confirm, Holders, InTime
    <2>3. QED
      BY <2>1, <2>2
  <1>6. ASSUME NEW p \in Process, Release(p) PROVE Holders' \subseteq Held
    BY <1>6 DEF Release, Holders, InTime
  <1>8. ASSUME NEW p \in Process, Crash(p) PROVE Holders' \subseteq Held
    BY <1>8 DEF Crash, Holders, InTime
  <1>9. QED
    BY <1>1, <1>2, <1>3, <1>4, <1>5, <1>6, <1>8, <1>s DEF Next, Attempt, Finish

\* At first nobody has the lease.
LEMMA LeaseStarts == Init => Promise!Init
  BY DEF Init, Promise!Init, Holders, InTime

\* However attempts overlap, the lock implements the lease SessionStore promises, given up
\* where another process writes what it decided before the lock was given.
THEOREM LockIsLease == Spec => PromiseKept
  BY LeaseStarts, StepIsLease, LockInvariant, PTL DEF Spec, PromiseKept, Promise!Spec

----------------------------------------------------------------------------
\* Token refresh.

\* Between Recheck and Release a replica has the lock, if exchanges are prompt.
Critical == {"recheck", "exchange", "accepted", "condemn", "delete", "release"}
LockedOut == ~slow => \A r \in Replica : pc[r] \in Critical => lock = r /\ ~lapsed

\* The record an attempt works with is one of an earlier sign-in.
Known(rec) == rec # Tokens!Nothing => rec.family <= grants
KnownRecords ==
    /\ Known(record)
    /\ \A r \in Replica :
         /\ Known(held[r])
         /\ pc[r] \in {"exchange", "accepted", "condemn"} => held[r] # Tokens!Nothing

\* Why a family may be buried: the provider does not take the token any more.
Honours(rec) == valid[rec.family] = rec.token \/ rec.family \in upstream
Calm == ~slow /\ faults = 0
StillGood ==
    Calm =>
      /\ record # Tokens!Nothing =>
            Honours(record) \/ \E r \in Replica : pc[r] = "accepted" /\ held[r].family = record.family
      /\ \A r \in Replica :
            /\ pc[r] \in {"exchange", "accepted"} => Honours(held[r])
            /\ pc[r] = "condemn" => held[r].family \in upstream

\* Whoever was forgotten is buried, but for the one being buried.
BeingBuried == IF forgetting.step = "bury" THEN {forgetting.family} ELSE {}
ForgottenOnce == forgotten \subseteq revoked \cup BeingBuried /\ BeingBuried \subseteq forgotten

RefreshInv ==
    /\ Tokens!TypeOK /\ LockedOut /\ KnownRecords /\ StillGood /\ ForgottenOnce
    /\ Tokens!HealthyGrantSurvives

USE TokensAssumption DEF TokensAssumption, Tokens!RefreshAssumption, Tokens!Grant

\* At first nobody has signed in.
LEMMA RefreshInit == ASSUME Tokens!Init PROVE RefreshInv
  <1> USE DEF Tokens!Init
  <1>1. Tokens!TypeOK
    <2>1. 0 \in 0..MaxGrants /\ 0 \in 0..MaxTokens /\ 0 \in 0..MaxFaults
      OBVIOUS
    <2>2. valid \in [Tokens!Grant -> 0..MaxTokens]
      BY <2>1
    <2>3. /\ pc \in [Replica -> Tokens!Where]
          /\ held \in [Replica -> Tokens!Record \cup {Tokens!Nothing}]
      BY DEF Tokens!Where
    <2>. QED
      BY <2>1, <2>2, <2>3 DEF Tokens!TypeOK
  <1>2. LockedOut /\ KnownRecords /\ StillGood
    BY DEF LockedOut, KnownRecords, Known, StillGood, Critical
  <1>3. ForgottenOnce /\ Tokens!HealthyGrantSurvives
    BY DEF ForgottenOnce, BeingBuried, Tokens!HealthyGrantSurvives, Tokens!Idle
  <1>. QED
    BY <1>1, <1>2, <1>3 DEF RefreshInv

\* Every step keeps the types, and every record that of an earlier sign-in.
LEMMA RefreshTypes ==
    ASSUME Tokens!TypeOK, KnownRecords, [Tokens!Next]_(Tokens!vars)
    PROVE  Tokens!TypeOK' /\ KnownRecords'
  <1> USE DEF Tokens!TypeOK, KnownRecords, Known, Tokens!Go, Tokens!Where,
              Tokens!store, Tokens!attempts, Tokens!provider, Tokens!Record
  <1>0. Tokens!Nothing.family = 0 /\ Tokens!Nothing.token = 0 /\ Tokens!Nothing.fresh = FALSE
    BY DEF Tokens!Nothing
  <1>1. CASE Tokens!Remember
    BY <1>1, <1>0, SMTT(30) DEF Tokens!Remember
  <1>2. CASE Tokens!Expire
    BY <1>2, <1>0 DEF Tokens!Expire
  <1>3. CASE Tokens!Lapse
    BY <1>3 DEF Tokens!Lapse
  <1>4. CASE Tokens!Forget
    BY <1>4 DEF Tokens!Forget, Tokens!Idle
  <1>5. CASE Tokens!ForgetDelete
    BY <1>5, <1>0 DEF Tokens!ForgetDelete, Tokens!Idle
  <1>6. CASE Tokens!Bury
    <2>1. forgetting.family \in 1..MaxGrants
      BY <1>6 DEF Tokens!Bury, Tokens!Idle
    <2>. QED
      BY <1>6, <2>1 DEF Tokens!Bury
  <1>7. ASSUME NEW f \in 1..MaxGrants, Tokens!RevokeUpstream(f) PROVE Tokens!TypeOK' /\ KnownRecords'
    BY <1>7 DEF Tokens!RevokeUpstream
  <1>8. ASSUME NEW r \in Replica, Tokens!Call(r) PROVE Tokens!TypeOK' /\ KnownRecords'
    BY <1>8 DEF Tokens!Call
  <1>9. ASSUME NEW r \in Replica, Tokens!Look(r) PROVE Tokens!TypeOK' /\ KnownRecords'
    BY <1>9 DEF Tokens!Look
  <1>10. ASSUME NEW r \in Replica, Tokens!Acquire(r) PROVE Tokens!TypeOK' /\ KnownRecords'
    BY <1>10 DEF Tokens!Acquire
  <1>11. ASSUME NEW r \in Replica, Tokens!Recheck(r) PROVE Tokens!TypeOK' /\ KnownRecords'
    BY <1>11 DEF Tokens!Recheck, Tokens!Dead
  <1>12. ASSUME NEW r \in Replica, Tokens!Exchange(r) PROVE Tokens!TypeOK' /\ KnownRecords'
    <2>1. held[r] \in Tokens!Record
      BY <1>12 DEF Tokens!Exchange
    <2>2. minted < MaxTokens => minted + 1 \in 1..MaxTokens
      OBVIOUS
    <2>3. /\ minted' \in 0..MaxTokens /\ valid' \in [1..MaxGrants -> 0..MaxTokens]
          /\ pc' \in [Replica -> Tokens!Where]
      BY <1>12, <2>1, <2>2 DEF Tokens!Exchange
    <2>4. /\ held' \in [Replica -> Tokens!Record \cup {Tokens!Nothing}]
          /\ \A q \in Replica : held'[q].family = held[q].family /\ (held'[q] # Tokens!Nothing => held[q] # Tokens!Nothing)
          /\ held'[r] # Tokens!Nothing
      <3>2. held[r] # Tokens!Nothing
        BY <1>12 DEF Tokens!Exchange
      <3>1. ASSUME NEW x \in Tokens!Record, x.family = held[r].family, held' = [held EXCEPT ![r] = x]
            PROVE  /\ held' \in [Replica -> Tokens!Record \cup {Tokens!Nothing}]
                   /\ \A q \in Replica : held'[q].family = held[q].family
                                        /\ (held'[q] # Tokens!Nothing => held[q] # Tokens!Nothing)
                   /\ held'[r] # Tokens!Nothing
        BY <3>1, <3>2, <1>0
      <3> DEFINE kept == [held[r] EXCEPT !.fresh = TRUE]
                 replaced == [held[r] EXCEPT !.token = minted + 1, !.fresh = TRUE]
      <3>3. kept \in Tokens!Record /\ kept.family = held[r].family
        BY <2>1
      <3>4. minted < MaxTokens => replaced \in Tokens!Record /\ replaced.family = held[r].family
        BY <2>1, <2>2
      <3>c. \/ held' = [held EXCEPT ![r] = kept]
            \/ minted < MaxTokens /\ held' = [held EXCEPT ![r] = replaced]
            \/ UNCHANGED held
        BY <1>12 DEF Tokens!Exchange
      <3> HIDE DEF kept, replaced, Tokens!Record
      <3>5. CASE held' = [held EXCEPT ![r] = kept]
        BY ONLY <3>1, <3>3, <3>5
      <3>6. CASE minted < MaxTokens /\ held' = [held EXCEPT ![r] = replaced]
        BY ONLY <3>1, <3>4, <3>6
      <3>7. CASE UNCHANGED held
        BY <3>2, <3>7
      <3>. QED
        BY <3>c, <3>5, <3>6, <3>7
    <2>5. \A q \in Replica \ {r} : held'[q] = held[q] /\ pc'[q] = pc[q]
      BY <1>12 DEF Tokens!Exchange
    <2>6. KnownRecords'
      BY <1>12, <2>4, <2>5 DEF Tokens!Exchange
    <2>. QED
      BY <1>12, <2>3, <2>4, <2>6 DEF Tokens!Exchange
  <1>13. ASSUME NEW r \in Replica, Tokens!Store(r) PROVE Tokens!TypeOK' /\ KnownRecords'
    BY <1>13 DEF Tokens!Store
  <1>14. ASSUME NEW r \in Replica, Tokens!Condemn(r) PROVE Tokens!TypeOK' /\ KnownRecords'
    BY <1>14 DEF Tokens!Condemn
  <1>15. ASSUME NEW r \in Replica, Tokens!Delete(r) PROVE Tokens!TypeOK' /\ KnownRecords'
    BY <1>15 DEF Tokens!Delete
  <1>16. ASSUME NEW r \in Replica, Tokens!Release(r) PROVE Tokens!TypeOK' /\ KnownRecords'
    BY <1>16 DEF Tokens!Release
  <1>17. ASSUME NEW r \in Replica, Tokens!ExchangeFails(r) PROVE Tokens!TypeOK' /\ KnownRecords'
    <2>1. held[r] \in Tokens!Record
      BY <1>17 DEF Tokens!ExchangeFails
    <2>2. /\ minted' \in 0..MaxTokens /\ valid' \in [1..MaxGrants -> 0..MaxTokens]
          /\ faults' \in 0..MaxFaults
      <3>1. CASE UNCHANGED <<minted, valid>>
        BY <1>17, <3>1 DEF Tokens!ExchangeFails
      <3>2. CASE minted < MaxTokens /\ minted' = minted + 1
                 /\ valid' = [valid EXCEPT ![held[r].family] = minted']
        <4>1. minted' \in 0..MaxTokens
          BY <3>2
        <4>. QED
          BY <1>17, <2>1, <3>2, <4>1 DEF Tokens!ExchangeFails
      <3>. QED
        BY <1>17, <3>1, <3>2 DEF Tokens!ExchangeFails
    <2>. QED
      BY <1>17, <2>2 DEF Tokens!ExchangeFails
  <1>18. ASSUME NEW r \in Replica, Tokens!Crash(r) PROVE Tokens!TypeOK' /\ KnownRecords'
    BY <1>18 DEF Tokens!Crash
  <1>19. CASE UNCHANGED Tokens!vars
    BY <1>19 DEF Tokens!vars
  <1>. QED
    BY <1>1, <1>2, <1>3, <1>4, <1>5, <1>6, <1>7, <1>8, <1>9, <1>10, <1>11, <1>12, <1>13, <1>14,
       <1>15, <1>16, <1>17, <1>18, <1>19 DEF Tokens!Next, Tokens!Attempt

\* Between Recheck and Release a replica keeps the lock: it lapses only if an exchange is slow.
LEMMA LockedOutStep ==
    ASSUME Tokens!TypeOK, LockedOut, [Tokens!Next]_(Tokens!vars)
    PROVE  LockedOut'
  <1> USE DEF Tokens!TypeOK, LockedOut, Critical, Tokens!Go,
              Tokens!store, Tokens!attempts, Tokens!provider
  <1>1. CASE Tokens!Remember \/ Tokens!Expire \/ Tokens!Forget \/ Tokens!ForgetDelete \/ Tokens!Bury
             \/ \E f \in Tokens!Grant : Tokens!RevokeUpstream(f)
    BY <1>1 DEF Tokens!Remember, Tokens!Expire, Tokens!Forget, Tokens!ForgetDelete, Tokens!Bury,
                Tokens!RevokeUpstream
  <1>2. CASE Tokens!Lapse
    BY <1>2 DEF Tokens!Lapse, Tokens!Holding
  <1>3. ASSUME NEW r \in Replica, Tokens!Call(r) \/ Tokens!Look(r) \/ Tokens!Crash(r)
        PROVE  LockedOut'
    BY <1>3 DEF Tokens!Call, Tokens!Look, Tokens!Crash
  <1>4. ASSUME NEW r \in Replica, Tokens!Acquire(r) PROVE LockedOut'
    BY <1>4 DEF Tokens!Acquire
  <1>5. ASSUME NEW r \in Replica, Tokens!Release(r) PROVE LockedOut'
    BY <1>5 DEF Tokens!Release
  <1>6. ASSUME NEW r \in Replica,
               Tokens!Recheck(r) \/ Tokens!Exchange(r) \/ Tokens!Store(r) \/ Tokens!Condemn(r)
               \/ Tokens!Delete(r) \/ Tokens!ExchangeFails(r)
        PROVE  LockedOut'
    BY <1>6 DEF Tokens!Recheck, Tokens!Exchange, Tokens!Store, Tokens!Condemn, Tokens!Delete,
                Tokens!ExchangeFails
  <1>7. CASE UNCHANGED Tokens!vars
    BY <1>7 DEF Tokens!vars
  <1>. QED
    BY <1>1, <1>2, <1>3, <1>4, <1>5, <1>6, <1>7 DEF Tokens!Next, Tokens!Attempt

\* A family that was forgotten is buried, or about to be.
LEMMA ForgottenStep ==
    ASSUME Tokens!TypeOK, ForgottenOnce, [Tokens!Next]_(Tokens!vars)
    PROVE  ForgottenOnce'
  <1> USE DEF Tokens!TypeOK, ForgottenOnce, BeingBuried, Tokens!Idle,
              Tokens!store, Tokens!attempts, Tokens!provider
  <1>1. CASE Tokens!Forget
    BY <1>1 DEF Tokens!Forget
  <1>2. CASE Tokens!ForgetDelete
    BY <1>2 DEF Tokens!ForgetDelete
  <1>3. CASE Tokens!Bury
    BY <1>3 DEF Tokens!Bury
  <1>4. CASE Tokens!Remember \/ Tokens!Expire \/ Tokens!Lapse
             \/ \E f \in Tokens!Grant : Tokens!RevokeUpstream(f)
    BY <1>4 DEF Tokens!Remember, Tokens!Expire, Tokens!Lapse, Tokens!RevokeUpstream
  <1>5. ASSUME NEW r \in Replica,
               Tokens!Call(r) \/ Tokens!Look(r) \/ Tokens!Acquire(r) \/ Tokens!Recheck(r)
               \/ Tokens!Exchange(r) \/ Tokens!Store(r) \/ Tokens!Delete(r) \/ Tokens!Release(r)
               \/ Tokens!ExchangeFails(r) \/ Tokens!Crash(r)
        PROVE  UNCHANGED <<forgetting, forgotten, revoked>>
    BY <1>5 DEF Tokens!Call, Tokens!Look, Tokens!Acquire, Tokens!Recheck, Tokens!Exchange,
                Tokens!Store, Tokens!Delete, Tokens!Release, Tokens!ExchangeFails, Tokens!Crash
  <1>6. ASSUME NEW r \in Replica, Tokens!Condemn(r) PROVE ForgottenOnce'
    BY <1>6 DEF Tokens!Condemn
  <1>7. CASE UNCHANGED Tokens!vars
    BY <1>7 DEF Tokens!vars
  <1>. QED
    BY <1>1, <1>2, <1>3, <1>4, <1>5, <1>6, <1>7 DEF Tokens!Next, Tokens!Attempt

\* Whatever is calm was calm.
LEMMA CalmBefore ==
    ASSUME Tokens!TypeOK, [Tokens!Next]_(Tokens!vars), Calm'
    PROVE  Calm /\ UNCHANGED faults
  <1> USE DEF Tokens!store, Tokens!attempts, Tokens!provider
  <1>1. ASSUME NEW r \in Replica, Tokens!ExchangeFails(r) \/ Tokens!Crash(r) PROVE faults' # 0
    BY <1>1 DEF Tokens!ExchangeFails, Tokens!Crash, Tokens!TypeOK
  <1>2. ASSUME NEW r \in Replica, Tokens!Call(r) \/ Tokens!Attempt(r)
        PROVE  UNCHANGED <<faults, slow>>
    BY <1>2 DEF Tokens!Attempt, Tokens!Call, Tokens!Look, Tokens!Acquire, Tokens!Recheck,
       Tokens!Exchange, Tokens!Store, Tokens!Condemn, Tokens!Delete, Tokens!Release
  <1>3. CASE Tokens!Remember \/ Tokens!Expire \/ Tokens!Lapse \/ Tokens!Forget
             \/ Tokens!ForgetDelete \/ Tokens!Bury \/ UNCHANGED Tokens!vars
             \/ \E f \in Tokens!Grant : Tokens!RevokeUpstream(f)
    BY <1>3 DEF Calm, Tokens!vars, Tokens!Remember, Tokens!Expire, Tokens!Lapse, Tokens!Forget,
       Tokens!ForgetDelete, Tokens!Bury, Tokens!RevokeUpstream
  <1>. QED
    BY <1>1, <1>2, <1>3 DEF Calm, Tokens!Next

\* While nothing fails, the token on record is the one the provider takes, or a replica is
\* about to store its successor.
LEMMA StillGoodStep ==
    ASSUME RefreshInv, KnownRecords', [Tokens!Next]_(Tokens!vars)
    PROVE  StillGood'
  <1> SUFFICES ASSUME Calm' PROVE StillGood'
    BY DEF StillGood
  <1>0. Calm /\ UNCHANGED faults
    BY CalmBefore DEF RefreshInv
  <1> USE DEF RefreshInv, Tokens!TypeOK, StillGood, Honours, KnownRecords, Known,
              Tokens!Go, Tokens!store, Tokens!attempts, Tokens!provider, Tokens!Record
  <1>l. \A r, q \in Replica : pc[r] \in Critical /\ pc[q] \in Critical => r = q
    BY <1>0 DEF LockedOut, Calm
  <1>n. Tokens!Nothing.family = 0
    BY DEF Tokens!Nothing
  <1>1. CASE Tokens!Remember
    BY <1>0, <1>1 DEF Tokens!Remember
  <1>2. CASE Tokens!Expire
    <2>1. record # Tokens!Nothing /\ record'.family = record.family /\ record'.token = record.token
      BY <1>2 DEF Tokens!Expire, Tokens!Nothing
    <2>. QED
      BY <1>0, <1>2, <2>1 DEF Tokens!Expire
  <1>3. CASE Tokens!Lapse \/ Tokens!Forget \/ Tokens!ForgetDelete \/ Tokens!Bury
    BY <1>0, <1>3, SMTT(30) DEF Tokens!Lapse, Tokens!Forget, Tokens!ForgetDelete, Tokens!Bury
  <1>4. ASSUME NEW f \in 1..MaxGrants, Tokens!RevokeUpstream(f) PROVE StillGood'
    BY <1>0, <1>4 DEF Tokens!RevokeUpstream
  <1>5. ASSUME NEW r \in Replica, Tokens!Call(r) \/ Tokens!Acquire(r) \/ Tokens!Release(r)
        PROVE  StillGood'
    <2>1. /\ UNCHANGED <<record, held, valid, upstream>>
          /\ \A q \in Replica : pc'[q] \in {"exchange", "accepted", "condemn"} => pc'[q] = pc[q]
          /\ pc[r] # "accepted" /\ \A q \in Replica \ {r} : pc'[q] = pc[q]
      <3>1. CASE Tokens!Call(r)
        BY <3>1 DEF Tokens!Call
      <3>2. CASE Tokens!Acquire(r)
        BY <3>2 DEF Tokens!Acquire
      <3>3. CASE Tokens!Release(r)
        BY <3>3 DEF Tokens!Release
      <3>. QED
        BY <1>5, <3>1, <3>2, <3>3
    <2>. QED
      BY <1>0, <2>1
  <1>6. ASSUME NEW r \in Replica, Tokens!Look(r) PROVE StillGood'
    BY <1>0, <1>6 DEF Tokens!Look
  <1>7. ASSUME NEW r \in Replica, Tokens!Recheck(r) PROVE StillGood'
    BY <1>0, <1>l, <1>7 DEF Tokens!Recheck, Tokens!Dead, Critical
  <1>8. ASSUME NEW r \in Replica, Tokens!Exchange(r) PROVE StillGood'
    <2> DEFINE f == held[r].family
    <2>1. held[r] \in Tokens!Record /\ Honours(held[r]) /\ f \in 1..MaxGrants
      BY <1>0, <1>8 DEF Tokens!Exchange
    <2>2. \A q \in Replica \ {r} : pc[q] \notin Critical /\ pc'[q] = pc[q]
      BY <1>l, <1>8 DEF Tokens!Exchange, Critical
    <2>3. CASE valid[f] # held[r].token
      BY <1>0, <1>8, <2>1, <2>2, <2>3 DEF Tokens!Exchange, Critical
    <2>4. CASE valid[f] = held[r].token
      <3>1. /\ pc' = [pc EXCEPT ![r] = "accepted"] /\ UNCHANGED <<record, upstream>>
            /\ held'[r].family = f /\ valid'[f] = held'[r].token
            /\ \A g \in 1..MaxGrants \ {f} : valid'[g] = valid[g]
        <4> DEFINE kept == [held[r] EXCEPT !.fresh = TRUE]
                   replaced == [held[r] EXCEPT !.token = minted + 1, !.fresh = TRUE]
        <4>1. /\ kept.family = f /\ kept.token = held[r].token
              /\ replaced.family = f /\ replaced.token = minted + 1
          BY <2>1
        <4>2. \/ held' = [held EXCEPT ![r] = kept] /\ valid' = valid
              \/ held' = [held EXCEPT ![r] = replaced] /\ valid' = [valid EXCEPT ![f] = minted + 1]
          BY <1>8, <2>4 DEF Tokens!Exchange
        <4> HIDE DEF kept, replaced
        <4>3. held'[r] \in {kept, replaced}
          BY <4>2
        <4>4. valid'[f] = held'[r].token
          BY <4>1, <4>2, <2>1, <2>4
        <4>. QED
          BY <1>8, <2>1, <2>4, <4>1, <4>2, <4>3, <4>4 DEF Tokens!Exchange
      <3>2. record # Tokens!Nothing => Honours(record)
        BY <1>0, <2>2, <1>8 DEF Critical, Tokens!Exchange
      <3>. QED
        BY <1>0, <2>1, <2>2, <3>1, <3>2 DEF Critical
    <2>. QED
      BY <2>3, <2>4
  <1>9. ASSUME NEW r \in Replica, Tokens!Store(r) PROVE StillGood'
    BY <1>0, <1>9 DEF Tokens!Store
  <1>10. ASSUME NEW r \in Replica, Tokens!Condemn(r) \/ Tokens!Delete(r) PROVE StillGood'
    <2>1. /\ UNCHANGED <<held, valid, upstream>> /\ record' \in {record, Tokens!Nothing}
          /\ \A q \in Replica : pc'[q] = pc[q] \/ pc'[q] \in {"delete", "release"}
          /\ pc[r] # "accepted" /\ \A q \in Replica \ {r} : pc'[q] = pc[q]
      BY <1>10 DEF Tokens!Condemn, Tokens!Delete
    <2>. QED
      BY <1>0, <2>1
  <1>11. ASSUME NEW r \in Replica, Tokens!ExchangeFails(r) \/ Tokens!Crash(r) PROVE StillGood'
    BY <1>0, <1>11 DEF Tokens!ExchangeFails, Tokens!Crash
  <1>12. CASE UNCHANGED Tokens!vars
    BY <1>0, <1>12 DEF Tokens!vars
  <1>. QED
    BY <1>1, <1>2, <1>3, <1>4, <1>5, <1>6, <1>7, <1>8, <1>9, <1>10, <1>11, <1>12
       DEF Tokens!Next, Tokens!Attempt

\* Every step keeps the invariant of token refreshing.
LEMMA RefreshStep ==
    ASSUME RefreshInv, [Tokens!Next]_(Tokens!vars)
    PROVE  RefreshInv'
  <1>1. Tokens!TypeOK' /\ KnownRecords'
    BY RefreshTypes DEF RefreshInv
  <1>2. LockedOut' /\ ForgottenOnce'
    BY LockedOutStep, ForgottenStep DEF RefreshInv
  <1>3. StillGood'
    BY <1>1, StillGoodStep
  <1>4. Tokens!HealthyGrantSurvives'
    <2> SUFFICES ASSUME Calm' PROVE revoked' \subseteq forgotten' \cup upstream'
      BY DEF Calm, Tokens!HealthyGrantSurvives
    <2> USE DEF Tokens!store, Tokens!attempts, Tokens!provider
    <2>1. revoked \subseteq forgotten \cup upstream
      BY CalmBefore DEF RefreshInv, Calm, Tokens!HealthyGrantSurvives
    <2>2. ASSUME NEW r \in Replica, Tokens!Condemn(r)
          PROVE  revoked' \subseteq forgotten' \cup upstream'
      BY <2>1, <2>2, CalmBefore DEF Tokens!Condemn, RefreshInv, StillGood
    <2>3. CASE Tokens!Bury
      BY <2>1, <2>3 DEF Tokens!Bury, RefreshInv, ForgottenOnce, BeingBuried
    <2>4. CASE \/ Tokens!Remember \/ Tokens!Expire \/ Tokens!Lapse \/ Tokens!Forget
               \/ Tokens!ForgetDelete \/ UNCHANGED Tokens!vars
               \/ \E f \in Tokens!Grant : Tokens!RevokeUpstream(f)
      BY <2>1, <2>4 DEF Tokens!vars, Tokens!Remember, Tokens!Expire, Tokens!Lapse,
         Tokens!Forget, Tokens!ForgetDelete, Tokens!RevokeUpstream
    <2>5. ASSUME NEW r \in Replica,
                 Tokens!Call(r) \/ Tokens!Look(r) \/ Tokens!Acquire(r) \/ Tokens!Recheck(r)
                 \/ Tokens!Exchange(r) \/ Tokens!Store(r) \/ Tokens!Delete(r)
                 \/ Tokens!Release(r) \/ Tokens!ExchangeFails(r) \/ Tokens!Crash(r)
          PROVE  revoked' \subseteq forgotten' \cup upstream'
      BY <2>1, <2>5 DEF Tokens!Call, Tokens!Look, Tokens!Acquire, Tokens!Recheck,
         Tokens!Exchange, Tokens!Store, Tokens!Delete, Tokens!Release, Tokens!ExchangeFails,
         Tokens!Crash
    <2>. QED
      BY <2>2, <2>3, <2>4, <2>5 DEF Tokens!Next, Tokens!Attempt
  <1>. QED
    BY <1>1, <1>2, <1>3, <1>4 DEF RefreshInv

\* The invariant is what the refresher promises.
LEMMA RefreshPromises ==
    ASSUME RefreshInv
    PROVE  Tokens!TypeOK /\ Tokens!SingleFlight /\ Tokens!HealthyGrantSurvives
           /\ Tokens!ForgottenIsBuried
  <1>1. Tokens!SingleFlight
    BY DEF RefreshInv, LockedOut, Critical, Tokens!SingleFlight
  <1>2. Tokens!ForgottenIsBuried
    BY DEF RefreshInv, ForgottenOnce, BeingBuried, Tokens!ForgottenIsBuried, Tokens!Idle
  <1>. QED
    BY <1>1, <1>2 DEF RefreshInv

HIDE TokensAssumption DEF TokensAssumption, Tokens!RefreshAssumption, Tokens!Grant

----------------------------------------------------------------------------
\* Signing in through a provider.

Came(c) == calls[c].at # "unused"
Past == {"check", "exchange", "verify", "signed in", "in", "refused", "out"}
Answered == {"verify", "signed in", "in"}

\* A flow is begun in a browser, before its record is stored, its cookie set or its code given.
FlowsBegun ==
    /\ \A f \in Flow : phase[f] = "unused" <=> startedIn[f] = None
    /\ \A f \in flows : phase[f] # "unused"
    /\ \A f \in codes : phase[f] = "back"
    /\ \A b \in Browser : cookie[b] # None =>
         /\ startedIn[cookie[b]] = b
         /\ phase[cookie[b]] \in {"away", "back", "declined"}

\* A callback answers a flow that came back, in its browser unless it is refused.
Accepted == Flows!UnderWay \cup {"signed in", "in"}
CallBelongs(call) ==
    IF call.at = "unused" THEN call = Flows!NoCall
    ELSE /\ call.flow \in Flow /\ call.browser \in Browser
         /\ phase[call.flow] \in {"back", "declined"}
         /\ call.jar # None => startedIn[call.jar] = call.browser
         /\ call.at \in Accepted =>
              phase[call.flow] = "back" /\ startedIn[call.flow] = call.browser

Belong == FlowsBegun /\ \A c \in Callback : CallBelongs(calls[c])

\* A code is presented once its record is gone, by one callback at a time.
UnderWay(call, f) == call.flow = f /\ call.at \in Flows!UnderWay
PresentedFor(f) ==
    /\ presented[f] <= 1
    /\ f \in flows => presented[f] = 0
    /\ \A c \in Callback : calls[c].flow = f =>
          /\ calls[c].at \in {"delete", "check"} => presented[f] = 0
          /\ calls[c].at = "check" => f \notin flows
    /\ \A c, d \in Callback : UnderWay(calls[c], f) /\ UnderWay(calls[d], f) => c = d

PresentedInv ==
    /\ \A f \in Flow : phase[f] # "back" => presented[f] = 0
    /\ \A f \in Flow \ doubled : PresentedFor(f)

\* The provider's code is taken by one callback.
CodeTaken ==
    \A c \in Callback : calls[c].at \in Answered =>
        /\ calls[c].flow \notin codes
        /\ \A d \in Callback : calls[d].at \in Answered /\ calls[d].flow = calls[c].flow => c = d

\* What a flow that nothing disturbed has still to find.
Visits(f) == {c \in Callback : Came(c) /\ calls[c].flow = f /\ calls[c].browser = startedIn[f]}
OneFlow ==
    \A f, g \in Flow :
        f # g /\ startedIn[f] # None /\ startedIn[f] = startedIn[g]
        => f \in disturbed /\ g \in disturbed
OneVisit == \A f \in Flow \ disturbed : \A c, d \in Visits(f) : c = d
CookieSpent ==
    \A f \in Flow, c \in Callback :
        Came(c) /\ calls[c].jar # None /\ startedIn[f] = calls[c].browser /\ f # calls[c].flow
        => f \in disturbed
Kept(f) ==
    /\ phase[f] \in {"away", "back", "declined"} => cookie[startedIn[f]] = f \/ Visits(f) # {}
    /\ phase[f] # "unused" /\ f \notin flows => \E c \in Visits(f) : calls[c].at \in Past
    /\ phase[f] = "back" /\ f \notin codes /\ failures = 0
         => \E c \in Visits(f) : calls[c].at \in Answered \cup {"refused", "out"}
Undisturbed ==
    OneFlow /\ OneVisit /\ CookieSpent /\ \A f \in Flow \ (over \cup disturbed) : Kept(f)

SignInInv ==
    /\ Flows!SignInTyped /\ Belong /\ PresentedInv /\ CodeTaken /\ Undisturbed
    /\ Flows!RefusedForReason

\* Counting up stays in the naturals.
LEMMA CountsUp ==
    ASSUME NEW S, NEW g \in [S -> Nat], NEW x \in S
    PROVE  [g EXCEPT ![x] = g[x] + 1] \in [S -> Nat]
  OBVIOUS

USE FlowsAssumption DEF FlowsAssumption, Flows!SignInAssumption, Flows!Go, Flows!atProvider, Flows!observers

At == Flows!UnderWay \cup {"unused", "refused", "signed in", "in", "out"}
CallRecord == [flow : Flow \cup {None}, browser : Browser \cup {None}, jar : Flow \cup {None}, at : At]

\* A step of a callback moves that callback on, and no other.
MovesOn(c, from, to) ==
    /\ calls[c].at \in from /\ calls'[c].at \in to
    /\ calls' \in [Callback -> CallRecord]
    /\ calls'[c].flow = calls[c].flow /\ calls'[c].browser = calls[c].browser
    /\ calls'[c].jar = calls[c].jar
    /\ \A d \in Callback \ {c} : calls'[d] = calls[d]

\* Going on changes where a callback is.
LEMMA MoveOn ==
    ASSUME calls \in [Callback -> CallRecord], NEW c \in Callback, NEW from, NEW to \in SUBSET At,
           calls[c].at \in from, \E where \in to : Flows!Go(c, where)
    PROVE  MovesOn(c, from, to)
  <1>1. PICK where \in to : calls' = [calls EXCEPT ![c] = [calls[c] EXCEPT !.at = where]]
    OBVIOUS
  <1>2. calls[c] \in CallRecord /\ where \in At
    OBVIOUS
  <1>3. [calls[c] EXCEPT !.at = where] \in CallRecord
    BY <1>2 DEF CallRecord
  <1>. QED
    BY <1>1, <1>2, <1>3 DEF MovesOn, CallRecord

\* Where each await of a callback leads.
LEMMA Moves ==
    ASSUME Flows!SignInTyped, NEW c \in Callback
    PROVE  /\ Flows!ReadRecord(c) => MovesOn(c, {"read"}, {"delete", "refused"})
           /\ Flows!DeleteRecord(c) => MovesOn(c, {"delete"}, {"check", "refused"})
           /\ Flows!PresentCode(c) => MovesOn(c, {"check"}, {"exchange"})
           /\ Flows!Exchange(c) => MovesOn(c, {"exchange"}, {"verify", "refused"})
           /\ Flows!Verified(c) => MovesOn(c, {"verify"}, {"signed in"})
           /\ Flows!CallFails(c) => MovesOn(c, {"check", "exchange", "verify"}, {"refused"})
           /\ Flows!CallAnswered(c) => \/ MovesOn(c, {"signed in"}, {"in"})
                                       \/ MovesOn(c, {"refused"}, {"out"})
  <1>0. calls \in [Callback -> CallRecord]
    BY DEF Flows!SignInTyped, CallRecord, At
  <1> USE <1>0, MoveOn DEF At, Flows!UnderWay
  <1>1. Flows!ReadRecord(c) => MovesOn(c, {"read"}, {"delete", "refused"})
    BY DEF Flows!ReadRecord
  <1>2. Flows!DeleteRecord(c) => MovesOn(c, {"delete"}, {"check", "refused"})
    BY DEF Flows!DeleteRecord
  <1>3. Flows!PresentCode(c) => MovesOn(c, {"check"}, {"exchange"})
    BY DEF Flows!PresentCode
  <1>4. Flows!Exchange(c) => MovesOn(c, {"exchange"}, {"verify", "refused"})
    BY DEF Flows!Exchange
  <1>5. Flows!Verified(c) => MovesOn(c, {"verify"}, {"signed in"})
    BY DEF Flows!Verified
  <1>6. Flows!CallFails(c) => MovesOn(c, {"check", "exchange", "verify"}, {"refused"})
    BY DEF Flows!CallFails
  <1>7. Flows!CallAnswered(c) => \/ MovesOn(c, {"signed in"}, {"in"})
                                \/ MovesOn(c, {"refused"}, {"out"})
    BY DEF Flows!CallAnswered
  <1>. QED
    BY <1>1, <1>2, <1>3, <1>4, <1>5, <1>6, <1>7

\* Every step keeps every variable of SignIn in its type.
LEMMA SignInTypes ==
    ASSUME Flows!SignInTyped, Belong, [Flows!SignInNext]_(Flows!signInVars)
    PROVE  Flows!SignInTyped'
  <1> USE DEF Flows!SignInTyped, Flows!UnderWay
  <1>1. ASSUME NEW b \in Browser, NEW f \in Flow, Flows!start(b, f) PROVE Flows!SignInTyped'
    BY <1>1 DEF Flows!start, Flows!StartedBy
  <1>2. ASSUME NEW f \in Flow, Flows!StartAnswered(f) PROVE Flows!SignInTyped'
    BY <1>2 DEF Flows!StartAnswered
  <1>3. ASSUME NEW f \in Flow, Flows!Authorised(f) \/ Flows!Declined(f) PROVE Flows!SignInTyped'
    BY <1>3 DEF Flows!Authorised, Flows!Declined
  <1>4. ASSUME NEW f \in Flow, Flows!Lapse(f) PROVE Flows!SignInTyped'
    BY <1>4 DEF Flows!Lapse
  <1>5. ASSUME NEW c \in Callback, NEW b \in Browser, NEW f \in Flow, Flows!callback(c, b, f)
        PROVE  Flows!SignInTyped'
    BY <1>5 DEF Flows!callback, Flows!StartedBy
  <1>6. ASSUME NEW c \in Callback, Flows!ReadRecord(c) PROVE Flows!SignInTyped'
    BY <1>6, Moves DEF Flows!ReadRecord, MovesOn, CallRecord, At
  <1>7. ASSUME NEW c \in Callback, Flows!DeleteRecord(c) PROVE Flows!SignInTyped'
    BY <1>7, Moves DEF Flows!DeleteRecord, MovesOn, CallRecord, At
  <1>8. ASSUME NEW c \in Callback, Flows!PresentCode(c) PROVE Flows!SignInTyped'
    <2>3. calls[c].flow \in Flow
      BY <1>8 DEF Flows!PresentCode, Belong, CallBelongs
    <2>1. presented' \in [Flow -> Nat]
      BY <1>8, <2>3, CountsUp DEF Flows!PresentCode
    <2>2. calls' \in [Callback -> CallRecord]
      BY <1>8, Moves DEF MovesOn
    <2>. QED
      BY <1>8, <2>1, <2>2 DEF Flows!PresentCode, CallRecord, At
  <1>9. ASSUME NEW c \in Callback, Flows!Exchange(c) PROVE Flows!SignInTyped'
    BY <1>9, Moves DEF Flows!Exchange, MovesOn, CallRecord, At
  <1>10. ASSUME NEW c \in Callback, Flows!Verified(c) PROVE Flows!SignInTyped'
    BY <1>10, Moves DEF Flows!Verified, MovesOn, CallRecord, At
  <1>11. ASSUME NEW c \in Callback, Flows!CallFails(c) PROVE Flows!SignInTyped'
    <2>1. failures \in 0..MaxFailures /\ failures < MaxFailures /\ failures' = failures + 1
      BY <1>11 DEF Flows!CallFails
    <2>5. MaxFailures \in Nat
      OBVIOUS
    <2>3. failures' \in 0..MaxFailures
      BY ONLY <2>1, <2>5
    <2>4. codes' \subseteq Flow
      BY <1>11 DEF Flows!CallFails
    <2>2. calls' \in [Callback -> CallRecord]
      BY <1>11, Moves DEF MovesOn
    <2>. QED
      BY <1>11, <2>3, <2>4, <2>2 DEF Flows!CallFails, CallRecord, At
  <1>12. ASSUME NEW c \in Callback, Flows!CallAnswered(c) PROVE Flows!SignInTyped'
    BY <1>12, Moves DEF Flows!CallAnswered, MovesOn, CallRecord, At
  <1>13. CASE UNCHANGED Flows!signInVars
    BY <1>13 DEF Flows!signInVars
  <1>. QED
    BY <1>1, <1>2, <1>3, <1>4, <1>5, <1>6, <1>7, <1>8, <1>9, <1>10, <1>11, <1>12, <1>13
       DEF Flows!SignInNext

\* One await of a callback, and what it leaves alone.
Resumes(c) ==
    \/ Flows!ReadRecord(c) \/ Flows!DeleteRecord(c) \/ Flows!PresentCode(c)
    \/ Flows!Exchange(c) \/ Flows!Verified(c) \/ Flows!CallFails(c)
    \/ Flows!CallAnswered(c)

\* What every await of a callback leaves alone.
LEMMA Resuming ==
    ASSUME Flows!SignInTyped, NEW c \in Callback, Resumes(c)
    PROVE  /\ MovesOn(c, At \ {"unused"}, At \ {"unused"})
           /\ calls[c].at \in Accepted \/ calls'[c].at \in {"refused", "out"}
           /\ UNCHANGED <<startedIn, phase, over, doubled, disturbed>>
           /\ flows' \subseteq flows /\ codes' \subseteq codes
           /\ \A b \in Browser : cookie'[b] \in {cookie[b], None}
  <1> USE DEF MovesOn, At, Accepted, Flows!UnderWay
  <1>1. CASE Flows!ReadRecord(c)
    BY <1>1, Moves DEF Flows!ReadRecord
  <1>2. CASE Flows!DeleteRecord(c)
    BY <1>2, Moves DEF Flows!DeleteRecord
  <1>3. CASE Flows!PresentCode(c)
    BY <1>3, Moves DEF Flows!PresentCode
  <1>4. CASE Flows!Exchange(c)
    BY <1>4, Moves DEF Flows!Exchange
  <1>5. CASE Flows!Verified(c)
    BY <1>5, Moves DEF Flows!Verified
  <1>6. CASE Flows!CallFails(c)
    BY <1>6, Moves DEF Flows!CallFails
  <1>7. CASE Flows!CallAnswered(c)
    <2>1. \A b \in Browser : cookie'[b] \in {cookie[b], None}
      BY <1>7 DEF Flows!CallAnswered, Flows!SignInTyped
    <2>. QED
      BY <1>7, <2>1, Moves DEF Flows!CallAnswered
  <1>. QED
    BY <1>1, <1>2, <1>3, <1>4, <1>5, <1>6, <1>7 DEF Resumes

\* Every step keeps callbacks with the flow and the browser they belong to.
LEMMA BelongStep ==
    ASSUME Flows!SignInTyped, Belong, [Flows!SignInNext]_(Flows!signInVars)
    PROVE  Belong'
  <1>t. /\ startedIn \in [Flow -> Browser \cup {None}]
        /\ phase \in [Flow -> {"unused", "stored", "away", "back", "declined"}]
        /\ flows \subseteq Flow /\ codes \subseteq Flow
        /\ cookie \in [Browser -> Flow \cup {None}]
    BY DEF Flows!SignInTyped
  <1>c. calls \in [Callback -> CallRecord]
    BY DEF Flows!SignInTyped, CallRecord, At
  <1> USE DEF Belong
  <1>1. ASSUME NEW b \in Browser, NEW f \in Flow, Flows!start(b, f) PROVE Belong'
    <2>1. FlowsBegun'
      BY <1>t, <1>1 DEF Flows!start, FlowsBegun
    <2>2. \A c \in Callback : CallBelongs(calls[c])'
      BY <1>t, <1>c, <1>1 DEF Flows!start, CallBelongs, FlowsBegun
    <2>. QED
      BY <2>1, <2>2
  <1>2. ASSUME NEW f \in Flow, Flows!StartAnswered(f) PROVE Belong'
    <2>1. FlowsBegun'
      BY <1>t, <1>2 DEF Flows!StartAnswered, FlowsBegun
    <2>2. \A c \in Callback : CallBelongs(calls[c])'
      BY <1>t, <1>c, <1>2 DEF Flows!StartAnswered, CallBelongs
    <2>. QED
      BY <2>1, <2>2
  <1>3. ASSUME NEW f \in Flow, Flows!Authorised(f) \/ Flows!Declined(f) PROVE Belong'
    <2>1. FlowsBegun'
      <3>1. CASE Flows!Authorised(f)
        BY <1>t, <3>1 DEF Flows!Authorised, FlowsBegun
      <3>2. CASE Flows!Declined(f)
        BY <1>t, <3>2 DEF Flows!Declined, FlowsBegun
      <3>. QED
        BY <1>3, <3>1, <3>2
    <2>2. \A c \in Callback : CallBelongs(calls[c])'
      BY <1>t, <1>c, <1>3, ZenonT(40) DEF Flows!Authorised, Flows!Declined, CallBelongs
    <2>. QED
      BY <2>1, <2>2
  <1>4. ASSUME NEW f \in Flow, Flows!Lapse(f) PROVE Belong'
    <2>1. FlowsBegun'
      BY <1>t, <1>4 DEF Flows!Lapse, FlowsBegun
    <2>2. \A c \in Callback : CallBelongs(calls[c])'
      BY <1>t, <1>c, <1>4 DEF Flows!Lapse, CallBelongs
    <2>. QED
      BY <2>1, <2>2
  <1>5. ASSUME NEW c \in Callback, NEW b \in Browser, NEW f \in Flow, Flows!callback(c, b, f)
        PROVE  Belong'
    <2>1. FlowsBegun'
      BY <1>t, <1>5 DEF Flows!callback, FlowsBegun
    <2>2. CallBelongs(calls[c])'
      <3>1. /\ UNCHANGED <<startedIn, phase>> /\ phase[f] \in {"back", "declined"}
            /\ calls'[c].flow = f /\ calls'[c].browser = b /\ calls'[c].jar = cookie[b]
            /\ \/ calls'[c].at = "refused"
               \/ calls'[c].at = "read" /\ phase[f] = "back" /\ cookie[b] = f
        BY <1>c, <1>5 DEF Flows!callback, Flows!ComesFromHere
      <3>2. cookie[b] # None => startedIn[cookie[b]] = b
        BY DEF FlowsBegun
      <3>. QED
        BY <3>1, <3>2 DEF CallBelongs, Accepted, Flows!UnderWay
    <2>3. \A d \in Callback \ {c} : CallBelongs(calls[d])'
      BY <1>t, <1>c, <1>5 DEF Flows!callback, CallBelongs
    <2>. QED
      BY <2>1, <2>2, <2>3
  <1>6. ASSUME NEW c \in Callback, Resumes(c) PROVE Belong'
    <2>1. FlowsBegun'
      <3>1. /\ UNCHANGED <<startedIn, phase>> /\ flows' \subseteq flows /\ codes' \subseteq codes
            /\ \A b \in Browser : cookie'[b] \in {cookie[b], None}
        BY <1>6, Resuming
      <3>. QED
        BY <1>t, <3>1 DEF FlowsBegun
    <2>2. CallBelongs(calls[c])'
      BY <1>t, <1>c, <1>6, Resuming DEF MovesOn, CallBelongs, Accepted, At, Flows!UnderWay
    <2>3. \A d \in Callback \ {c} : CallBelongs(calls[d])'
      BY <1>t, <1>c, <1>6, Resuming DEF MovesOn, CallBelongs
    <2>. QED
      BY <2>1, <2>2, <2>3
  <1>7. CASE UNCHANGED Flows!signInVars
    BY <1>7 DEF Flows!signInVars, FlowsBegun, CallBelongs
  <1>. QED
    BY <1>1, <1>2, <1>3, <1>4, <1>5, <1>6, <1>7 DEF Flows!SignInNext, Resumes

\* What the browsers and the provider do between callbacks.
Meanwhile(f) ==
    \/ \E b \in Browser : Flows!start(b, f)
    \/ Flows!StartAnswered(f) \/ Flows!Authorised(f) \/ Flows!Declined(f) \/ Flows!Lapse(f)

\* Every step presents the code of a flow whose record it took, once.
LEMMA PresentedStep ==
    ASSUME Flows!SignInTyped, Belong, PresentedInv, [Flows!SignInNext]_(Flows!signInVars)
    PROVE  PresentedInv'
  <1>t. /\ phase \in [Flow -> {"unused", "stored", "away", "back", "declined"}]
        /\ flows \subseteq Flow /\ presented \in [Flow -> Nat] /\ doubled \subseteq Flow
    BY DEF Flows!SignInTyped
  <1>c. calls \in [Callback -> CallRecord]
    BY DEF Flows!SignInTyped, CallRecord, At
  <1>1. ASSUME NEW f \in Flow, Meanwhile(f) PROVE PresentedInv'
    <2>1. UNCHANGED <<calls, presented, doubled>>
      BY <1>1 DEF Meanwhile, Flows!start, Flows!StartAnswered, Flows!Authorised, Flows!Declined,
         Flows!Lapse
    <2>2. /\ flows' \subseteq flows \cup {g \in Flow : phase[g] = "unused"}
          /\ \A g \in Flow : phase'[g] # "back" => phase[g] # "back"
      BY <1>1, <1>t DEF Meanwhile, Flows!start, Flows!StartAnswered, Flows!Authorised,
         Flows!Declined, Flows!Lapse
    <2>3. ASSUME NEW c \in Callback, calls[c].at # "unused" PROVE phase[calls[c].flow] # "unused"
      BY <2>3 DEF Belong, CallBelongs
    <2>. QED
      BY <2>1, <2>2, <2>3 DEF PresentedInv, PresentedFor
  <1>2. ASSUME NEW c \in Callback, NEW b \in Browser, NEW f \in Flow, Flows!callback(c, b, f)
        PROVE  PresentedInv'
    <2>1. /\ UNCHANGED <<phase, flows, presented>> /\ doubled \subseteq doubled'
          /\ \A d \in Callback \ {c} : calls'[d] = calls[d]
          /\ calls'[c].flow = f /\ calls'[c].at \in {"read", "refused"}
          /\ calls[c].at = "unused"
      BY <1>2, <1>c DEF Flows!callback
    <2>2. \A d \in Callback : UnderWay(calls[d], f) => f \in doubled'
      BY <1>2 DEF Flows!callback, UnderWay
    <2>3. \A g \in Flow : phase'[g] # "back" => presented'[g] = 0
      BY <2>1 DEF PresentedInv
    <2>4. ASSUME NEW g \in Flow \ doubled' PROVE PresentedFor(g)'
      <3>1. PresentedFor(g)
        BY <2>1 DEF PresentedInv
      <3>2. \A d \in Callback : calls'[d].flow = g /\ calls'[d].at \in {"delete", "check"}
                             => calls'[d] = calls[d]
        BY <2>1
      <3>3. \A d, e \in Callback : UnderWay(calls'[d], g) /\ UnderWay(calls'[e], g) => d = e
        <4>1. CASE g = f
          <5>1. \A d \in Callback : ~UnderWay(calls[d], g)
            BY <4>1, <2>2
          <5>. QED
            BY <5>1, <2>1
        <4>2. CASE g # f
          BY <4>2, <3>1, <2>1 DEF PresentedFor, UnderWay
        <4>. QED
          BY <4>1, <4>2
      <3>. QED
        BY <2>1, <3>1, <3>2, <3>3 DEF PresentedFor
    <2>. QED
      BY <2>3, <2>4 DEF PresentedInv
  <1>3. ASSUME NEW c \in Callback, Resumes(c) PROVE PresentedInv'
    <2> DEFINE h == calls[c].flow
    <2>1. /\ \A d \in Callback \ {c} : calls'[d] = calls[d]
          /\ calls'[c].flow = h /\ UNCHANGED <<phase, doubled>> /\ flows' \subseteq flows
          /\ calls[c].at # "unused"
      BY <1>3, Resuming DEF MovesOn
    <2>2. calls[c].at \in Accepted => h \in Flow /\ phase[h] = "back"
      BY <2>1 DEF Belong, CallBelongs
    <2>3. \/ /\ presented' = presented
             /\ \/ Flows!ReadRecord(c) \/ Flows!DeleteRecord(c) \/ Flows!Exchange(c)
                \/ Flows!Verified(c) \/ Flows!CallFails(c) \/ Flows!CallAnswered(c)
          \/ Flows!PresentCode(c)
      BY <1>3 DEF Resumes, Flows!ReadRecord, Flows!DeleteRecord, Flows!Exchange, Flows!Verified,
         Flows!CallFails, Flows!CallAnswered
    <2>4. Flows!PresentCode(c) => presented' = [presented EXCEPT ![h] = presented[h] + 1]
                                  /\ calls[c].at = "check" /\ calls'[c].at = "exchange"
      BY <1>t, Moves DEF Flows!PresentCode, MovesOn
    <2>5. \A g \in Flow : phase'[g] # "back" => presented'[g] = 0
      BY <1>t, <2>1, <2>2, <2>3, <2>4 DEF PresentedInv, Accepted, Flows!UnderWay
    <2>6. calls'[c].at \in Flows!UnderWay => calls[c].at \in Flows!UnderWay
      BY <1>3, Moves DEF Resumes, MovesOn, Flows!UnderWay
    <2>7. ASSUME NEW g \in Flow \ doubled' PROVE PresentedFor(g)'
      <3>1. PresentedFor(g)
        BY <2>1 DEF PresentedInv
      <3>2. \A d, e \in Callback : UnderWay(calls'[d], g) /\ UnderWay(calls'[e], g) => d = e
        BY <2>1, <2>6, <3>1 DEF PresentedFor, UnderWay
      <3>3. CASE h # g
        <4>1. presented'[g] = presented[g]
          BY <1>t, <2>3, <2>4, <3>3
        <4>. QED
          BY <4>1, <3>1, <3>2, <3>3, <2>1 DEF PresentedFor
      <3>4. CASE h = g
        <4>1. ASSUME calls[c].at \in Flows!UnderWay, NEW d \in Callback \ {c}, calls[d].flow = g
              PROVE  calls[d].at \notin {"delete", "check"}
          BY <4>1, <3>1, <3>4 DEF PresentedFor, UnderWay, Flows!UnderWay
        <4>2. CASE Flows!PresentCode(c)
          <5>1. presented[g] = 0 /\ g \notin flows
            BY <4>2, <2>4, <3>1, <3>4 DEF PresentedFor
          <5>2. presented'[g] <= 1 /\ g \notin flows'
            BY <5>1, <4>2, <2>4, <2>1, <3>4, <1>t
          <5>3. \A d \in Callback : calls'[d].flow = g => calls'[d].at \notin {"delete", "check"}
            BY <4>1, <4>2, <2>4, <2>1 DEF Flows!UnderWay
          <5>. QED
            BY <5>2, <5>3, <3>2 DEF PresentedFor
        <4>3. CASE Flows!ReadRecord(c)
          <5>1. calls[c].at = "read" /\ calls'[c].at # "check" /\ presented' = presented
                /\ flows' = flows /\ (calls'[c].at = "delete" => g \in flows)
            BY <4>3, <3>4, <1>c DEF Flows!ReadRecord, CallRecord
          <5>. QED
            BY <5>1, <4>1, <3>1, <3>2, <2>1 DEF PresentedFor, Flows!UnderWay
        <4>4. CASE Flows!DeleteRecord(c)
          <5>1. calls[c].at = "delete" /\ calls'[c].at # "delete" /\ presented' = presented
                /\ g \notin flows'
            BY <4>4, <3>4, Moves DEF Flows!DeleteRecord, MovesOn
          <5>. QED
            BY <5>1, <3>1, <3>2, <3>4, <2>1 DEF PresentedFor
        <4>5. CASE Flows!Exchange(c) \/ Flows!Verified(c) \/ Flows!CallFails(c)
                   \/ Flows!CallAnswered(c)
          <5>1. calls'[c].at \notin {"delete", "check"}
            BY <4>5, Moves DEF MovesOn
          <5>2. presented' = presented
            BY <4>5 DEF Flows!Exchange, Flows!Verified, Flows!CallFails, Flows!CallAnswered
          <5>. QED
            BY <5>1, <5>2, <3>1, <3>2, <2>1 DEF PresentedFor
        <4>. QED
          BY <2>3, <4>2, <4>3, <4>4, <4>5
      <3>. QED
        BY <3>3, <3>4
    <2>. QED
      BY <2>5, <2>7 DEF PresentedInv
  <1>4. CASE UNCHANGED Flows!signInVars
    BY <1>4 DEF Flows!signInVars, PresentedInv, PresentedFor, UnderWay
  <1>. QED
    BY <1>1, <1>2, <1>3, <1>4 DEF Flows!SignInNext, Resumes, Meanwhile

\* Every step leaves the code of a flow to one callback.
LEMMA CodeTakenStep ==
    ASSUME Flows!SignInTyped, Belong, CodeTaken, [Flows!SignInNext]_(Flows!signInVars)
    PROVE  CodeTaken'
  <1>t. calls \in [Callback -> CallRecord] /\ codes \subseteq Flow
    BY DEF Flows!SignInTyped, CallRecord, At
  <1>1. ASSUME NEW f \in Flow, Meanwhile(f) PROVE CodeTaken'
    <2>1. calls' = calls
      BY <1>1 DEF Meanwhile, Flows!start, Flows!StartAnswered, Flows!Authorised, Flows!Declined,
         Flows!Lapse
    <2>2. codes' \subseteq codes \cup {g \in Flow : phase[g] = "away"}
      BY <1>t, <1>1 DEF Meanwhile, Flows!start, Flows!StartAnswered, Flows!Authorised, Flows!Declined,
         Flows!Lapse
    <2>3. ASSUME NEW c \in Callback, calls[c].at \in Answered PROVE phase[calls[c].flow] # "away"
      BY <2>3 DEF Belong, CallBelongs, Answered, Accepted
    <2>. QED
      BY <2>1, <2>2, <2>3 DEF CodeTaken
  <1>2. ASSUME NEW c \in Callback, NEW b \in Browser, NEW f \in Flow, Flows!callback(c, b, f)
        PROVE  CodeTaken'
    <2>1. /\ UNCHANGED codes /\ calls'[c].at \notin Answered
          /\ \A d \in Callback \ {c} : calls'[d] = calls[d]
      BY <1>t, <1>2 DEF Flows!callback, Answered
    <2>. QED
      BY <2>1 DEF CodeTaken
  <1>3. ASSUME NEW c \in Callback, Resumes(c) PROVE CodeTaken'
    <2>1. /\ \A d \in Callback \ {c} : calls'[d] = calls[d]
          /\ calls'[c].flow = calls[c].flow /\ codes' \subseteq codes
      BY <1>3, Resuming DEF MovesOn
    <2>2. CASE calls'[c].at \in Answered => calls[c].at \in Answered
      BY <2>1, <2>2 DEF CodeTaken
    <2>3. CASE Flows!Exchange(c) /\ calls'[c].at = "verify"
      <3>1. calls[c].flow \in codes /\ codes' = codes \ {calls[c].flow}
        BY <2>3, <1>t DEF Flows!Exchange, CallRecord
      <3>2. \A d \in Callback \ {c} : calls'[d].at \in Answered => calls'[d].flow # calls[c].flow
        BY <2>1, <3>1 DEF CodeTaken
      <3>. QED
        BY <2>1, <3>1, <3>2 DEF CodeTaken
    <2>4. \/ calls'[c].at \in Answered => calls[c].at \in Answered
          \/ Flows!Exchange(c) /\ calls'[c].at = "verify"
      BY <1>3, Moves DEF Resumes, MovesOn, Answered
    <2>. QED
      BY <2>2, <2>3, <2>4
  <1>4. CASE UNCHANGED Flows!signInVars
    BY <1>4 DEF Flows!signInVars, CodeTaken
  <1>. QED
    BY <1>1, <1>2, <1>3, <1>4 DEF Flows!SignInNext, Resumes, Meanwhile

\* A flow that a call came for has begun; its visits change by callbacks of its own alone.
LEMMA CameForBegun ==
    ASSUME Flows!SignInTyped, Belong, NEW c \in Callback
    PROVE  /\ Came(c) => /\ calls[c].flow \in Flow /\ phase[calls[c].flow] # "unused"
                         /\ startedIn[calls[c].flow] # None
           /\ ~Came(c) => calls[c] = Flows!NoCall
           /\ calls[c].at \in Accepted => c \in Visits(calls[c].flow)
                                         /\ phase[calls[c].flow] = "back"
                                         /\ calls[c].flow \in Flow
  <1>1. CallBelongs(calls[c]) /\ \A f \in Flow : phase[f] = "unused" <=> startedIn[f] = None
    BY DEF Belong, FlowsBegun
  <1>2. calls[c].at \in Accepted => Came(c)
    BY DEF Came, Accepted, Flows!UnderWay
  <1>. QED
    BY <1>1, <1>2 DEF CallBelongs, Came, Visits

\* A sign-in that begins disturbs the others of its browser.
LEMMA UndisturbedStart ==
    ASSUME Flows!SignInTyped, Belong, Undisturbed,
           NEW b \in Browser, NEW f \in Flow, Flows!start(b, f)
    PROVE  Undisturbed'
  <1>1. /\ startedIn' = [startedIn EXCEPT ![f] = b] /\ phase' = [phase EXCEPT ![f] = "stored"]
        /\ flows' = flows \cup {f} /\ UNCHANGED <<over, cookie, calls, failures, codes>>
        /\ disturbed \subseteq disturbed'
        /\ \A g \in Flow : startedIn[g] = b => g \in disturbed' /\ f \in disturbed'
        /\ phase[f] = "unused" /\ startedIn[f] = None
    BY DEF Flows!start, Flows!StartedBy, Belong, FlowsBegun
  <1>t. startedIn \in [Flow -> Browser \cup {None}] /\ DOMAIN phase = Flow
    BY DEF Flows!SignInTyped
  <1>2. \A c \in Callback : Came(c) => calls[c].flow # f
    BY <1>1, CameForBegun
  <1>3. \A g \in Flow : Visits(g)' = Visits(g)
    BY <1>1, <1>2, <1>t DEF Visits, Came
  <1>4. OneFlow'
    BY <1>1, <1>t DEF Undisturbed, OneFlow
  <1>5. OneVisit'
    BY <1>1, <1>3 DEF Undisturbed, OneVisit
  <1>6. CookieSpent'
    <2>1. ASSUME NEW c \in Callback, Came(c), calls[c].jar # None
          PROVE  calls[c].jar \in Flow /\ startedIn[calls[c].jar] = calls[c].browser
      BY <2>1 DEF Flows!SignInTyped, Belong, CallBelongs, Came
    <2>. QED
      BY <2>1, <1>1, <1>t DEF Undisturbed, CookieSpent, Came
  <1>7. ASSUME NEW g \in Flow \ (over' \cup disturbed') PROVE Kept(g)'
    <2>1. CASE g = f
      BY <2>1, <1>1, <1>t DEF Kept
    <2>2. CASE g # f
      <3>1. Kept(g) /\ phase'[g] = phase[g] /\ startedIn'[g] = startedIn[g]
            /\ (g \notin flows' => g \notin flows)
        BY <2>2, <1>1, <1>t DEF Undisturbed
      <3>. QED
        BY <3>1, <1>1, <1>3 DEF Kept
    <2>. QED
      BY <2>1, <2>2
  <1>. QED
    BY <1>4, <1>5, <1>6, <1>7 DEF Undisturbed

\* Answers, the provider and time leave an undisturbed flow its cookie, its record and its code.
LEMMA UndisturbedMeanwhile ==
    ASSUME Flows!SignInTyped, Belong, Undisturbed, NEW f \in Flow,
           Flows!StartAnswered(f) \/ Flows!Authorised(f) \/ Flows!Declined(f) \/ Flows!Lapse(f)
    PROVE  Undisturbed'
  <1>t. /\ startedIn \in [Flow -> Browser \cup {None}] /\ cookie \in [Browser -> Flow \cup {None}]
        /\ phase \in [Flow -> {"unused", "stored", "away", "back", "declined"}]
    BY DEF Flows!SignInTyped
  <1>1. /\ UNCHANGED <<startedIn, calls, failures, disturbed>> /\ over \subseteq over'
        /\ \A g \in Flow \ {f} : /\ phase'[g] = phase[g]
                                 /\ g \in flows' <=> g \in flows
                                 /\ g \in codes' <=> g \in codes
    <2>1. CASE Flows!StartAnswered(f)
      BY <1>t, <2>1 DEF Flows!StartAnswered
    <2>2. CASE Flows!Authorised(f)
      BY <1>t, <2>2 DEF Flows!Authorised
    <2>3. CASE Flows!Declined(f)
      BY <1>t, <2>3 DEF Flows!Declined
    <2>4. CASE Flows!Lapse(f)
      BY <1>t, <2>4 DEF Flows!Lapse
    <2>. QED
      BY <2>1, <2>2, <2>3, <2>4
  <1>2. \A g \in Flow : Visits(g)' = Visits(g)
    BY <1>1 DEF Visits, Came
  <1>a. OneFlow'
    BY <1>1 DEF Undisturbed, OneFlow
  <1>b. OneVisit'
    BY <1>1, <1>2 DEF Undisturbed, OneVisit
  <1>3. CookieSpent'
    BY <1>1 DEF Undisturbed, CookieSpent, Came
  <1>4. ASSUME NEW g \in Flow \ (over' \cup disturbed') PROVE Kept(g)'
    <2>1. Kept(g)
      BY <1>1 DEF Undisturbed
    <2>2. phase[g] # "unused" => startedIn[g] \in Browser
      BY <1>t DEF Belong, FlowsBegun
    <2>3. phase[g] # "unused" /\ g # f /\ startedIn[g] = startedIn[f] => g \in disturbed
      BY <2>2 DEF Undisturbed, OneFlow
    <2>4. CASE Flows!StartAnswered(f)
      <3>1. /\ phase' = [phase EXCEPT ![f] = "away"] /\ phase[f] = "stored"
            /\ cookie' = [cookie EXCEPT ![startedIn[f]] = f]
            /\ UNCHANGED <<flows, codes>>
        BY <2>4 DEF Flows!StartAnswered
      <3>2. CASE g = f
        BY <3>1, <3>2, <2>1, <2>2, <1>1, <1>2, <1>t DEF Kept
      <3>3. CASE g # f
        BY <3>1, <3>3, <2>1, <2>2, <2>3, <1>1, <1>2, <1>t DEF Kept
      <3>. QED
        BY <3>2, <3>3
    <2>5. CASE Flows!Authorised(f)
      <3>1. /\ phase' = [phase EXCEPT ![f] = "back"] /\ phase[f] = "away"
            /\ UNCHANGED <<flows, cookie>> /\ codes' = codes \cup {f}
        BY <2>5 DEF Flows!Authorised
      <3>. QED
        BY <3>1, <2>1, <1>1, <1>2, <1>t DEF Kept
    <2>6. CASE Flows!Declined(f)
      <3>1. /\ phase' = [phase EXCEPT ![f] = "declined"] /\ phase[f] = "away"
            /\ UNCHANGED <<flows, cookie, codes>>
        BY <2>6 DEF Flows!Declined
      <3>. QED
        BY <3>1, <2>1, <1>1, <1>2, <1>t DEF Kept
    <2>7. CASE Flows!Lapse(f)
      <3>1. /\ g # f /\ UNCHANGED <<phase, codes>>
            /\ \A b \in Browser : cookie[b] = g => cookie'[b] = g
        BY <2>7, <1>t DEF Flows!Lapse
      <3>. QED
        BY <3>1, <2>1, <2>2, <1>1, <1>2 DEF Kept
    <2>. QED
      BY <2>4, <2>5, <2>6, <2>7
  <1>. QED
    BY <1>a, <1>b, <1>3, <1>4 DEF Undisturbed

\* A callback disturbs the other flows of its browser.
LEMMA UndisturbedCallback ==
    ASSUME Flows!SignInTyped, Belong, Undisturbed,
           NEW c \in Callback, NEW b \in Browser, NEW f \in Flow, Flows!callback(c, b, f)
    PROVE  Undisturbed'
  <1>t. calls \in [Callback -> CallRecord]
    BY DEF Flows!SignInTyped, CallRecord, At
  <1>1. /\ UNCHANGED <<startedIn, phase, over, flows, cookie, failures, codes>>
        /\ ~Came(c) /\ Came(c)' /\ \A d \in Callback \ {c} : calls'[d] = calls[d]
        /\ calls'[c].flow = f /\ calls'[c].browser = b /\ calls'[c].jar = cookie[b]
    BY <1>t DEF Flows!callback, Came
  <1>2. /\ disturbed \subseteq disturbed'
        /\ \A g \in Flow \ {f} : startedIn[g] = b => g \in disturbed'
        /\ startedIn[f] = b /\ f \notin disturbed'
             => \A d \in Callback : calls[d].flow = f => calls[d].browser # b
    BY DEF Flows!callback, Flows!StartedBy
  <1>3. calls[c].flow = None /\ None \notin Flow
    <2>1. calls[c] = Flows!NoCall
      BY <1>1, CameForBegun
    <2>. QED
      BY <2>1 DEF Flows!NoCall
  <1>4. ASSUME NEW g \in Flow
        PROVE  Visits(g)' = IF g = f /\ startedIn[f] = b THEN Visits(g) \cup {c} ELSE Visits(g)
    <2>1. \A d \in Callback \ {c} : d \in Visits(g)' <=> d \in Visits(g)
      BY <1>1 DEF Visits, Came
    <2>2. c \notin Visits(g) /\ (c \in Visits(g)' <=> g = f /\ startedIn[f] = b)
      BY <1>1 DEF Visits, Came
    <2>3. Visits(g) \subseteq Callback /\ Visits(g)' \subseteq Callback
      BY DEF Visits
    <2>4. CASE g = f /\ startedIn[f] = b
      BY <2>1, <2>2, <2>3, <2>4
    <2>5. CASE ~(g = f /\ startedIn[f] = b)
      <3>1. \A d \in Callback : d \in Visits(g)' <=> d \in Visits(g)
        BY <2>1, <2>2, <2>5
      <3>2. Visits(g)' = Visits(g)
        BY <3>1, <2>3
      <3>. QED
        BY <3>2, <2>5
    <2>. QED
      BY <2>4, <2>5
  <1>5. OneFlow'
    BY <1>1, <1>2 DEF Undisturbed, OneFlow
  <1>6. OneVisit'
    <2>1. startedIn[f] = b /\ f \notin disturbed' => Visits(f) = {}
      BY <1>2 DEF Visits
    <2>. QED
      BY <2>1, <1>2, <1>4 DEF Undisturbed, OneVisit
  <1>7. CookieSpent'
    BY <1>1, <1>2, ZenonT(40) DEF Undisturbed, CookieSpent, Came
  <1>8. ASSUME NEW g \in Flow \ (over' \cup disturbed') PROVE Kept(g)'
    <2>1. Kept(g) /\ Visits(g) \subseteq Visits(g)'
      BY <1>1, <1>2, <1>4 DEF Undisturbed
    <2>2. \A d \in Visits(g) : calls'[d] = calls[d]
      BY <1>1 DEF Visits
    <2>. QED
      BY <2>1, <2>2, <1>1 DEF Kept
  <1>. QED
    BY <1>5, <1>6, <1>7, <1>8 DEF Undisturbed

\* An await of a callback takes the cookie, the record and the code of its own flow alone.
LEMMA UndisturbedResume ==
    ASSUME Flows!SignInTyped, Belong, Undisturbed, NEW c \in Callback, Resumes(c)
    PROVE  Undisturbed'
  <1>f. failures \in 0..MaxFailures /\ MaxFailures \in Nat
    BY DEF Flows!SignInTyped
  <1>n. failures \in Nat
    BY ONLY <1>f
  <1>t. /\ calls \in [Callback -> CallRecord] /\ cookie \in [Browser -> Flow \cup {None}]
        /\ startedIn \in [Flow -> Browser \cup {None}]
    BY DEF Flows!SignInTyped, CallRecord, At
  <1>1. /\ UNCHANGED <<startedIn, phase, over, disturbed>>
        /\ \A d \in Callback \ {c} : calls'[d] = calls[d]
        /\ calls'[c].flow = calls[c].flow /\ calls'[c].browser = calls[c].browser
        /\ calls'[c].jar = calls[c].jar
        /\ Came(c) /\ Came(c)'
    BY Resuming DEF MovesOn, Came
  <1>2. \A g \in Flow : Visits(g)' = Visits(g)
    BY <1>1 DEF Visits, Came
  <1>a. OneFlow'
    BY <1>1 DEF Undisturbed, OneFlow
  <1>b. OneVisit'
    BY <1>1, <1>2 DEF Undisturbed, OneVisit
  <1>3. CookieSpent'
    BY <1>1 DEF Undisturbed, CookieSpent, Came
  <1>4. /\ calls[c].at \in Past => calls'[c].at \in Past
        /\ calls[c].at \in Answered \cup {"refused", "out"}
             => calls'[c].at \in Answered \cup {"refused", "out"}
    BY Moves DEF Resumes, MovesOn, Past, Answered
  <1>5. failures' = 0 => failures = 0 /\ ~Flows!CallFails(c)
    <2>1. Flows!CallFails(c) => failures' = failures + 1
      BY DEF Flows!CallFails
    <2>2. ~Flows!CallFails(c) => failures' = failures
      BY DEF Resumes, Flows!ReadRecord, Flows!DeleteRecord, Flows!PresentCode, Flows!Exchange,
         Flows!Verified, Flows!CallAnswered
    <2>. QED
      BY <2>1, <2>2, <1>n
  <1>6. ASSUME NEW g \in Flow \ (over' \cup disturbed') PROVE Kept(g)'
    <2>0. Kept(g)
      BY <1>1 DEF Undisturbed
    <2>1. phase[g] \in {"away", "back", "declined"} =>
              cookie'[startedIn[g]] = g \/ Visits(g) # {}
      <3>1. CASE cookie' = cookie
        BY <2>0, <3>1 DEF Kept
      <3>2. CASE /\ calls[c].jar # None
                 /\ cookie' = [cookie EXCEPT ![calls[c].browser] = None]
        <4>1. CASE startedIn[g] # calls[c].browser
          BY <2>0, <3>2, <4>1, <1>t DEF Kept, Belong, FlowsBegun
        <4>2. CASE startedIn[g] = calls[c].browser
          <5>1. calls[c].flow = g
            BY <4>2, <3>2, <1>1 DEF Undisturbed, CookieSpent
          <5>. QED
            BY <5>1, <4>2, <1>1 DEF Visits
        <4>. QED
          BY <4>1, <4>2
      <3>3. \/ cookie' = cookie
            \/ calls[c].jar # None /\ cookie' = [cookie EXCEPT ![calls[c].browser] = None]
        BY DEF Resumes, Flows!ReadRecord, Flows!DeleteRecord, Flows!PresentCode, Flows!Exchange,
           Flows!Verified, Flows!CallFails, Flows!CallAnswered
      <3>. QED
        BY <3>1, <3>2, <3>3
    <2>2. phase[g] # "unused" /\ g \notin flows' => \E d \in Visits(g) : calls'[d].at \in Past
      <3>1. CASE g \notin flows
        BY <3>1, <2>0, <1>1, <1>4 DEF Kept, Visits
      <3>2. CASE g \in flows /\ g \notin flows'
        <4>1. Flows!DeleteRecord(c) /\ calls[c].flow = g
          BY <3>2 DEF Resumes, Flows!ReadRecord, Flows!DeleteRecord, Flows!PresentCode,
             Flows!Exchange, Flows!Verified, Flows!CallFails, Flows!CallAnswered
        <4>2. calls'[c].at \in Past /\ calls[c].at \in Accepted
          BY <4>1, Moves DEF MovesOn, Past, Accepted, Flows!UnderWay
        <4>. QED
          BY <4>1, <4>2, CameForBegun
      <3>. QED
        BY <3>1, <3>2
    <2>3. phase[g] = "back" /\ g \notin codes' /\ failures' = 0
          => \E d \in Visits(g) : calls'[d].at \in Answered \cup {"refused", "out"}
      <3>1. CASE g \notin codes
        BY <3>1, <2>0, <1>1, <1>4, <1>5 DEF Kept, Visits
      <3>2. CASE g \in codes /\ g \notin codes' /\ failures' = 0
        <4>1. Flows!Exchange(c) /\ calls[c].flow = g
          BY <3>2, <1>5 DEF Resumes, Flows!ReadRecord, Flows!DeleteRecord, Flows!PresentCode,
             Flows!Exchange, Flows!Verified, Flows!CallAnswered
        <4>2. calls'[c].at \in Answered \cup {"refused", "out"} /\ calls[c].at \in Accepted
          BY <4>1, Moves DEF MovesOn, Answered, Accepted, Flows!UnderWay
        <4>. QED
          BY <4>1, <4>2, CameForBegun
      <3>. QED
        BY <3>1, <3>2
    <2>. QED
      BY <2>1, <2>2, <2>3, <1>1, <1>2 DEF Kept
  <1>. QED
    BY <1>a, <1>b, <1>3, <1>6 DEF Undisturbed

\* Every step keeps what an undisturbed flow has still to find.
LEMMA UndisturbedStep ==
    ASSUME Flows!SignInTyped, Belong, Undisturbed, [Flows!SignInNext]_(Flows!signInVars)
    PROVE  Undisturbed'
  <1>1. CASE UNCHANGED Flows!signInVars
    BY <1>1 DEF Flows!signInVars, Undisturbed, OneFlow, OneVisit, CookieSpent, Kept, Visits, Came
  <1>. QED
    BY <1>1, UndisturbedStart, UndisturbedMeanwhile, UndisturbedCallback, UndisturbedResume
       DEF Flows!SignInNext, Resumes

\* Why a callback may be refused.
Reason(call) ==
    \/ call.flow \in over \cup disturbed
    \/ call.browser # startedIn[call.flow]
    \/ phase[call.flow] = "declined"

\* Every step refuses a callback for a reason.
LEMMA RefusedStep ==
    ASSUME Flows!SignInTyped, Belong, Undisturbed, Flows!RefusedForReason,
           [Flows!SignInNext]_(Flows!signInVars)
    PROVE  Flows!RefusedForReason'
  <1>t. /\ calls \in [Callback -> CallRecord] /\ over \subseteq Flow
        /\ phase \in [Flow -> {"unused", "stored", "away", "back", "declined"}]
        /\ startedIn \in [Flow -> Browser \cup {None}]
    BY DEF Flows!SignInTyped, CallRecord, At
  <1>f. failures \in 0..MaxFailures /\ MaxFailures \in Nat
    BY DEF Flows!SignInTyped
  <1>n. failures \in Nat
    BY ONLY <1>f
  <1>0. ASSUME NEW c \in Callback, calls[c].at \in {"refused", "out"}, failures = 0
        PROVE  Reason(calls[c]) /\ Came(c)
    BY <1>0 DEF Flows!RefusedForReason, Reason, Came
  <1>1. ASSUME NEW f \in Flow, Meanwhile(f) PROVE Flows!RefusedForReason'
    <2>1. UNCHANGED <<calls, failures>> /\ over \subseteq over' /\ disturbed \subseteq disturbed'
      BY <1>1 DEF Meanwhile, Flows!start, Flows!StartAnswered, Flows!Authorised, Flows!Declined,
         Flows!Lapse
    <2>2. ASSUME NEW g \in Flow, phase[g] # "unused"
          PROVE  startedIn'[g] = startedIn[g] /\ (phase[g] = "declined" => phase'[g] = "declined")
      BY <1>1, <1>t, <2>2 DEF Meanwhile, Flows!start, Flows!StartAnswered, Flows!Authorised,
         Flows!Declined, Flows!Lapse
    <2>3. ASSUME NEW c \in Callback, calls[c].at \in {"refused", "out"}, failures = 0
          PROVE  Reason(calls[c])'
      BY <2>1, <2>2, <2>3, <1>0, CameForBegun DEF Reason
    <2>. QED
      BY <2>1, <2>3 DEF Flows!RefusedForReason, Reason
  <1>2. ASSUME NEW c \in Callback, NEW b \in Browser, NEW f \in Flow, Flows!callback(c, b, f)
        PROVE  Flows!RefusedForReason'
    <2>1. /\ UNCHANGED <<startedIn, phase, over, failures>>
          /\ disturbed \subseteq disturbed' /\ \A d \in Callback \ {c} : calls'[d] = calls[d]
          /\ calls'[c].flow = f /\ calls'[c].browser = b
          /\ calls'[c].at = "refused" => phase[f] = "declined" \/ cookie[b] # f
          /\ phase[f] \in {"back", "declined"}
      BY <1>2, <1>t DEF Flows!callback, Flows!ComesFromHere
    <2>2. ASSUME startedIn[f] = b, Visits(f) # {} PROVE f \in disturbed'
      BY <1>2, <2>2 DEF Flows!callback, Flows!StartedBy, Visits
    <2>3. ASSUME calls'[c].at \in {"refused", "out"} PROVE Reason(calls[c])'
      <3>1. calls'[c].at = "refused"
        BY <1>2, <1>t, <2>3 DEF Flows!callback
      <3>2. CASE f \in over \cup disturbed \/ startedIn[f] # b \/ phase[f] = "declined"
        BY <3>2, <2>1 DEF Reason
      <3>3. CASE f \notin over \cup disturbed /\ startedIn[f] = b /\ phase[f] # "declined"
        <4>1. Visits(f) # {}
          BY <3>1, <3>3, <2>1 DEF Undisturbed, Kept
        <4>. QED
          BY <4>1, <3>3, <2>1, <2>2 DEF Reason
      <3>. QED
        BY <3>2, <3>3
    <2>4. ASSUME NEW d \in Callback \ {c}, calls'[d].at \in {"refused", "out"}, failures = 0
          PROVE  Reason(calls[d])'
      BY <2>4, <2>1, <1>0 DEF Reason
    <2>. QED
      BY <2>1, <2>3, <2>4 DEF Flows!RefusedForReason, Reason
  <1>3. ASSUME NEW c \in Callback, Resumes(c) PROVE Flows!RefusedForReason'
    <2>1. /\ UNCHANGED <<startedIn, phase, over, disturbed>>
          /\ \A d \in Callback \ {c} : calls'[d] = calls[d]
          /\ calls'[c].flow = calls[c].flow /\ calls'[c].browser = calls[c].browser
      BY <1>3, Resuming DEF MovesOn
    <2>2. failures' = 0 => failures = 0 /\ ~Flows!CallFails(c)
      <3>1. Flows!CallFails(c) => failures' = failures + 1
        BY DEF Flows!CallFails
      <3>2. ~Flows!CallFails(c) => failures' = failures
        BY <1>3 DEF Resumes, Flows!ReadRecord, Flows!DeleteRecord, Flows!PresentCode,
           Flows!Exchange, Flows!Verified, Flows!CallAnswered
      <3>. QED
        BY <3>1, <3>2, <1>n
    <2>3. ASSUME calls'[c].at \in {"refused", "out"}, failures' = 0 PROVE Reason(calls[c])
      <3> DEFINE f == calls[c].flow
      <3>1. CASE calls[c].at \in {"refused", "out"}
        BY <3>1, <2>2, <2>3, <1>0
      <3>2. CASE calls[c].at \in Flows!UnderWay
        <4>1. c \in Visits(f) /\ f \in Flow /\ phase[f] = "back" /\ calls[c].at \in Accepted
          BY <3>2, CameForBegun DEF Accepted
        <4>2. \/ Flows!ReadRecord(c) /\ f \notin flows /\ calls[c].at = "read"
              \/ Flows!DeleteRecord(c) /\ f \in over
              \/ Flows!Exchange(c) /\ f \notin codes /\ calls[c].at = "exchange"
          <5>1. CASE Flows!ReadRecord(c)
            BY <5>1, <2>3, <1>t DEF Flows!ReadRecord, CallRecord
          <5>2. CASE Flows!DeleteRecord(c)
            BY <5>2, <2>3, <1>t DEF Flows!DeleteRecord, CallRecord
          <5>3. CASE Flows!Exchange(c)
            BY <5>3, <2>3, <1>t DEF Flows!Exchange, CallRecord
          <5>. QED
            BY <5>1, <5>2, <5>3, <1>3, <2>2, <2>3, <3>2, Moves
               DEF Resumes, MovesOn, Flows!UnderWay
        <4>3. CASE f \in over \cup disturbed
          BY <4>3 DEF Reason
        <4>4. CASE f \notin over \cup disturbed
          <5>0. Kept(f)
            BY <4>1, <4>4 DEF Undisturbed
          <5>1. \A d \in Visits(f) : d = c
            <6>1. OneVisit /\ f \in Flow \ disturbed /\ c \in Visits(f)
              BY <4>1, <4>4 DEF Undisturbed
            <6>2. \A g \in Flow \ disturbed : \A a, d \in Visits(g) : a = d
              BY <6>1 DEF OneVisit
            <6>. QED
              BY <6>1, <6>2
          <5>. QED
            BY <5>0, <5>1, <4>1, <4>2, <4>4, <2>2, <2>3 DEF Kept, Past, Answered
        <4>. QED
          BY <4>3, <4>4
      <3>. QED
        BY <3>1, <3>2, <2>3, <1>3, Moves DEF Resumes, MovesOn, Flows!UnderWay
    <2>4. ASSUME NEW d \in Callback, calls'[d].at \in {"refused", "out"}, failures' = 0
          PROVE  Reason(calls[d])'
      <3>1. Reason(calls[d])
        BY <2>1, <2>2, <2>3, <2>4, <1>0
      <3>. QED
        BY <3>1, <2>1 DEF Reason
    <2>. QED
      BY <2>4 DEF Flows!RefusedForReason, Reason
  <1>4. CASE UNCHANGED Flows!signInVars
    BY <1>4 DEF Flows!signInVars, Flows!RefusedForReason
  <1>. QED
    BY <1>1, <1>2, <1>3, <1>4 DEF Flows!SignInNext, Resumes, Meanwhile

\* At first nobody signs in.
LEMMA SignInStarts == Flows!SignInInit => SignInInv
  <1> SUFFICES ASSUME Flows!SignInInit PROVE SignInInv
    OBVIOUS
  <1> USE DEF Flows!SignInInit
  <1>0. \A c \in Callback : calls[c] = Flows!NoCall /\ calls[c].at = "unused" /\ calls[c].flow = None
    BY DEF Flows!NoCall
  <1>1. Flows!SignInTyped
    <2>1. calls \in [Callback -> CallRecord]
      BY DEF Flows!NoCall, CallRecord, At
    <2>2. failures \in 0..MaxFailures /\ presented \in [Flow -> Nat]
      OBVIOUS
    <2>3. /\ startedIn \in [Flow -> Browser \cup {None}]
          /\ phase \in [Flow -> {"unused", "stored", "away", "back", "declined"}]
          /\ cookie \in [Browser -> Flow \cup {None}]
      OBVIOUS
    <2>. QED
      BY <2>1, <2>2, <2>3 DEF Flows!SignInTyped, CallRecord, At
  <1>2. Belong
    BY <1>0 DEF Belong, FlowsBegun, CallBelongs
  <1>3. PresentedInv
    BY <1>0 DEF PresentedInv, PresentedFor, UnderWay
  <1>4. CodeTaken
    BY <1>0 DEF CodeTaken, Answered
  <1>5. Undisturbed
    BY <1>0 DEF Undisturbed, OneFlow, OneVisit, CookieSpent, Kept, Visits, Came
  <1>6. Flows!RefusedForReason
    BY <1>0 DEF Flows!RefusedForReason
  <1>. QED
    BY <1>1, <1>2, <1>3, <1>4, <1>5, <1>6 DEF SignInInv

\* Every step keeps the invariant of signing in.
LEMMA SignInStep ==
    SignInInv /\ [Flows!SignInNext]_(Flows!signInVars) => SignInInv'
  BY SignInTypes, BelongStep, PresentedStep, CodeTakenStep, UndisturbedStep, RefusedStep
     DEF SignInInv

\* The invariant is what the flow promises.
LEMMA SignInPromises ==
    SignInInv => /\ Flows!SignInTyped /\ Flows!CodePresentedOnce /\ Flows!SignedInWhereStarted
                 /\ Flows!RefusedForReason
  <1> SUFFICES ASSUME SignInInv
               PROVE  Flows!CodePresentedOnce /\ Flows!SignedInWhereStarted
    BY DEF SignInInv
  <1>1. Flows!CodePresentedOnce
    BY DEF SignInInv, PresentedInv, PresentedFor, Flows!CodePresentedOnce
  <1>2. Flows!SignedInWhereStarted
    BY DEF SignInInv, Belong, CallBelongs, CodeTaken, Accepted, Answered,
       Flows!SignedInWhereStarted
  <1>. QED
    BY <1>1, <1>2

HIDE FlowsAssumption DEF FlowsAssumption, Flows!SignInAssumption, Flows!Go, Flows!atProvider,
     Flows!observers

----------------------------------------------------------------------------
\* The keys that sign id tokens.

Differs(set, k) == IF k \in set THEN k \notin published ELSE k \in published
Awaits == {"awaits stale", "awaits unknown"}
Had == {"had stale", "had unknown"}

\* What is cached differs from what is published by what changed since it was asked for.
CacheAges ==
    /\ keys # {} => fetchedAt # Signers!Never
    /\ \A k \in Key : Differs(keys, k) =>
          /\ fetchedAt # Signers!Never => changedAt[k] >= fetchedAt - Latency
          /\ inFlight = Signers!Nothing /\ ~missed => changedAt[k] >= lastAttemptAt

\* So does what a fetch has read, and a fetch is over in time.
FetchAges ==
    /\ inFlight # Signers!Nothing => time - lastAttemptAt <= Latency
    /\ inFlight.read = "read" =>
          \A k \in Key : Differs(inFlight.keys, k) => changedAt[k] >= lastAttemptAt

\* Whoever awaited a fetch goes on at the moment that it is over.
GetsPrompt ==
    \A c \in Caller :
        /\ gets[c].at # "rest" => gets[c].key \in Key
        /\ gets[c].at \in Had => /\ time - lastAttemptAt <= Latency
                                 /\ ~missed => fetchedAt = time

PastIsPast ==
    /\ fetchedAt <= time /\ lastAttemptAt <= time
    /\ \A k \in Key : changedAt[k] <= time

KeysInv ==
    /\ Signers!KeysTyped /\ PastIsPast /\ CacheAges /\ FetchAges /\ GetsPrompt
    /\ Signers!RetiredIsForgotten /\ Signers!PublishedIsFound

USE SignersAssumption DEF SignersAssumption, Signers!SigningKeysAssumption, Signers!provider,
    Signers!cache

Promised == Signers!RetiredIsForgotten /\ Signers!PublishedIsFound

\* What is a number, and how far back Never is.
LEMMA Numbers ==
    ASSUME Signers!KeysTyped
    PROVE  /\ time \in Nat /\ fetchedAt \in Int /\ lastAttemptAt \in Int
           /\ changedAt \in [Key -> Int]
           /\ {CacheTtl, Latency, MinRefetch} \subseteq Nat /\ MinRefetch > Latency
           /\ Signers!Never \in Int /\ Signers!Never < 0
           /\ -Signers!Never > CacheTtl /\ -Signers!Never > Latency
  <1>1. MaxTime \in Nat /\ CacheTtl \in Nat /\ Latency \in Nat /\ MinRefetch \in Nat
        /\ MinRefetch > Latency
    OBVIOUS
  <1>2. /\ Signers!Never \in Int /\ Signers!Never < 0
        /\ -Signers!Never > CacheTtl /\ -Signers!Never > Latency
    BY ONLY <1>1 DEF Signers!Never
  <1>3. /\ time \in 0..MaxTime /\ fetchedAt \in {Signers!Never} \cup 0..MaxTime
        /\ lastAttemptAt \in {Signers!Never} \cup 0..MaxTime
        /\ changedAt \in [Key -> {Signers!Never} \cup 0..MaxTime]
    BY DEF Signers!KeysTyped
  <1>. QED
    BY ONLY <1>1, <1>2, <1>3

GetStates == {"rest", "awaits stale", "awaits unknown", "had stale", "had unknown"}
GetRecord == [key : Key \cup {Signers!Resting.key}, at : GetStates]

\* A get() that moves on keeps its type.
LEMMA GetsTyped ==
    ASSUME gets \in [Caller -> GetRecord], NEW c \in Caller, NEW k \in Key, NEW stage \in GetStates
    PROVE  /\ Signers!Resting \in GetRecord /\ Signers!Resting.at = "rest"
           /\ [gets EXCEPT ![c] = Signers!Resting] \in [Caller -> GetRecord]
           /\ [gets EXCEPT ![c] = [key |-> k, at |-> stage]] \in [Caller -> GetRecord]
  <1>1. Signers!Resting.at = "rest"
    BY DEF Signers!Resting
  <1>2. Signers!Resting \in GetRecord
    BY DEF Signers!Resting, GetRecord, GetStates
  <1>3. [key |-> k, at |-> stage] \in GetRecord
    BY DEF GetRecord
  <1>. QED
    BY <1>1, <1>2, <1>3

\* A get() that returns what the cache has, when the cache is young or the fetch just failed.
LEMMA AnswersAreTrue ==
    ASSUME Signers!KeysTyped, CacheAges, NEW c \in Caller, NEW k \in Key,
           Signers!Answered(c, k), UNCHANGED <<time, Signers!provider>>,
           k \in keys /\ ~missed => time - fetchedAt <= CacheTtl,
           k \notin keys /\ ~missed /\ inFlight = Signers!Nothing
               => time - lastAttemptAt < MinRefetch
    PROVE  Promised'
  <1>n. /\ time \in Nat /\ fetchedAt \in Int /\ lastAttemptAt \in Int
        /\ changedAt[k] \in Int /\ CacheTtl \in Nat /\ Latency \in Nat /\ MinRefetch \in Nat
    BY Numbers
  <1>1. /\ answer'.found <=> k \in keys
        /\ answer'.published <=> k \in published
        /\ answer'.missed = missed /\ answer'.since = time - changedAt[k]
        /\ answer'.crowded <=> inFlight # Signers!Nothing
    BY DEF Signers!Answered
  <1>2. Signers!RetiredIsForgotten'
    <2>1. ASSUME k \in keys, k \notin published, ~missed
          PROVE  time - changedAt[k] <= CacheTtl + Latency
      <3>1. changedAt[k] >= fetchedAt - Latency
        BY <2>1 DEF CacheAges, Differs
      <3>. QED
        BY <1>n, <2>1, <3>1
    <2>. QED
      BY <1>1, <2>1 DEF Signers!RetiredIsForgotten
  <1>3. Signers!PublishedIsFound'
    <2>1. ASSUME k \notin keys, k \in published, ~missed, inFlight = Signers!Nothing
          PROVE  time - changedAt[k] < MinRefetch
      <3>1. changedAt[k] >= lastAttemptAt
        BY <2>1 DEF CacheAges, Differs
      <3>. QED
        BY <1>n, <2>1, <3>1
    <2>. QED
      BY <1>1, <2>1 DEF Signers!PublishedIsFound
  <1>. QED
    BY <1>2, <1>3 DEF Promised

\* A step that answers nobody promises nothing.
LEMMA NothingPromised ==
    answer' = Signers!NoAnswer => Promised'
  BY DEF Promised, Signers!NoAnswer, Signers!RetiredIsForgotten, Signers!PublishedIsFound

\* An answer that is true keeps the invariant.
LEMMA AnsweredStep ==
    ASSUME KeysInv, NEW c \in Caller, NEW k \in Key,
           Signers!Answered(c, k), UNCHANGED <<time, Signers!provider>>, Promised'
    PROVE  KeysInv'
  <1>g. gets \in [Caller -> GetRecord]
    BY DEF KeysInv, Signers!KeysTyped, GetRecord, GetStates
  <1>1. /\ UNCHANGED <<time, published, changedAt, rotations, blips, keys, fetchedAt, lastAttemptAt,
                       inFlight, missed>>
        /\ gets' = [gets EXCEPT ![c] = Signers!Resting]
    BY DEF Signers!Answered
  <1>2. Signers!KeysTyped'
    <2>1. gets' \in [Caller -> GetRecord]
      BY <1>g, <1>1, GetsTyped DEF GetStates
    <2>2. time - changedAt[k] \in Int
      BY Numbers DEF KeysInv
    <2>3. answer' \in [found : BOOLEAN, published : BOOLEAN, since : Int, missed : BOOLEAN,
                       crowded : BOOLEAN]
      <3>1. missed \in BOOLEAN
        BY DEF KeysInv, Signers!KeysTyped
      <3>. QED
        BY <2>2, <3>1 DEF Signers!Answered
    <2>. QED
      BY <1>1, <2>1, <2>3 DEF KeysInv, Signers!KeysTyped, GetRecord, GetStates
  <1>3. PastIsPast' /\ CacheAges' /\ FetchAges'
    BY <1>1 DEF KeysInv, PastIsPast, CacheAges, FetchAges, Differs
  <1>4. GetsPrompt'
    BY <1>1, <1>g, GetsTyped DEF KeysInv, GetsPrompt, Had, GetStates
  <1>. QED
    BY <1>2, <1>3, <1>4 DEF KeysInv, Promised

\* So does a get() that begins to await a fetch.
LEMMA RefreshBegins ==
    ASSUME KeysInv, NEW c \in Caller, NEW k \in Key, NEW stage \in Awaits,
           Signers!refresh(c, k, stage), UNCHANGED <<time, Signers!provider>>
    PROVE  KeysInv'
  <1>g. gets \in [Caller -> GetRecord]
    BY DEF KeysInv, Signers!KeysTyped, GetRecord, GetStates
  <1>1. /\ UNCHANGED <<time, published, changedAt, rotations, blips, keys, fetchedAt, missed>>
        /\ gets' = [gets EXCEPT ![c] = [key |-> k, at |-> stage]]
        /\ answer' = Signers!NoAnswer
        /\ \/ inFlight # Signers!Nothing /\ UNCHANGED <<inFlight, lastAttemptAt>>
           \/ inFlight' = Signers!Unread /\ lastAttemptAt' = time
    BY DEF Signers!refresh
  <1>n. /\ time \in Nat /\ fetchedAt \in Int /\ lastAttemptAt \in Int
        /\ CacheTtl \in Nat /\ Latency \in Nat
    BY Numbers DEF KeysInv
  <1>u. inFlight' # Signers!Nothing
    BY <1>1 DEF Signers!Unread, Signers!Nothing
  <1>2. Signers!KeysTyped'
    <2>1. gets' \in [Caller -> GetRecord]
      BY <1>g, <1>1, GetsTyped DEF GetStates, Awaits
    <2>2. answer' \in [found : BOOLEAN, published : BOOLEAN, since : Int, missed : BOOLEAN,
                       crowded : BOOLEAN]
      BY <1>1 DEF Signers!NoAnswer
    <2>. QED
      BY <1>1, <2>1, <2>2 DEF KeysInv, Signers!KeysTyped, GetRecord, GetStates
  <1>3. PastIsPast'
    BY <1>1, <1>n DEF KeysInv, PastIsPast
  <1>4. CacheAges'
    BY <1>1, <1>u DEF KeysInv, CacheAges, Differs
  <1>5. FetchAges'
    <2>1. CASE UNCHANGED <<inFlight, lastAttemptAt>>
      BY <2>1, <1>1 DEF KeysInv, FetchAges, Differs
    <2>2. CASE inFlight' = Signers!Unread /\ lastAttemptAt' = time
      <3>1. inFlight'.read # "read"
        BY <2>2 DEF Signers!Unread
      <3>. QED
        BY <2>2, <3>1, <1>1, <1>n DEF FetchAges
    <2>. QED
      BY <1>1, <2>1, <2>2
  <1>6. GetsPrompt'
    <2>1. ASSUME NEW d \in Caller, gets'[d].at \in Had
          PROVE  gets'[d] = gets[d]
      BY <2>1, <1>1, <1>g DEF Had, Awaits
    <2>2. \A d \in Caller : gets'[d].at # "rest" => gets'[d].key \in Key
      BY <1>1, <1>g DEF KeysInv, GetsPrompt
    <2>3. lastAttemptAt' \in {lastAttemptAt, time} /\ time - time <= Latency
      BY <1>1, <1>n
    <2>. QED
      BY <2>1, <2>2, <2>3, <1>1 DEF KeysInv, GetsPrompt
  <1>7. Promised'
    BY <1>1, NothingPromised
  <1>. QED
    BY <1>2, <1>3, <1>4, <1>5, <1>6, <1>7 DEF KeysInv, Promised

\* And a look-up in a set that is young enough.
LEMMA LookupStep ==
    ASSUME KeysInv, NEW c \in Caller, NEW k \in Key,
           Signers!Lookup(c, k), UNCHANGED <<time, Signers!provider>>,
           ~missed => time - fetchedAt <= CacheTtl
    PROVE  KeysInv'
  <1>1. CASE k \in keys \/ Signers!TooSoon
    <2>1. Signers!Answered(c, k)
      BY <1>1 DEF Signers!Lookup
    <2>2. Promised'
      BY <1>1, <2>1, AnswersAreTrue DEF KeysInv, Signers!TooSoon
    <2>. QED
      BY <2>1, <2>2, AnsweredStep
  <1>2. CASE ~(k \in keys \/ Signers!TooSoon)
    BY <1>2, RefreshBegins DEF Signers!Lookup, Awaits
  <1>. QED
    BY <1>1, <1>2

\* A get() looks up in a set no older than the cache allows, or awaits a fetch.
LEMMA GetStep ==
    ASSUME KeysInv, NEW c \in Caller, NEW k \in Key, Signers!get(c, k)
    PROVE  KeysInv'
  <1>1. UNCHANGED <<time, Signers!provider>>
    BY DEF Signers!get
  <1>2. CASE time - fetchedAt > CacheTtl
    BY <1>1, <1>2, RefreshBegins DEF Signers!get, Awaits
  <1>3. CASE ~(time - fetchedAt > CacheTtl)
    <2>1. time - fetchedAt <= CacheTtl
      BY <1>3, Numbers DEF KeysInv
    <2>. QED
      BY <1>1, <1>3, <2>1, LookupStep DEF Signers!get
  <1>. QED
    BY <1>2, <1>3

\* A get() that goes on does so at the moment its fetch ended.
LEMMA ResumeStep ==
    ASSUME KeysInv, NEW c \in Caller, Signers!Resume(c)
    PROVE  KeysInv'
  <1> DEFINE k == gets[c].key
  <1>1. UNCHANGED <<time, Signers!provider>>
    BY DEF Signers!Resume
  <1>2. /\ k \in Key /\ time - lastAttemptAt <= Latency
        /\ ~missed => fetchedAt = time
    BY DEF Signers!Resume, KeysInv, GetsPrompt, Had
  <1>3. /\ ~missed => time - fetchedAt <= CacheTtl
        /\ time - lastAttemptAt < MinRefetch
    BY <1>2, Numbers DEF KeysInv
  <1>4. CASE Signers!Lookup(c, k)
    BY <1>1, <1>2, <1>3, <1>4, LookupStep
  <1>5. CASE Signers!Answered(c, k)
    <2>1. Promised'
      BY <1>1, <1>2, <1>3, <1>5, AnswersAreTrue DEF KeysInv
    <2>. QED
      BY <1>1, <1>2, <1>5, <2>1, AnsweredStep
  <1>. QED
    BY <1>4, <1>5 DEF Signers!Resume

\* What the other steps, which answer nobody, have to keep.
LEMMA OthersStep ==
    ASSUME KeysInv, answer' = Signers!NoAnswer, Signers!KeysTyped', PastIsPast', CacheAges',
           FetchAges', GetsPrompt'
    PROVE  KeysInv'
  BY NothingPromised DEF KeysInv, Promised

\* To answer nobody keeps the type of the answer.
LEMMA NoAnswerTyped ==
    ASSUME answer' = Signers!NoAnswer
    PROVE  answer' \in [found : BOOLEAN, published : BOOLEAN, since : Int, missed : BOOLEAN,
                        crowded : BOOLEAN]
  BY DEF Signers!NoAnswer

\* A fetch reads what is published then.
LEMMA FetchReadsStep ==
    ASSUME KeysInv, Signers!FetchReads
    PROVE  KeysInv'
  <1>1. /\ UNCHANGED <<time, published, changedAt, rotations, blips, keys, fetchedAt,
                       lastAttemptAt, missed, gets>>
        /\ inFlight = Signers!Unread
        /\ inFlight' = [read |-> "read", keys |-> published]
        /\ answer' = Signers!NoAnswer
    BY DEF Signers!FetchReads
  <1>2. inFlight # Signers!Nothing /\ inFlight' # Signers!Nothing
    BY <1>1 DEF Signers!Unread, Signers!Nothing
  <1>3. inFlight'.read = "read" /\ inFlight'.keys = published
    BY <1>1
  <1>4. Signers!KeysTyped'
    <2>1. published \in SUBSET Key
      BY DEF KeysInv, Signers!KeysTyped
    <2>2. inFlight' \in [read : {"read"}, keys : SUBSET Key]
      BY <2>1, <1>1
    <2>. QED
      BY <2>2, <1>1, NoAnswerTyped DEF KeysInv, Signers!KeysTyped
  <1>5. PastIsPast' /\ GetsPrompt'
    BY <1>1 DEF KeysInv, PastIsPast, GetsPrompt
  <1>6. CacheAges'
    BY <1>1, <1>2 DEF KeysInv, CacheAges, Differs
  <1>7. FetchAges'
    BY <1>1, <1>2, <1>3 DEF KeysInv, FetchAges, Differs
  <1>. QED
    BY <1>1, <1>4, <1>5, <1>6, <1>7, OthersStep

\* Where the end of a fetch leaves a caller.
Woken(stage) == CASE stage = "awaits stale" -> "had stale"
                  [] stage = "awaits unknown" -> "had unknown"
                  [] OTHER -> stage

\* The end of a fetch wakes those who await it.
LEMMA Settles ==
    ASSUME Signers!KeysTyped, Signers!Settle
    PROVE  /\ UNCHANGED <<time, published, changedAt, rotations, lastAttemptAt>>
           /\ inFlight' = Signers!Nothing /\ answer' = Signers!NoAnswer
           /\ gets' \in [Caller -> GetRecord]
           /\ \A c \in Caller : /\ gets'[c].key = gets[c].key
                                /\ gets'[c].at = "rest" <=> gets[c].at = "rest"
  <1>1. gets \in [Caller -> GetRecord]
    BY DEF Signers!KeysTyped, GetRecord, GetStates
  <1>2. gets' = [c \in Caller |-> [gets[c] EXCEPT !.at = Woken(gets[c].at)]]
    BY DEF Signers!Settle, Woken
  <1>3. ASSUME NEW stage \in GetStates
        PROVE  Woken(stage) \in GetStates /\ (Woken(stage) = "rest" <=> stage = "rest")
    BY <1>3 DEF Woken, GetStates
  <1>4. ASSUME NEW c \in Caller
        PROVE  /\ gets'[c] \in GetRecord /\ gets'[c].key = gets[c].key
               /\ gets'[c].at = Woken(gets[c].at) /\ gets[c].at \in GetStates
    <2>1. gets[c] \in GetRecord /\ gets[c].at \in GetStates
      BY <1>1 DEF GetRecord
    <2>2. [gets[c] EXCEPT !.at = Woken(gets[c].at)] \in GetRecord
      BY <2>1, <1>3 DEF GetRecord
    <2>. QED
      BY <2>1, <2>2, <1>2 DEF GetRecord
  <1>. QED
    BY <1>2, <1>3, <1>4 DEF Signers!Settle

\* What arrives differs from what is published by what changed since it was asked for.
LEMMA FetchArrivesStep ==
    ASSUME KeysInv, Signers!FetchArrives
    PROVE  KeysInv'
  <1>1. /\ UNCHANGED <<time, published, changedAt, rotations, blips, lastAttemptAt>>
        /\ inFlight.read = "read" /\ inFlight' = Signers!Nothing
        /\ keys' = inFlight.keys /\ fetchedAt' = time /\ missed' = FALSE
        /\ answer' = Signers!NoAnswer
    BY Settles DEF Signers!FetchArrives, KeysInv
  <1>n. /\ time \in Nat /\ lastAttemptAt \in Int /\ changedAt \in [Key -> Int]
        /\ Latency \in Nat /\ Signers!Never < 0 /\ Signers!Never \in Int
    BY Numbers DEF KeysInv
  <1>2. inFlight # Signers!Nothing
    BY <1>1 DEF Signers!Nothing
  <1>3. time - lastAttemptAt <= Latency
    BY <1>2 DEF KeysInv, FetchAges
  <1>4. Signers!KeysTyped'
    <2>1. inFlight.keys \in SUBSET Key
      <3>1. inFlight \in {Signers!Nothing, Signers!Unread} \cup [read : {"read"}, keys : SUBSET Key]
        BY DEF KeysInv, Signers!KeysTyped
      <3>2. Signers!Nothing.read # "read" /\ Signers!Unread.read # "read"
        BY DEF Signers!Nothing, Signers!Unread
      <3>3. inFlight \in [read : {"read"}, keys : SUBSET Key]
        BY <3>1, <3>2, <1>1
      <3>. QED
        BY <3>3
    <2>2. gets' \in [Caller -> GetRecord]
      BY Settles DEF Signers!FetchArrives, KeysInv
    <2>3. time \in 0..MaxTime
      BY DEF KeysInv, Signers!KeysTyped
    <2>. QED
      BY <2>1, <2>2, <2>3, <1>1, NoAnswerTyped
         DEF KeysInv, Signers!KeysTyped, GetRecord, GetStates
  <1>5. PastIsPast'
    BY <1>1, <1>n DEF KeysInv, PastIsPast
  <1>6. CacheAges'
    <2>1. \A k \in Key : Differs(inFlight.keys, k) => changedAt[k] >= lastAttemptAt
      BY <1>1 DEF KeysInv, FetchAges
    <2>2. ASSUME NEW k \in Key, Differs(inFlight.keys, k)
          PROVE  changedAt[k] >= time - Latency /\ changedAt[k] >= lastAttemptAt
      <3>1. changedAt[k] >= lastAttemptAt /\ changedAt[k] \in Int
        BY <2>1, <2>2, <1>n
      <3>. QED
        BY <3>1, <1>3, <1>n
    <2>3. fetchedAt' # Signers!Never
      BY <1>1, <1>n
    <2>. QED
      BY <1>1, <2>2, <2>3 DEF CacheAges, Differs
  <1>7. FetchAges'
    <2>1. Signers!Nothing.read # "read"
      BY DEF Signers!Nothing
    <2>. QED
      BY <2>1, <1>1 DEF FetchAges
  <1>8. GetsPrompt'
    <2>1. \A c \in Caller : gets'[c].key = gets[c].key /\ (gets'[c].at = "rest" <=> gets[c].at = "rest")
      BY Settles DEF Signers!FetchArrives, KeysInv
    <2>. QED
      BY <2>1, <1>1, <1>3 DEF KeysInv, GetsPrompt
  <1>. QED
    BY <1>1, <1>4, <1>5, <1>6, <1>7, <1>8, OthersStep

\* A fetch that fails leaves what is cached.
LEMMA FetchFailsStep ==
    ASSUME KeysInv, Signers!FetchFails
    PROVE  KeysInv'
  <1>1. /\ UNCHANGED <<time, published, changedAt, rotations, lastAttemptAt, keys, fetchedAt>>
        /\ inFlight # Signers!Nothing /\ inFlight' = Signers!Nothing
        /\ blips < MaxBlips /\ blips' = blips + 1 /\ missed' = TRUE
        /\ answer' = Signers!NoAnswer
    BY Settles DEF Signers!FetchFails, KeysInv
  <1>2. Signers!KeysTyped'
    <2>1. blips \in 0..MaxBlips /\ MaxBlips \in Nat
      BY DEF KeysInv, Signers!KeysTyped
    <2>2. blips' \in 0..MaxBlips
      BY ONLY <2>1, <1>1
    <2>3. gets' \in [Caller -> GetRecord]
      BY Settles DEF Signers!FetchFails, KeysInv
    <2>. QED
      BY <2>2, <2>3, <1>1, NoAnswerTyped DEF KeysInv, Signers!KeysTyped, GetRecord, GetStates
  <1>3. PastIsPast'
    BY <1>1 DEF KeysInv, PastIsPast
  <1>4. CacheAges'
    BY <1>1 DEF KeysInv, CacheAges, Differs
  <1>5. FetchAges'
    <2>1. Signers!Nothing.read # "read"
      BY DEF Signers!Nothing
    <2>. QED
      BY <2>1, <1>1 DEF FetchAges
  <1>6. GetsPrompt'
    <2>1. \A c \in Caller : gets'[c].key = gets[c].key /\ (gets'[c].at = "rest" <=> gets[c].at = "rest")
      BY Settles DEF Signers!FetchFails, KeysInv
    <2>2. time - lastAttemptAt <= Latency
      BY <1>1 DEF KeysInv, FetchAges
    <2>. QED
      BY <2>1, <2>2, <1>1 DEF KeysInv, GetsPrompt
  <1>. QED
    BY <1>1, <1>2, <1>3, <1>4, <1>5, <1>6, OthersStep

\* A key that is published or retired changes now.
LEMMA RotateStep ==
    ASSUME KeysInv, NEW k \in Key, Signers!Rotate(k)
    PROVE  KeysInv'
  <1>1. /\ UNCHANGED <<time, blips, keys, fetchedAt, lastAttemptAt, inFlight, missed, gets>>
        /\ rotations < MaxRotations /\ rotations' = rotations + 1
        /\ published' = (published \ {k}) \cup ({k} \ published)
        /\ changedAt' = [changedAt EXCEPT ![k] = time]
        /\ answer' = Signers!NoAnswer
    BY DEF Signers!Rotate
  <1>n. /\ time \in Nat /\ fetchedAt \in Int /\ lastAttemptAt \in Int /\ Latency \in Nat
        /\ changedAt \in [Key -> Int] /\ fetchedAt <= time /\ lastAttemptAt <= time
    BY Numbers DEF KeysInv, PastIsPast
  <1>2. changedAt'[k] = time /\ \A j \in Key \ {k} : changedAt'[j] = changedAt[j]
    BY <1>1, <1>n
  <1>3. Signers!KeysTyped'
    <2>1. rotations \in 0..MaxRotations /\ MaxRotations \in Nat
      BY DEF KeysInv, Signers!KeysTyped
    <2>2. rotations' \in 0..MaxRotations
      BY ONLY <2>1, <1>1
    <2>3. published' \in SUBSET Key
      BY <1>1 DEF KeysInv, Signers!KeysTyped
    <2>4. changedAt' \in [Key -> {Signers!Never} \cup 0..MaxTime]
      BY <1>1 DEF KeysInv, Signers!KeysTyped
    <2>. QED
      BY <2>2, <2>3, <2>4, <1>1, NoAnswerTyped DEF KeysInv, Signers!KeysTyped
  <1>4. PastIsPast'
    <2>1. \A j \in Key : changedAt'[j] <= time
      BY <1>2, <1>n DEF KeysInv, PastIsPast
    <2>. QED
      BY <2>1, <1>1 DEF KeysInv, PastIsPast
  <1>5. GetsPrompt'
    BY <1>1 DEF KeysInv, GetsPrompt
  <1>6. CacheAges'
    <2>1. ASSUME NEW j \in Key, Differs(keys, j)'
          PROVE  /\ fetchedAt # Signers!Never => changedAt'[j] >= fetchedAt - Latency
                 /\ inFlight = Signers!Nothing /\ ~missed => changedAt'[j] >= lastAttemptAt
      <3>1. CASE j = k
        BY <3>1, <1>2, <1>n
      <3>2. CASE j # k
        <4>1. Differs(keys, j) /\ changedAt'[j] = changedAt[j]
          BY <2>1, <3>2, <1>1, <1>2 DEF Differs
        <4>. QED
          BY <4>1 DEF KeysInv, CacheAges
      <3>. QED
        BY <3>1, <3>2
    <2>. QED
      BY <2>1, <1>1 DEF KeysInv, CacheAges
  <1>7. FetchAges'
    <2>1. ASSUME inFlight.read = "read", NEW j \in Key, Differs(inFlight.keys, j)'
          PROVE  changedAt'[j] >= lastAttemptAt
      <3>1. CASE j = k
        BY <3>1, <1>2, <1>n
      <3>2. CASE j # k
        <4>1. Differs(inFlight.keys, j) /\ changedAt'[j] = changedAt[j]
          BY <2>1, <3>2, <1>1, <1>2 DEF Differs
        <4>. QED
          BY <4>1, <2>1 DEF KeysInv, FetchAges
      <3>. QED
        BY <3>1, <3>2
    <2>. QED
      BY <2>1, <1>1 DEF KeysInv, FetchAges
  <1>. QED
    BY <1>1, <1>3, <1>4, <1>5, <1>6, <1>7, OthersStep

\* Time passes while nobody may go on and no fetch is late.
LEMMA TickStep ==
    ASSUME KeysInv, Signers!Tick
    PROVE  KeysInv'
  <1>1. /\ UNCHANGED <<published, changedAt, rotations, blips, keys, fetchedAt, lastAttemptAt,
                       inFlight, missed, gets>>
        /\ time < MaxTime /\ time' = time + 1
        /\ inFlight # Signers!Nothing => time - lastAttemptAt < Latency
        /\ answer' = Signers!NoAnswer
    BY DEF Signers!Tick
  <1>2. \A c \in Caller : gets[c].at \notin Had
    BY DEF Signers!Tick, Had
  <1>n. /\ time \in Nat /\ fetchedAt \in Int /\ lastAttemptAt \in Int /\ Latency \in Nat
        /\ changedAt \in [Key -> Int]
    BY Numbers DEF KeysInv
  <1>3. Signers!KeysTyped'
    <2>1. time \in 0..MaxTime /\ MaxTime \in Nat
      BY DEF KeysInv, Signers!KeysTyped
    <2>2. time' \in 0..MaxTime
      BY ONLY <2>1, <1>1
    <2>. QED
      BY <2>2, <1>1, NoAnswerTyped DEF KeysInv, Signers!KeysTyped
  <1>4. PastIsPast'
    BY <1>1, <1>n DEF KeysInv, PastIsPast
  <1>5. CacheAges'
    BY <1>1 DEF KeysInv, CacheAges, Differs
  <1>6. FetchAges'
    <2>1. inFlight # Signers!Nothing => time' - lastAttemptAt <= Latency
      BY <1>1, <1>n
    <2>. QED
      BY <2>1, <1>1 DEF KeysInv, FetchAges, Differs
  <1>7. GetsPrompt'
    BY <1>1, <1>2 DEF KeysInv, GetsPrompt
  <1>. QED
    BY <1>1, <1>3, <1>4, <1>5, <1>6, <1>7, OthersStep

\* At first nothing is cached.
LEMMA KeysStart == Signers!KeysInit => KeysInv
  <1> SUFFICES ASSUME Signers!KeysInit PROVE KeysInv
    OBVIOUS
  <1>r. Signers!Resting \in GetRecord /\ Signers!Resting.at = "rest"
    BY DEF Signers!Resting, GetRecord, GetStates
  <1>n. Signers!Never \in Int /\ Signers!Never < 0
    <2>1. MaxTime \in Nat /\ CacheTtl \in Nat /\ Latency \in Nat /\ MinRefetch \in Nat
      OBVIOUS
    <2>. QED
      BY ONLY <2>1 DEF Signers!Never
  <1>1. Signers!KeysTyped
    <2>1. gets \in [Caller -> GetRecord]
      BY <1>r DEF Signers!KeysInit
    <2>2. answer \in [found : BOOLEAN, published : BOOLEAN, since : Int, missed : BOOLEAN,
                      crowded : BOOLEAN]
      BY DEF Signers!KeysInit, Signers!NoAnswer
    <2>3. 0 \in 0..MaxTime /\ 0 \in 0..MaxRotations /\ 0 \in 0..MaxBlips
      OBVIOUS
    <2>. QED
      BY <2>1, <2>2, <2>3 DEF Signers!KeysInit, Signers!KeysTyped, GetRecord, GetStates
  <1>2. PastIsPast
    BY <1>n DEF Signers!KeysInit, PastIsPast
  <1>3. CacheAges
    BY <1>n DEF Signers!KeysInit, CacheAges
  <1>4. FetchAges
    BY DEF Signers!KeysInit, FetchAges, Signers!Nothing
  <1>5. GetsPrompt
    BY <1>r DEF Signers!KeysInit, GetsPrompt, Had
  <1>6. Promised
    BY DEF Signers!KeysInit, Promised, Signers!NoAnswer, Signers!RetiredIsForgotten,
       Signers!PublishedIsFound
  <1>. QED
    BY <1>1, <1>2, <1>3, <1>4, <1>5, <1>6 DEF KeysInv, Promised

\* Every step keeps the invariant of the signing keys.
LEMMA KeysStep ==
    KeysInv /\ [Signers!KeysNext]_(Signers!keysVars) => KeysInv'
  <1> SUFFICES ASSUME KeysInv, [Signers!KeysNext]_(Signers!keysVars) PROVE KeysInv'
    OBVIOUS
  <1>1. CASE UNCHANGED Signers!keysVars
    BY <1>1, ZenonT(40) DEF Signers!keysVars, KeysInv, Signers!KeysTyped, PastIsPast, CacheAges, FetchAges,
       GetsPrompt, Differs, Signers!RetiredIsForgotten, Signers!PublishedIsFound
  <1>. QED
    BY <1>1, FetchReadsStep, FetchArrivesStep, FetchFailsStep, TickStep, ResumeStep, GetStep,
       RotateStep DEF Signers!KeysNext

HIDE SignersAssumption DEF SignersAssumption, Signers!SigningKeysAssumption, Signers!provider,
     Signers!cache

----------------------------------------------------------------------------
\* The replicas together: a step is one of a component, or leaves it as it is.

everything == <<part, vars, refreshing, signingIn, signing>>

\* The lock has a proof of its own; of the others' invariants each step keeps one and leaves
\* the rest.
TokensInv ==
    TypeOK /\ RefreshInv /\ SignInInv /\ KeysInv

\* What a step of the replicas is to each component.
LEMMA StepOfEach ==
    ASSUME [ReplicasNext]_everything
    PROVE  /\ [Next]_vars /\ [Tokens!Next]_(Tokens!vars)
           /\ [Flows!SignInNext]_(Flows!signInVars) /\ [Signers!KeysNext]_(Signers!keysVars)
  <1> USE DEF everything, refreshing, signingIn, signing, Tokens!vars, Tokens!store,
              Tokens!attempts, Tokens!provider, Flows!signInVars, Flows!atProvider,
              Flows!observers, Signers!keysVars, Signers!provider, Signers!cache
  <1>1. CASE LockNext
    <2>1. UNCHANGED <<refreshing, signingIn, signing>>
      BY <1>1 DEF LockNext, OfLock
    <2>2. Next
      BY <1>1 DEF LockNext, OfLock, Next, Attempt, Finish
    <2>. QED
      BY <2>1, <2>2
  <1>2. CASE TokensNext
    <2>1. UNCHANGED <<vars, signingIn, signing>>
      BY <1>2 DEF TokensNext, OfTokens
    <2>2. Tokens!Next
      BY <1>2 DEF TokensNext, OfTokens, Tokens!Next, Tokens!Attempt
    <2>. QED
      BY <2>1, <2>2
  <1>3. CASE SigningInNext
    <2>1. UNCHANGED <<vars, refreshing, signing>>
      BY <1>3 DEF SigningInNext, OfSignIn
    <2>2. Flows!SignInNext
      BY <1>3 DEF SigningInNext, OfSignIn, Flows!SignInNext
    <2>. QED
      BY <2>1, <2>2
  <1>4. CASE SigningNext
    <2>1. UNCHANGED <<vars, refreshing, signingIn>>
      BY <1>4 DEF SigningNext, OfKeys
    <2>2. Signers!KeysNext
      BY <1>4 DEF SigningNext, OfKeys, Signers!KeysNext
    <2>. QED
      BY <2>1, <2>2
  <1>5. CASE UNCHANGED everything
    BY <1>5
  <1>. QED
    BY <1>1, <1>2, <1>3, <1>4, <1>5 DEF ReplicasNext

\* The invariants of the components hold of the replicas together.
LEMMA TokensInvariant == TokensSpec => []TokensInv
  <1>1. TokensInit => TokensInv
    BY LockInit, RefreshInit, SignInStarts, KeysStart DEF TokensInit, TokensInv, LockInv
  <1>2. TokensInv /\ [ReplicasNext]_everything => TokensInv'
    BY StepOfEach, TypeStep, RefreshStep, SignInStep, KeysStep DEF TokensInv
  <1>. QED
    BY <1>1, <1>2, PTL DEF TokensSpec, everything

\* Whatever the replicas, the browsers, the provider and the clock do: types; one exchange of
\* a refresh token at a time while exchanges are prompt, no grant torn down that was good and
\* none used once it was given up; each code presented once and where the flow began, and no
\* callback refused without a reason; no retired key given for longer, and no published key
\* missed for longer, than the cache's ages allow.
THEOREM ReplicasKeepTokens == TokensSpec => []TokensHold
  <1>1. TokensInv => TokensHold
    <2>1. KeysInv => Signers!KeysTyped /\ Signers!RetiredIsForgotten /\ Signers!PublishedIsFound
      BY DEF KeysInv
    <2>. QED
      BY <2>1, RefreshPromises, SignInPromises DEF TokensInv, TokensHold
  <1>. QED
    BY <1>1, TokensInvariant, PTL

\* The lock of the store is that lease, whatever runs beside it.
THEOREM LeaseIsKept == TokensSpec => PromiseKept
  <1>1. TokensInit => LockInv /\ Promise!Init
    BY LockInit, LeaseStarts DEF TokensInit
  <1>2. LockInv /\ [ReplicasNext]_everything => LockInv' /\ [Promise!Next]_Holders
    BY StepOfEach, LockInvStep, StepIsLease
  <1>. QED
    BY <1>1, <1>2, PTL DEF TokensSpec, everything, PromiseKept, Promise!Spec
=============================================================================
