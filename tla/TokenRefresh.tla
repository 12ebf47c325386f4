---------------------------- MODULE TokenRefresh ----------------------------
(***************************************************************************)
(* Single-flight refresh of access tokens: packages/auth/src/server/oauth/  *)
(* refresh.ts, for one session served by several replicas.                  *)
(*                                                                         *)
(* A replica runs one attempt at a time, which its concurrent calls share   *)
(* (inFlight); an attempt goes to the store at every await.  The store and  *)
(* its lock are the promise of contract.ts: atomic operations, one holder,  *)
(* freed when its time has lapsed.  The provider is external: it accepts    *)
(* the last refresh token it gave out for a grant and may replace it.       *)
(***************************************************************************)
EXTENDS Integers

CONSTANTS
    Replica,
    MaxGrants,    \* bound on sign-ins
    MaxTokens,    \* bound on refresh tokens the provider gives out
    MaxFaults     \* bound on crashes and failed requests

Nothing == [family |-> 0, token |-> 0, fresh |-> FALSE]

RefreshAssumption ==
    /\ MaxGrants \in Nat \ {0} /\ MaxTokens \in Nat \ {0} /\ MaxFaults \in Nat
    /\ Nothing \notin Replica

VARIABLES
    slow,        \* an exchange may outlast the lock's time
    record,      \* the stored TokenRecord, or Nothing
    revoked,     \* families with a tombstone
    lock,        \* who holds the lock, or Nothing
    lapsed,      \* the lock's time is over
    pc, held,    \* of each attempt: where it is, the record it works with
    forgetting,  \* a forget() under way: its next step, the family it has read
    grants, minted,   \* sign-ins and refresh tokens so far
    valid,       \* at the provider: the token it accepts for each grant, 0: none
    forgotten, upstream,   \* grants forgotten here, grants revoked at the provider
    faults

store == <<record, revoked, lock, lapsed>>
attempts == <<pc, held>>
provider == <<grants, minted, valid, upstream>>
vars == <<slow, store, attempts, provider, forgetting, forgotten, faults>>

Idle == [step |-> "none", family |-> 0]
Grant == 1..MaxGrants
Record == [family : Grant, token : 1..MaxTokens, fresh : BOOLEAN]
Where == {"idle", "look", "acquire", "recheck", "exchange", "accepted", "condemn", "delete", "release"}

Init ==
    /\ slow \in BOOLEAN
    /\ record = Nothing /\ revoked = {} /\ lock = Nothing /\ lapsed = FALSE
    /\ pc = [r \in Replica |-> "idle"] /\ held = [r \in Replica |-> Nothing]
    /\ forgetting = Idle
    /\ grants = 0 /\ minted = 0 /\ valid = [f \in Grant |-> 0]
    /\ forgotten = {} /\ upstream = {} /\ faults = 0

Go(r, to) == pc' = [pc EXCEPT ![r] = to]
Dead(rec) == rec = Nothing \/ rec.family \in revoked

\* remember(): a sign-in has produced tokens for the session.
Remember ==
    /\ grants < MaxGrants /\ minted < MaxTokens
    /\ grants' = grants + 1 /\ minted' = minted + 1
    /\ valid' = [valid EXCEPT ![grants'] = minted']
    /\ record' = [family |-> grants', token |-> minted', fresh |-> TRUE]
    /\ UNCHANGED <<slow, revoked, lock, lapsed, attempts, upstream, forgetting, forgotten, faults>>

\* The access token comes within skewMs of its expiry.
Expire ==
    /\ record.fresh
    /\ record' = [record EXCEPT !.fresh = FALSE]
    /\ UNCHANGED <<slow, revoked, lock, lapsed, attempts, provider, forgetting, forgotten, faults>>

\* getAccessToken() finds a token to refresh and no attempt of its replica.
Call(r) ==
    /\ pc[r] = "idle" /\ ~Dead(record) /\ ~record.fresh
    /\ Go(r, "look")
    /\ UNCHANGED <<slow, store, held, provider, forgetting, forgotten, faults>>

\* The top of the loop of refreshWithLock.
Look(r) ==
    /\ pc[r] = "look"
    /\ held' = [held EXCEPT ![r] = record]
    /\ Go(r, IF Dead(record) \/ record.fresh THEN "idle" ELSE "acquire")
    /\ UNCHANGED <<slow, store, provider, forgetting, forgotten, faults>>

\* Mutation: the lock is taken whoever holds it.
AcquireAnyway(r) ==
    /\ pc[r] = "acquire"
    /\ lock' = r /\ lapsed' = FALSE /\ Go(r, "recheck")
    /\ UNCHANGED <<slow, record, revoked, held, provider, forgetting, forgotten, faults>>

\* Mutation: a lock stays with whoever died holding it.
AcquireIfFree(r) ==
    /\ pc[r] = "acquire"
    /\ \/ /\ lock = Nothing /\ lock' = r /\ Go(r, "recheck")
       \/ /\ lock # Nothing /\ UNCHANGED lock
          /\ Go(r, "look") \/ Go(r, "idle")
    /\ UNCHANGED <<slow, record, revoked, lapsed, held, provider, forgetting, forgotten, faults>>

\* acquireLock(): whoever loses polls again or times out.
Acquire(r) ==
    /\ pc[r] = "acquire"
    /\ \/ /\ lock = Nothing \/ lapsed
          /\ lock' = r /\ lapsed' = FALSE /\ Go(r, "recheck")
       \/ /\ lock # Nothing /\ ~lapsed
          /\ Go(r, "look") \/ Go(r, "idle")
          /\ UNCHANGED <<lock, lapsed>>
    /\ UNCHANGED <<slow, record, revoked, held, provider, forgetting, forgotten, faults>>

\* Mutation: no double check; the record read before the lock will do.
RecheckNot(r) ==
    /\ pc[r] = "recheck"
    /\ Go(r, "exchange")
    /\ UNCHANGED <<slow, store, held, provider, forgetting, forgotten, faults>>

Recheck(r) ==
    /\ pc[r] = "recheck"
    /\ held' = [held EXCEPT ![r] = record]
    /\ Go(r, IF Dead(record) \/ record.fresh THEN "release" ELSE "exchange")
    /\ UNCHANGED <<slow, store, provider, forgetting, forgotten, faults>>

----------------------------------------------------------------------------
\* The provider answers: it replaces the refresh token, or lets it stand, or knows
\* it no more.
Exchange(r) ==
    /\ pc[r] = "exchange"
    /\ LET f == held[r].family
       IN  IF valid[f] = held[r].token
           THEN /\ Go(r, "accepted")
                /\ \/ /\ minted < MaxTokens
                      /\ minted' = minted + 1 /\ valid' = [valid EXCEPT ![f] = minted']
                      /\ held' = [held EXCEPT ![r] = [@ EXCEPT !.token = minted', !.fresh = TRUE]]
                   \/ /\ held' = [held EXCEPT ![r] = [@ EXCEPT !.fresh = TRUE]]
                      /\ UNCHANGED <<minted, valid>>
           ELSE /\ Go(r, "condemn")
                /\ UNCHANGED <<held, minted, valid>>
    /\ UNCHANGED <<slow, store, grants, upstream, forgetting, forgotten, faults>>

\* The request does not get there, or the answer is no use, even one that replaced
\* the refresh token: the lock is released.
ExchangeFails(r) ==
    /\ pc[r] = "exchange" /\ faults < MaxFaults
    /\ faults' = faults + 1
    /\ Go(r, "release")
    /\ \/ UNCHANGED <<minted, valid>>
       \/ /\ valid[held[r].family] = held[r].token /\ minted < MaxTokens
          /\ minted' = minted + 1 /\ valid' = [valid EXCEPT ![held[r].family] = minted']
    /\ UNCHANGED <<slow, store, held, grants, upstream, forgetting, forgotten>>

\* tokens.set() with the new tokens.
Store(r) ==
    /\ pc[r] = "accepted"
    /\ record' = held[r]
    /\ Go(r, "release")
    /\ UNCHANGED <<slow, revoked, lock, lapsed, held, provider, forgetting, forgotten, faults>>

\* Mutation: the family of whatever is stored by now is buried.
CondemnCurrent(r) ==
    /\ pc[r] = "condemn"
    /\ revoked' = revoked \cup {record.family}
    /\ Go(r, "delete")
    /\ UNCHANGED <<slow, record, lock, lapsed, held, provider, forgetting, forgotten, faults>>

\* condemnFamily(), then tokens.delete().
Condemn(r) ==
    /\ pc[r] = "condemn"
    /\ revoked' = revoked \cup {held[r].family}
    /\ Go(r, "delete")
    /\ UNCHANGED <<slow, record, lock, lapsed, held, provider, forgetting, forgotten, faults>>

Delete(r) ==
    /\ pc[r] = "delete"
    /\ record' = Nothing
    /\ Go(r, "release")
    /\ UNCHANGED <<slow, revoked, lock, lapsed, held, provider, forgetting, forgotten, faults>>

\* release(), which the holder's token keeps from freeing a successor's lock.
Release(r) ==
    /\ pc[r] = "release"
    /\ IF lock = r THEN lock' = Nothing /\ lapsed' = FALSE ELSE UNCHANGED <<lock, lapsed>>
    /\ Go(r, "idle")
    /\ UNCHANGED <<slow, record, revoked, held, provider, forgetting, forgotten, faults>>

----------------------------------------------------------------------------
Holding(r) == lock = r /\ pc[r] \in {"recheck", "exchange", "accepted", "condemn", "delete", "release"}

\* The time of a lock is over, at first that of a replica that died holding it.
Lapse ==
    /\ lock # Nothing /\ ~lapsed
    /\ slow \/ \A r \in Replica : ~Holding(r)
    /\ lapsed' = TRUE
    /\ UNCHANGED <<slow, record, revoked, lock, attempts, provider, forgetting, forgotten, faults>>

Crash(r) ==
    /\ pc[r] # "idle" /\ faults < MaxFaults
    /\ faults' = faults + 1
    /\ Go(r, "idle")
    /\ UNCHANGED <<slow, store, held, provider, forgetting, forgotten>>

\* forget(): the record is read, then deleted, then its family buried.
Forget ==
    /\ forgetting = Idle /\ record # Nothing
    /\ forgetting' = [step |-> "delete", family |-> record.family]
    /\ UNCHANGED <<slow, store, attempts, provider, forgotten, faults>>

ForgetDelete ==
    /\ forgetting.step = "delete"
    /\ record' = Nothing
    /\ forgotten' = forgotten \cup {forgetting.family}
    /\ forgetting' = [forgetting EXCEPT !.step = "bury"]
    /\ UNCHANGED <<slow, revoked, lock, lapsed, attempts, provider, faults>>

\* Mutation: the family of whatever is stored by now is buried.
BuryCurrent ==
    /\ forgetting.step = "bury" /\ forgetting' = Idle
    /\ revoked' = IF record = Nothing THEN revoked ELSE revoked \cup {record.family}
    /\ UNCHANGED <<slow, record, lock, lapsed, attempts, provider, forgotten, faults>>

Bury ==
    /\ forgetting.step = "bury" /\ forgetting' = Idle
    /\ revoked' = revoked \cup {forgetting.family}
    /\ UNCHANGED <<slow, record, lock, lapsed, attempts, provider, forgotten, faults>>

\* The user revokes consent at the provider.
RevokeUpstream(f) ==
    /\ valid[f] # 0
    /\ valid' = [valid EXCEPT ![f] = 0] /\ upstream' = upstream \cup {f}
    /\ UNCHANGED <<slow, store, attempts, grants, minted, forgetting, forgotten, faults>>

Attempt(r) ==
    \/ Look(r) \/ Acquire(r) \/ Recheck(r) \/ Exchange(r) \/ Store(r)
    \/ Condemn(r) \/ Delete(r) \/ Release(r)

Next ==
    \/ Remember \/ Expire \/ Lapse \/ Forget \/ ForgetDelete \/ Bury
    \/ \E f \in Grant : RevokeUpstream(f)
    \/ \E r \in Replica : Call(r) \/ Attempt(r) \/ ExchangeFails(r) \/ Crash(r)

\* Requests are answered, the store answers, locks lapse; the application keeps
\* asking for the token.
Fairness ==
    /\ \A r \in Replica : WF_vars(Attempt(r)) /\ WF_vars(Call(r))
    /\ WF_vars(Lapse) /\ WF_vars(ForgetDelete \/ Bury)

Spec == Init /\ [][Next]_vars /\ Fairness

----------------------------------------------------------------------------
\* Every variable keeps its type.
TypeOK ==
    /\ slow \in BOOLEAN
    /\ record \in Record \cup {Nothing} /\ revoked \subseteq Grant
    /\ lock \in Replica \cup {Nothing} /\ lapsed \in BOOLEAN
    /\ pc \in [Replica -> Where] /\ held \in [Replica -> Record \cup {Nothing}]
    /\ forgetting \in {Idle} \cup [step : {"delete", "bury"}, family : Grant]
    /\ grants \in 0..MaxGrants /\ minted \in 0..MaxTokens
    /\ valid \in [Grant -> 0..MaxTokens]
    /\ forgotten \subseteq Grant /\ upstream \subseteq Grant
    /\ faults \in 0..MaxFaults

\* Concurrent calls, on however many replicas, lead to one request to the provider
\* at a time, if exchanges end within the lock's time.
SingleFlight ==
    ~slow =>
      \A q, r \in Replica :
        pc[q] \in {"exchange", "accepted"} /\ pc[r] \in {"exchange", "accepted"} => q = r

\* No grant is torn down that the user has not given up, here or at the provider, as
\* long as exchanges are prompt and no answer of the provider has been lost.
HealthyGrantSurvives == ~slow /\ faults = 0 => revoked \subseteq forgotten \cup upstream

\* A grant that was forgotten is never used again once it is buried, even when an
\* exchange was under way and stores its tokens afterwards.
ForgottenIsBuried ==
    forgetting = Idle => \A f \in forgotten : f \in revoked

\* A token that needs refreshing is refreshed, or its session ends: whatever
\* replica dies holding the lock.
Refreshed == Dead(record) \/ record.fresh
RefreshedInTheEnd == []<>Refreshed

=============================================================================
