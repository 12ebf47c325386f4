------------------------------- MODULE MCTokens -------------------------------
(***************************************************************************)
(* Replicas of a server over one store, for TLC: signing in through a        *)
(* provider, the keys its tokens are checked with, the lock on a storage      *)
(* driver, and the tokens refreshed under the lock its contract promises.    *)
(* A behaviour runs the one that part names and leaves the others at rest.   *)
(***************************************************************************)
EXTENDS StoreLock

CONSTANTS
    Replica, MaxGrants, MaxTokens, MaxFaults,      \* of TokenRefresh
    Browser, Flow, Callback, MaxFailures,          \* of SignIn
    Caller, Key, CacheTtl, MinRefetch, Latency,    \* of SigningKeys
    MaxTime, MaxRotations, MaxBlips

VARIABLES
    part,       \* "lock", "tokens", "sign-in" or "keys"
    slow, record, revoked, lock, lapsed, pc, held, forgetting, grants, minted, valid,
    forgotten, upstream, faults,
    \* of SignIn
    startedIn, phase, over, flows, cookie, calls, codes, presented, doubled, disturbed, failures,
    \* of SigningKeys
    time, published, changedAt, rotations, blips, keys, fetchedAt, lastAttemptAt, inFlight, gets,
    missed, answer

refreshing == <<slow, record, revoked, lock, lapsed, pc, held, forgetting, grants, minted,
                valid, forgotten, upstream, faults>>

signingIn == <<startedIn, phase, over, flows, cookie, calls, codes, presented, doubled,
               disturbed, failures>>
signing == <<time, published, changedAt, rotations, blips, keys, fetchedAt, lastAttemptAt,
             inFlight, gets, missed, answer>>

Tokens == INSTANCE TokenRefresh
Flows == INSTANCE SignIn WITH Call <- Callback, MaxFaults <- MaxFailures, faults <- failures
Signers == INSTANCE SigningKeys WITH now <- time

ASSUME TokensAssumption == Tokens!RefreshAssumption
ASSUME FlowsAssumption == Flows!SignInAssumption
ASSUME SignersAssumption == Signers!SigningKeysAssumption

TokensInit ==
    /\ part \in {"lock", "tokens", "sign-in", "keys"}
    /\ Init /\ Tokens!Init /\ Flows!SignInInit /\ Signers!KeysInit
    /\ part # "lock" => driver = "drops"
    /\ part # "tokens" => ~slow
    /\ part # "keys" => published = {}

OfLock(step) == part = "lock" /\ step /\ UNCHANGED <<part, refreshing, signingIn, signing>>
OfTokens(step) == part = "tokens" /\ step /\ UNCHANGED <<part, vars, signingIn, signing>>
OfSignIn(step) == part = "sign-in" /\ step /\ UNCHANGED <<part, vars, refreshing, signing>>
OfKeys(step) == part = "keys" /\ step /\ UNCHANGED <<part, vars, refreshing, signingIn>>

LockNext ==
    \/ OfLock(Tick)
    \/ \E p \in Process :
        \/ OfLock(Look(p))
        \/ OfLock(Set(p))
        \/ OfLock(Confirm(p))
        \/ OfLock(Release(p))
        \/ OfLock(Delete(p))
        \/ OfLock(Crash(p))

TokensNext ==
    \/ OfTokens(Tokens!Remember)
    \/ OfTokens(Tokens!Expire)
    \/ OfTokens(Tokens!Lapse)
    \/ OfTokens(Tokens!Forget)
    \/ OfTokens(Tokens!ForgetDelete)
    \/ OfTokens(Tokens!Bury)
    \/ \E f \in Tokens!Grant : OfTokens(Tokens!RevokeUpstream(f))
    \/ \E r \in Replica :
        \/ OfTokens(Tokens!Call(r))
        \/ OfTokens(Tokens!Look(r))
        \/ OfTokens(Tokens!Acquire(r))
        \/ OfTokens(Tokens!Recheck(r))
        \/ OfTokens(Tokens!Exchange(r))
        \/ OfTokens(Tokens!Store(r))
        \/ OfTokens(Tokens!Condemn(r))
        \/ OfTokens(Tokens!Delete(r))
        \/ OfTokens(Tokens!Release(r))
        \/ OfTokens(Tokens!ExchangeFails(r))
        \/ OfTokens(Tokens!Crash(r))

SigningInNext ==
    \/ \E f \in Flow :
        \/ OfSignIn(Flows!StartAnswered(f))
        \/ OfSignIn(Flows!Authorised(f))
        \/ OfSignIn(Flows!Declined(f))
        \/ OfSignIn(Flows!Lapse(f))
        \/ \E b \in Browser :
            \/ OfSignIn(Flows!start(b, f))
            \/ \E c \in Callback : OfSignIn(Flows!callback(c, b, f))
    \/ \E c \in Callback :
        \/ OfSignIn(Flows!ReadRecord(c))
        \/ OfSignIn(Flows!DeleteRecord(c))
        \/ OfSignIn(Flows!PresentCode(c))
        \/ OfSignIn(Flows!Exchange(c))
        \/ OfSignIn(Flows!Verified(c))
        \/ OfSignIn(Flows!CallFails(c))
        \/ OfSignIn(Flows!CallAnswered(c))

SigningNext ==
    \/ OfKeys(Signers!FetchReads)
    \/ OfKeys(Signers!FetchArrives)
    \/ OfKeys(Signers!FetchFails)
    \/ OfKeys(Signers!Tick)
    \/ \E c \in Caller :
        \/ OfKeys(Signers!Resume(c))
        \/ \E k \in Key : OfKeys(Signers!get(c, k))
    \/ \E k \in Key : OfKeys(Signers!Rotate(k))

\* What the Fairness of StoreLock and of TokenRefresh asks.
TokensFairness ==
    /\ WF_vars(OfLock(Tick))
    /\ \A p \in Process : WF_vars(OfLock(Attempt(p))) /\ WF_vars(OfLock(Finish(p)))
    /\ \A r \in Replica :
          WF_refreshing(OfTokens(Tokens!Attempt(r))) /\ WF_refreshing(OfTokens(Tokens!Call(r)))
    /\ WF_refreshing(OfTokens(Tokens!Lapse))
    /\ WF_refreshing(OfTokens(Tokens!ForgetDelete \/ Tokens!Bury))

ReplicasNext == LockNext \/ TokensNext \/ SigningInNext \/ SigningNext

TokensSpec ==
    /\ TokensInit
    /\ [][ReplicasNext]_<<part, vars, refreshing, signingIn, signing>>
    /\ TokensFairness

----------------------------------------------------------------------------
\* The components keep their types; one exchange at a time, if they are prompt; no grant is
\* torn down that was not given up, and none is used again once it was; a code is presented
\* once, in the browser that asked for it, and refused for a reason; and the keys in use are
\* those the provider publishes, but for the age its cache allows.
TokensHold ==
    /\ TypeOK /\ Tokens!TypeOK /\ Flows!SignInTyped /\ Signers!KeysTyped
    /\ Tokens!SingleFlight /\ Tokens!HealthyGrantSurvives /\ Tokens!ForgottenIsBuried
    /\ Flows!CodePresentedOnce /\ Flows!SignedInWhereStarted /\ Flows!RefusedForReason
    /\ Signers!RetiredIsForgotten /\ Signers!PublishedIsFound

\* A lock is given again and a token refreshed, although its holder died.
HoldersReplaced == []<>((part = "lock" => GivenIfPrompt) /\ Tokens!Refreshed)
=============================================================================
