------------------------------- MODULE Passwords -------------------------------
(***************************************************************************)
(* The passwords of one user: packages/auth/src/server/credentials.ts and   *)
(* password-reset.ts.                                                       *)
(*                                                                         *)
(* Requests - to sign in, to change the password, to redeem a link that     *)
(* resets it - work on the user's record, the link and the sessions, each    *)
(* call of a store being atomic, and other requests may come in between any  *)
(* two.  A password is the number of the call that set it; a hash knows the  *)
(* call that made it, as salts differ.                                      *)
(*                                                                         *)
(* What is refused before anything is written - by a limiter, a policy, an   *)
(* unknown name, a lock - changes nothing and is left out; so are what       *)
(* limiters count and the notifications in the end.                         *)
(***************************************************************************)
EXTENDS Integers, FiniteSets

CONSTANTS
    Request,
    Threshold, LockTime, LinkTtl,
    MaxCalls, MaxTime

PasswordsAssumption ==
    /\ IsFiniteSet(Request) /\ Request # {}
    /\ {Threshold, LockTime, LinkTtl} \subseteq Nat \ {0} /\ {MaxCalls, MaxTime} \subseteq Nat

VARIABLES
    apart,             \* sign-ins do not overlap what sets passwords
    upgrades,          \* the hash is of too little cost at first
    now,
    hash,              \* of the user's record: [password, weak, by]
    failed, lockedUntil,
    link,              \* in the reset store: [token, expires]
    opened,            \* the passwords sessions were opened with
    requests,
    calls,
    retired,           \* passwords replaced
    redeemed,          \* the calls that redeemed a link, each with its token
    proven             \* the changes that were accepted, each with the password it proved

passwordVars == <<apart, upgrades, now, hash, failed, lockedUntil, link, opened, requests, calls,
                  retired, redeemed, proven>>

settings == <<apart, upgrades>>
record == <<hash, failed, lockedUntil>>
histories == <<retired, redeemed, proven>>
Never == -1
NoLink == [token |-> 0, expires |-> 0]
NoRequest == [at |-> "idle"]

Hash == [password : 0..MaxCalls, weak : BOOLEAN, by : 0..MaxCalls]

PasswordsInit ==
    /\ apart \in BOOLEAN
    /\ now = 0
    /\ upgrades \in BOOLEAN
    /\ hash = [password |-> 0, weak |-> upgrades, by |-> 0]
    /\ failed = 0 /\ lockedUntil = Never
    /\ link = NoLink /\ opened = {}
    /\ requests = [r \in Request |-> NoRequest]
    /\ calls = 0
    /\ retired = {} /\ redeemed = {} /\ proven = {}

Locked == lockedUntil > now
SigningIn == {r \in Request : requests[r].at \in {"verify", "upgrade", "open"}
                                 /\ requests[r].kind = "signin"}
Setting == {r \in Request : requests[r].at # "idle"} \ SigningIn

Go(r, step) == requests' = [requests EXCEPT ![r].at = step]
Over(r) == requests' = [requests EXCEPT ![r] = NoRequest]
At(r, step) == requests[r].at = step

\* A request comes in and reads what it needs; `right': its password is that of the record.
Begins(r, kind, step, right, token) ==
    /\ At(r, "idle") /\ calls < MaxCalls
    /\ apart => IF kind = "signin" THEN Setting = {} ELSE SigningIn = {}
    /\ calls' = calls + 1
    /\ requests' = [requests EXCEPT ![r] =
          [at |-> step, kind |-> kind, call |-> calls', right |-> right, hash |-> hash,
           failed |-> failed, token |-> token]]
    /\ UNCHANGED <<settings, now, record, link, opened, histories>>

authenticate(r) == ~Locked /\ \E right \in BOOLEAN : Begins(r, "signin", "verify", right, 0)
changePassword(r) == ~Locked /\ \E right \in BOOLEAN : Begins(r, "change", "verify", right, 0)
redeem(r) == link # NoLink /\ now < link.expires /\ Begins(r, "redeem", "consume", TRUE, link.token)

\* Mutation: the failure itself is not counted.
AttemptFailsUncounted(r) ==
    /\ At(r, "verify") /\ ~requests[r].right
    /\ failed' = failed + 1
    /\ lockedUntil' = IF requests[r].failed >= Threshold THEN now + LockTime ELSE lockedUntil
    /\ Over(r)
    /\ UNCHANGED <<settings, now, hash, link, opened, calls, histories>>

\* The password does not match: one more failed attempt, and at the threshold a lock.
AttemptFails(r) ==
    /\ At(r, "verify") /\ ~requests[r].right
    /\ failed' = failed + 1
    /\ lockedUntil' = IF requests[r].failed + 1 >= Threshold THEN now + LockTime ELSE lockedUntil
    /\ Over(r)
    /\ UNCHANGED <<settings, now, hash, link, opened, calls, histories>>

\* A sign-in whose password matches.
Matches(r) ==
    /\ At(r, "verify") /\ requests[r].right /\ requests[r].kind = "signin"
    /\ failed' = 0 /\ lockedUntil' = Never
    /\ Go(r, IF requests[r].hash.weak THEN "upgrade" ELSE "open")
    /\ UNCHANGED <<settings, now, hash, link, opened, calls, histories>>

\* A hash of too little cost is replaced by a better one of the password given.
Upgrade(r) ==
    /\ At(r, "upgrade")
    /\ hash' = [password |-> requests[r].hash.password, weak |-> FALSE, by |-> requests[r].call]
    /\ Go(r, "open")
    /\ UNCHANGED <<settings, now, failed, lockedUntil, link, opened, calls, histories>>

\* The application opens a session for the subject it was given.
Opens(r) ==
    /\ At(r, "open")
    /\ opened' = opened \cup {requests[r].hash.password}
    /\ Over(r)
    /\ UNCHANGED <<settings, now, record, link, calls, histories>>

\* Mutation: sessions are left as they are.
revokeSessionsNone(r) ==
    /\ \/ At(r, "verify") /\ requests[r].right /\ requests[r].kind = "change"
       \/ At(r, "destroy")
    /\ opened' = opened
    /\ Go(r, "write")
    /\ UNCHANGED <<settings, now, record, link, calls, histories>>

\* Sessions are revoked first, and the new password is written then.
revokeSessions(r) ==
    /\ \/ At(r, "verify") /\ requests[r].right /\ requests[r].kind = "change"
       \/ At(r, "destroy")
    /\ opened' = {}
    /\ Go(r, "write")
    /\ UNCHANGED <<settings, now, record, link, calls, histories>>

NewHash(r) ==
    /\ hash' = [password |-> requests[r].call, weak |-> FALSE, by |-> requests[r].call]
    /\ retired' = retired \cup {hash.password}

\* Mutation: a change writes its hash whatever the hash is by now.
replacePasswordHashAnyway(r) ==
    /\ At(r, "write") /\ requests[r].kind = "change"
    /\ NewHash(r) /\ failed' = 0 /\ lockedUntil' = Never
    /\ proven' = proven \cup {<<requests[r].call, requests[r].hash.password>>}
    /\ Over(r)
    /\ UNCHANGED <<settings, now, link, opened, calls, redeemed>>

\* A change replaces the hash it verified; a hash made since stands.
replacePasswordHash(r) ==
    /\ At(r, "write") /\ requests[r].kind = "change"
    /\ IF hash = requests[r].hash
       THEN /\ NewHash(r) /\ failed' = 0 /\ lockedUntil' = Never
            /\ proven' = proven \cup {<<requests[r].call, requests[r].hash.password>>}
       ELSE UNCHANGED <<record, retired, proven>>
    /\ Over(r)
    /\ UNCHANGED <<settings, now, link, opened, calls, redeemed>>

\* A reset writes its password in any case, and leaves failed attempts and locks.
updatePasswordHash(r) ==
    /\ At(r, "write") /\ requests[r].kind = "redeem"
    /\ NewHash(r)
    /\ Over(r)
    /\ UNCHANGED <<settings, now, failed, lockedUntil, link, opened, calls, redeemed, proven>>

\* A link is issued, and the one before revoked; or that is all.
issue ==
    /\ calls < MaxCalls
    /\ calls' = calls + 1
    /\ link' = [token |-> calls', expires |-> now + LinkTtl]
    /\ UNCHANGED <<settings, now, record, opened, requests, histories>>
revoke ==
    /\ link # NoLink
    /\ link' = NoLink
    /\ UNCHANGED <<settings, now, record, opened, requests, calls, histories>>

\* Mutation: a link is consumed although it may be gone.
consumeUnchecked(r) ==
    /\ At(r, "consume")
    /\ link' = IF link.token = requests[r].token THEN NoLink ELSE link
    /\ redeemed' = redeemed \cup {<<requests[r].call, requests[r].token>>}
    /\ Go(r, "destroy")
    /\ UNCHANGED <<settings, now, record, opened, calls, retired, proven>>

\* The link a request read is consumed, if it is still there.
consume(r) ==
    /\ At(r, "consume")
    /\ IF link.token = requests[r].token /\ now < link.expires
       THEN /\ link' = NoLink
            /\ redeemed' = redeemed \cup {<<requests[r].call, requests[r].token>>}
            /\ Go(r, "destroy")
       ELSE Over(r) /\ UNCHANGED <<link, redeemed>>
    /\ UNCHANGED <<settings, now, record, opened, calls, retired, proven>>

\* A call of a store fails, or the process dies.
Fails(r) ==
    /\ ~At(r, "idle")
    /\ Over(r)
    /\ UNCHANGED <<settings, now, record, link, opened, calls, histories>>

Tick ==
    /\ now < MaxTime
    /\ now' = now + 1
    /\ UNCHANGED <<settings, record, link, opened, requests, calls, histories>>

PasswordsNext ==
    \/ issue \/ revoke \/ Tick
    \/ \E r \in Request :
        \/ authenticate(r) \/ changePassword(r) \/ redeem(r)
        \/ AttemptFails(r) \/ Matches(r) \/ Upgrade(r) \/ Opens(r)
        \/ consume(r) \/ revokeSessions(r)
        \/ replacePasswordHash(r) \/ updatePasswordHash(r)
        \/ Fails(r)

PasswordsSpec == PasswordsInit /\ [][PasswordsNext]_passwordVars

----------------------------------------------------------------------------
\* A request under way, what it knows and what it read of the user's record.
Asking == [at : {"verify", "upgrade", "open", "consume", "destroy", "write"},
           kind : {"signin", "change", "redeem"}, call : 1..MaxCalls, right : BOOLEAN,
           hash : Hash, failed : 0..MaxCalls, token : 0..MaxCalls]

\* Every variable keeps its type.
PasswordsTyped ==
    /\ settings \in BOOLEAN \X BOOLEAN /\ now \in 0..MaxTime
    /\ hash \in Hash /\ failed \in 0..MaxCalls
    /\ lockedUntil \in {Never} \cup 1..(MaxTime + LockTime)
    /\ link \in [token : 0..MaxCalls, expires : 0..(MaxTime + LinkTtl)]
    /\ calls \in 0..MaxCalls /\ {opened, retired} \subseteq SUBSET (0..MaxCalls)
    /\ {redeemed, proven} \subseteq SUBSET ((1..MaxCalls) \X (0..MaxCalls))
    /\ requests \in [Request -> {NoRequest} \cup Asking]

\* However changes and resets overlap each other, and wherever one breaks off, the sessions
\* there are were opened with the password there is, if sign-ins do not overlap them.
SessionsAreCurrent == apart => opened \subseteq {hash.password}

\* A password that was replaced never comes back: only a sign-in that found its hash too weak
\* could bring it, if it overlaps what set the new one.
ReplacedForGood == apart \/ ~upgrades => hash.password \notin retired

\* One of several concurrent changes that prove the same password wins, and one of several
\* redemptions of a link.
OneWins ==
    /\ \A a, b \in redeemed : a[2] = b[2] => a = b
    /\ apart \/ ~upgrades => \A a, b \in proven : a[2] = b[2] => a = b

\* Requests that count from the same record delay the lock by no more than their number.
LockComes == lockedUntil = Never => failed <= Threshold + Cardinality(Request) - 2
=============================================================================
