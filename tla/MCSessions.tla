----------------------------- MODULE MCSessions -----------------------------
(***************************************************************************)
(* Server sessions, for TLC: the session engine over a store whose          *)
(* operations are atomic, the index such a store keeps on a key-value        *)
(* driver, and the passwords sessions are opened with.  None of them looks   *)
(* into another, so a behaviour runs the one that part names and leaves the  *)
(* others at rest.                                                          *)
(***************************************************************************)
EXTENDS AuthSessions, TLC

CONSTANTS
    Caller, Session, IndexTtl, Ceiling,            \* of SubjectIndex
    Client, Threshold, LockTime, LinkTtl,          \* of Passwords
    MaxCalls, MaxClock

VARIABLES
    part,       \* "engine", "index" or "passwords"
    sessions, index, left, issued, usable, at, own, seen, beside, loose,
    apart, upgrades, clock, hash, failed, lockedUntil, link, opened, requests, calls,
    retired, redeemed, proven

indexing == <<sessions, index, left, issued, usable, at, own, seen, beside, loose>>
passwords == <<apart, upgrades, clock, hash, failed, lockedUntil, link, opened, requests, calls,
               retired, redeemed, proven>>

Index == INSTANCE SubjectIndex WITH Request <- Caller, Id <- Session, Ttl <- IndexTtl

User == INSTANCE Passwords WITH Request <- Client, MaxTime <- MaxClock, now <- clock

ASSUME IndexAssumption == Index!ConstantsOK
ASSUME UserAssumption == User!PasswordsAssumption

Requests == Permutations(Req)

PartsInit ==
    /\ part \in {"engine", "index", "passwords"}
    /\ Init /\ Index!Init /\ User!PasswordsInit
    /\ part # "passwords" => apart /\ ~upgrades

OfEngine(step) == part = "engine" /\ step /\ UNCHANGED <<part, indexing, passwords>>
OfIndex(step) == part = "index" /\ step /\ UNCHANGED <<part, vars, passwords>>
OfPasswords(step) == part = "passwords" /\ step /\ UNCHANGED <<part, vars, indexing>>

\* There is a third session only where nobody signs out.
MayMint == destroyed = {} \/ minted < 2
MaySignOut == minted <= 2

EngineNext ==
    \/ OfEngine(Tick)
    \/ OfEngine(SignIn /\ MayMint)
    \/ OfEngine(Destroy /\ MaySignOut)
    \/ \E q \in Req :
        \/ OfEngine(Ask(q))
        \/ OfEngine(Read(q))
        \/ OfEngine(Follow(q))
        \/ OfEngine(Touch(q))
        \/ OfEngine(Reread(q) /\ MayMint)
        \/ OfEngine(Mark(q))
        \/ OfEngine(Issue(q))

IndexNext ==
    \/ OfIndex(Index!Tick)
    \/ \E r \in Caller :
        \/ OfIndex(Index!WriteLook(r))
        \/ OfIndex(Index!WriteIndex(r))
        \/ OfIndex(Index!DestroyDelete(r))
        \/ OfIndex(Index!PruneLook(r))
        \/ OfIndex(Index!Prune(r))
        \/ OfIndex(Index!SignOut(r))
        \/ OfIndex(Index!SignOutEnds(r))
        \/ OfIndex(Index!Fails(r))
        \/ \E i \in Session :
            \/ OfIndex(Index!Write(r, i))
            \/ OfIndex(Index!Destroy(r, i))
            \/ OfIndex(Index!SignOutDelete(r, i))
    \/ \E i \in Session : OfIndex(Index!Expire(i))

PasswordsNext ==
    \/ OfPasswords(User!issue)
    \/ OfPasswords(User!revoke)
    \/ OfPasswords(User!Tick)
    \/ \E r \in Client :
        \/ OfPasswords(User!authenticate(r))
        \/ OfPasswords(User!changePassword(r))
        \/ OfPasswords(User!redeem(r))
        \/ OfPasswords(User!AttemptFails(r))
        \/ OfPasswords(User!Matches(r))
        \/ OfPasswords(User!Upgrade(r))
        \/ OfPasswords(User!Opens(r))
        \/ OfPasswords(User!consume(r))
        \/ OfPasswords(User!revokeSessions(r))
        \/ OfPasswords(User!replacePasswordHash(r))
        \/ OfPasswords(User!updatePasswordHash(r))
        \/ OfPasswords(User!Fails(r))

PartsNext == EngineNext \/ IndexNext \/ PasswordsNext
PartsSpec == PartsInit /\ [][PartsNext]_<<part, vars, indexing, passwords>>

----------------------------------------------------------------------------
\* The components keep their types.
AllTyped == TypeOK /\ Index!TypeOK /\ User!PasswordsTyped

\* No session outlives its absolute ceiling, or is read after it was idle for too long, and
\* nobody is signed out by a renewal or rotation, however these overlap.
LifetimesHold == CeilingHolds /\ IdleHolds /\ NobodyLost

\* Whatever sets a password leaves no session of an older one, the replaced password does not
\* come back, one of the calls that use the same proof wins, and the lock comes in time.
PasswordsAgree ==
    User!SessionsAreCurrent /\ User!ReplacedForGood /\ User!OneWins /\ User!LockComes

\* destroyForSubject() leaves no session with time before its ceiling, but for those whose
\* write() failed or came between the read of the index by some call and its writing back.
SignOutIsTotal == Index!SignOutIsTotal
=============================================================================
