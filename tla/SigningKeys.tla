----------------------------- MODULE SigningKeys ------------------------------
(***************************************************************************)
(* The keys that sign id tokens, as a server finds them:                     *)
(* createJwksResolver of packages/auth/src/server/oauth/jwks.ts.            *)
(*                                                                         *)
(* The provider is external: it publishes and retires keys, reads its set    *)
(* at some moment of a fetch, and answers, or fails, within Latency.  A      *)
(* token without a key id asks for one more key.  Which entries of the set   *)
(* are signing keys is data.                                                *)
(***************************************************************************)
EXTENDS Integers, FiniteSets

CONSTANTS
    Caller, Key,
    CacheTtl, MinRefetch,
    Latency,       \* how long a fetch may take
    MaxTime,       \* bound on the clock
    MaxRotations,  \* bound on keys published or retired
    MaxBlips       \* bound on fetches that fail

SigningKeysAssumption ==
    /\ {CacheTtl, Latency, MaxTime, MaxRotations, MaxBlips} \subseteq Nat
    /\ MinRefetch \in Nat /\ MinRefetch > Latency

VARIABLES
    now,
    published, changedAt,   \* at the provider; when that changed for each key
    rotations, blips,
    keys, fetchedAt, lastAttemptAt,
    inFlight,      \* what the fetch under way has read: Nothing, Unread or a set of keys
    gets,          \* caller: the key it asks for and the await it is at
    missed,        \* observer: the last fetch failed
    answer         \* observer: what a get() has just found, and what was true then

provider == <<published, changedAt, rotations, blips>>
cache == <<keys, fetchedAt, lastAttemptAt, inFlight, missed>>
keysVars == <<now, provider, cache, gets, answer>>

Never == -(CacheTtl + MinRefetch + 1)
Nothing == [read |-> "none", keys |-> {}]
Unread == [read |-> "unread", keys |-> {}]
Resting == [key |-> CHOOSE k \in Key : TRUE, at |-> "rest"]
NoAnswer == [found |-> TRUE, published |-> TRUE, since |-> 0, missed |-> TRUE, crowded |-> FALSE]

KeysInit ==
    /\ now = 0
    /\ published \in SUBSET Key /\ changedAt = [k \in Key |-> Never]
    /\ rotations = 0 /\ blips = 0
    /\ keys = {} /\ fetchedAt = Never /\ lastAttemptAt = Never
    /\ inFlight = Nothing /\ missed = FALSE
    /\ gets = [c \in Caller |-> Resting]
    /\ answer = NoAnswer

----------------------------------------------------------------------------
\* get() returns; whoever is told of it sees what was so at that moment.
Answered(c, k) ==
    /\ gets' = [gets EXCEPT ![c] = Resting]
    /\ answer' = [found |-> k \in keys, published |-> k \in published,
                  since |-> now - changedAt[k], missed |-> missed,
                  crowded |-> inFlight # Nothing]
    /\ UNCHANGED cache

\* refresh(): the fetch under way is shared, or doFetch() begins one.
refresh(c, k, at) ==
    /\ gets' = [gets EXCEPT ![c] = [key |-> k, at |-> at]]
    /\ IF inFlight # Nothing THEN UNCHANGED <<inFlight, lastAttemptAt>>
       ELSE inFlight' = Unread /\ lastAttemptAt' = now
    /\ answer' = NoAnswer
    /\ UNCHANGED <<keys, fetchedAt, missed>>

TooSoon == now - lastAttemptAt < MinRefetch

\* Mutation: a refetch that is refused counts as one that was made.
LookupPostpones(c, k) ==
    IF k \in keys THEN Answered(c, k)
    ELSE IF TooSoon
    THEN /\ gets' = [gets EXCEPT ![c] = Resting]
         /\ answer' = [found |-> FALSE, published |-> k \in published,
                       since |-> now - changedAt[k], missed |-> missed,
                       crowded |-> inFlight # Nothing]
         /\ lastAttemptAt' = now
         /\ UNCHANGED <<keys, fetchedAt, inFlight, missed>>
    ELSE refresh(c, k, "awaits unknown")

\* The look-up in the cached set, and what an unknown key leads to.
Lookup(c, k) ==
    IF k \in keys \/ TooSoon THEN Answered(c, k) ELSE refresh(c, k, "awaits unknown")

\* Mutation: a set is reused until a key is missing from it.
getTrusting(c, k) ==
    /\ gets[c].at = "rest"
    /\ IF fetchedAt = Never THEN refresh(c, k, "awaits stale") ELSE Lookup(c, k)
    /\ UNCHANGED <<now, provider>>

get(c, k) ==
    /\ gets[c].at = "rest"
    /\ IF now - fetchedAt > CacheTtl THEN refresh(c, k, "awaits stale") ELSE Lookup(c, k)
    /\ UNCHANGED <<now, provider>>

\* get() goes on once the fetch it awaited is over, however it ended.
Resume(c) ==
    /\ \/ gets[c].at = "had stale" /\ Lookup(c, gets[c].key)
       \/ gets[c].at = "had unknown" /\ Answered(c, gets[c].key)
    /\ UNCHANGED <<now, provider>>

----------------------------------------------------------------------------
\* The end of doFetch() is the end of every await of it.
Settle ==
    /\ inFlight' = Nothing
    /\ gets' = [c \in Caller |->
                  [gets[c] EXCEPT !.at = CASE @ = "awaits stale" -> "had stale"
                                           [] @ = "awaits unknown" -> "had unknown"
                                           [] OTHER -> @]]
    /\ answer' = NoAnswer
    /\ UNCHANGED <<now, published, changedAt, rotations, lastAttemptAt>>

FetchReads ==
    /\ inFlight = Unread
    /\ inFlight' = [read |-> "read", keys |-> published]
    /\ answer' = NoAnswer
    /\ UNCHANGED <<now, provider, keys, fetchedAt, lastAttemptAt, missed, gets>>

FetchArrives ==
    /\ inFlight.read = "read"
    /\ keys' = inFlight.keys /\ fetchedAt' = now /\ missed' = FALSE
    /\ UNCHANGED blips
    /\ Settle

\* The request, its status or its body is no good; what is cached stays.
FetchFails ==
    /\ inFlight # Nothing /\ blips < MaxBlips
    /\ blips' = blips + 1 /\ missed' = TRUE
    /\ UNCHANGED <<keys, fetchedAt>>
    /\ Settle

\* The provider publishes a key, or retires it.
Rotate(k) ==
    /\ rotations < MaxRotations /\ rotations' = rotations + 1
    /\ published' = (published \ {k}) \cup ({k} \ published)
    /\ changedAt' = [changedAt EXCEPT ![k] = now]
    /\ answer' = NoAnswer
    /\ UNCHANGED <<now, blips, cache, gets>>

\* Callers that may go on do so before the clock moves.
Tick ==
    /\ now < MaxTime
    /\ inFlight # Nothing => now - lastAttemptAt < Latency
    /\ \A c \in Caller : gets[c].at \in {"rest", "awaits stale", "awaits unknown"}
    /\ now' = now + 1
    /\ answer' = NoAnswer
    /\ UNCHANGED <<provider, cache, gets>>

KeysNext ==
    \/ FetchReads \/ FetchArrives \/ FetchFails \/ Tick
    \/ \E c \in Caller : Resume(c) \/ \E k \in Key : get(c, k)
    \/ \E k \in Key : Rotate(k)

----------------------------------------------------------------------------
\* Every variable keeps its type.
KeysTyped ==
    /\ now \in 0..MaxTime /\ rotations \in 0..MaxRotations /\ blips \in 0..MaxBlips
    /\ published \in SUBSET Key /\ changedAt \in [Key -> {Never} \cup 0..MaxTime]
    /\ keys \in SUBSET Key /\ missed \in BOOLEAN
    /\ fetchedAt \in {Never} \cup 0..MaxTime /\ lastAttemptAt \in {Never} \cup 0..MaxTime
    /\ inFlight \in {Nothing, Unread} \cup [read : {"read"}, keys : SUBSET Key]
    /\ gets \in [Caller -> [key : Key \cup {Resting.key},
                            at : {"rest", "awaits stale", "awaits unknown", "had stale",
                                  "had unknown"}]]
    /\ answer \in [found : BOOLEAN, published : BOOLEAN, since : Int, missed : BOOLEAN,
                   crowded : BOOLEAN]

\* A key that was retired is given no longer than a set is cached and a fetch takes, unless
\* the last fetch failed.
RetiredIsForgotten ==
    answer.found /\ ~answer.published /\ ~answer.missed => answer.since <= CacheTtl + Latency

\* A key is missed only if the last fetch failed, if it was published within the interval that
\* spares the provider, or while a fetch is under way: such a get() does not wait for it.
PublishedIsFound ==
    ~answer.found /\ answer.published /\ ~answer.missed /\ ~answer.crowded
        => answer.since < MinRefetch
=============================================================================
