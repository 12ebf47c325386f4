----------------------------- MODULE ServerCache -----------------------------
(***************************************************************************)
(* The in-process caches of a server: packages/core/src/ssr/                *)
(* response-cache.ts and data-cache.ts.  They keep their entries in the same *)
(* structures; the data cache, whose values have no Vary header, has no     *)
(* refined keys.                                                           *)
(*                                                                         *)
(* A base key is a path (a call, for data) and the one negotiated header    *)
(* has the values Header: a key is <<base, header>>, with None for the      *)
(* unrefined one.  lru is the linked list as an order: it has <<j, k>> when *)
(* j is nearer to the head than k.                                         *)
(***************************************************************************)
EXTENDS Integers, FiniteSets

CONSTANTS Base, Header, None,
          TagsOf,       \* the tags of each base key
          MaxEntries,   \* maxEntries
          MaxRuns       \* bound on runs at a time

NoRun == "nothing"

CacheAssumption ==
    /\ None \notin Header /\ NoRun \notin Header \cup {None}
    /\ MaxEntries \in Nat \ {0} /\ MaxRuns \in Nat
    /\ \A b \in Base : b \in DOMAIN TagsOf

VARIABLES
    kind,        \* which of the two: "response" or "data"
    age,         \* of each key: no entry, or within or past its two limits
    lru, tagIndex, varyIndex, varyRefs,
    inflight,    \* of each key: the header of the request that runs it
    shared,      \* keys whose run a request with another header awaits as well
    last,        \* of each base key: the key stored last
    crossed      \* a request was answered with a variant for another header

cacheVars == <<kind, age, lru, tagIndex, varyIndex, varyRefs, inflight, shared, last, crossed>>

Key == Base \X (Header \cup {None})
Tag == UNION {TagsOf[b] : b \in Base}
Entries == {k \in Key : age[k] # "absent"}

CacheInit ==
    /\ kind \in {"response", "data"}
    /\ age = [k \in Key |-> "absent"]
    /\ lru = {} /\ tagIndex = {} /\ varyIndex = {} /\ varyRefs = [b \in Base |-> 0]
    /\ inflight = [k \in Key |-> NoRun] /\ shared = {}
    /\ last = [b \in Base |-> <<b, NoRun>>] /\ crossed = FALSE

\* The list when the entries ks are detached, and with k pushed to its front.
Without(ks) == {e \in lru : e[1] \notin ks /\ e[2] \notin ks}
AtFront(k, ks) == ({k} \X (Entries \ (ks \cup {k}))) \cup Without(ks \cup {k})
touch(k) == lru' = AtFront(k, {})

\* releaseVary() for every removed entry: the rule goes with its last reference.
References(ks, b) == varyRefs[b] - Cardinality({k \in ks : k[1] = b})
Released(ks, rules) == {b \in rules : ~ \E k \in ks : k[1] = b /\ References(ks, b) <= 0}

remove(ks) ==
    /\ age' = [k \in Key |-> IF k \in ks THEN "absent" ELSE age[k]]
    /\ lru' = Without(ks)
    /\ tagIndex' = {e \in tagIndex : e[2] \notin ks}
    /\ varyRefs' = [b \in Base |-> References(ks, b)]
    /\ varyIndex' = Released(ks, varyIndex)

\* store(), with the eviction of the tail when the list then holds one too many.
Evicted(k) ==
    LET others == Entries \ {k}
    IN  IF Cardinality(others) < MaxEntries THEN {}
        ELSE {e \in others : \A j \in others \ {e} : <<j, e>> \in lru}

\* Mutation: the rule is learned before the entry it replaces is removed.
storeAfterLearning(k, vary) ==
    LET gone == Evicted(k) \cup ({k} \cap Entries)
        learned == IF vary THEN varyIndex \cup {k[1]} ELSE varyIndex \ {k[1]}
    IN  /\ age' = [j \in Key |-> IF j = k THEN "fresh" ELSE IF j \in gone THEN "absent" ELSE age[j]]
        /\ lru' = AtFront(k, gone)
        /\ tagIndex' = {e \in tagIndex : e[2] \notin gone} \cup (TagsOf[k[1]] \X {k})
        /\ varyRefs' = [b \in Base |-> References(gone, b) + (IF b = k[1] THEN 1 ELSE 0)]
        /\ varyIndex' = Released(gone, learned)

store(k, vary) ==
    LET gone == Evicted(k) \cup ({k} \cap Entries)
        rules == Released(gone, varyIndex)
    IN  /\ age' = [j \in Key |-> IF j = k THEN "fresh" ELSE IF j \in gone THEN "absent" ELSE age[j]]
        /\ lru' = AtFront(k, gone)
        /\ tagIndex' = {e \in tagIndex : e[2] \notin gone} \cup (TagsOf[k[1]] \X {k})
        /\ varyRefs' = [b \in Base |-> References(gone, b) + (IF b = k[1] THEN 1 ELSE 0)]
        /\ varyIndex' = IF vary THEN rules \cup {k[1]} ELSE rules \ {k[1]}

\* The key a request for b with header h is looked up under.
Lookup(b, h) == <<b, IF b \in varyIndex THEN h ELSE None>>

----------------------------------------------------------------------------
run(k, h) ==
    /\ inflight[k] = NoRun => Cardinality({j \in Key : inflight[j] # NoRun}) < MaxRuns
    /\ inflight' = [inflight EXCEPT ![k] = IF @ = NoRun THEN h ELSE @]

\* coalesce(): a run of its own, or a share in the one under way.
coalesce(k, h) ==
    /\ run(k, h)
    /\ shared' = shared \cup (IF inflight[k] \in {NoRun, h} THEN {} ELSE {k})

\* A cacheable request or call: a fresh entry is served, a stale one is served and
\* refreshed behind it, one past both limits is dropped.
handle(b, h) ==
    LET k == Lookup(b, h)
    IN  /\ \/ age[k] = "fresh" /\ touch(k)
              /\ UNCHANGED <<age, tagIndex, varyIndex, varyRefs, inflight, shared>>
           \/ /\ age[k] = "stale" /\ touch(k)
              /\ run(k, h)
              /\ UNCHANGED <<age, tagIndex, varyIndex, varyRefs, shared>>
           \/ age[k] = "over" /\ remove({k}) /\ coalesce(k, h)
           \/ /\ age[k] = "absent" /\ coalesce(k, h)
              /\ UNCHANGED <<age, lru, tagIndex, varyIndex, varyRefs>>
        /\ UNCHANGED <<kind, last, crossed>>

Request(b, h) == kind = "response" /\ handle(b, h)
Call(b) == kind = "data" /\ handle(b, None)

\* A run ends: runAndStore() keeps a response that says 200, under the key that its
\* own Vary header gives, and whoever waits is answered.
Ended(k) ==
    /\ inflight[k] # NoRun
    /\ inflight' = [inflight EXCEPT ![k] = NoRun]
    /\ shared' = shared \ {k}
    /\ UNCHANGED kind

runAndStore(k, vary) ==
    /\ Ended(k)
    /\ LET key == <<k[1], IF vary THEN inflight[k] ELSE None>>
       IN  store(key, vary) /\ last' = [last EXCEPT ![k[1]] = key]
    /\ crossed' = (crossed \/ (vary /\ k \in shared))

Respond(k) == kind = "response" /\ \E vary \in BOOLEAN : runAndStore(k, vary)
Return(k) == kind = "data" /\ runAndStore(k, FALSE)

\* Another status, or a rejection: nothing is kept.
Fail(k) == Ended(k) /\ UNCHANGED <<age, lru, tagIndex, varyIndex, varyRefs, last, crossed>>

\* Mutation: entries go, and stay in the index of their other tags.
invalidateTagsUnindexed(ts) ==
    LET ks == {e[2] : e \in {i \in tagIndex : i[1] \in ts}}
    IN  /\ age' = [k \in Key |-> IF k \in ks THEN "absent" ELSE age[k]]
        /\ lru' = Without(ks)
        /\ tagIndex' = {e \in tagIndex : e[1] \notin ts}
        /\ varyRefs' = [b \in Base |-> References(ks, b)]
        /\ varyIndex' = Released(ks, varyIndex)
        /\ UNCHANGED <<kind, inflight, shared, last, crossed>>

\* Runs under way go on, and store what they bring.
invalidateTags(ts) ==
    /\ remove({e[2] : e \in {i \in tagIndex : i[1] \in ts}})
    /\ UNCHANGED <<kind, inflight, shared, last, crossed>>

clear ==
    /\ age' = [k \in Key |-> "absent"]
    /\ lru' = {} /\ tagIndex' = {} /\ varyIndex' = {} /\ varyRefs' = [b \in Base |-> 0]
    /\ UNCHANGED <<kind, inflight, shared, last, crossed>>

\* Time takes an entry past one of its limits.
Grow(k) ==
    /\ age[k] \in {"fresh", "stale"}
    /\ age' = [age EXCEPT ![k] = IF @ = "fresh" THEN "stale" ELSE "over"]
    /\ UNCHANGED <<kind, lru, tagIndex, varyIndex, varyRefs, inflight, shared, last, crossed>>

CacheNext ==
    \/ \E b \in Base : Call(b) \/ \E h \in Header : Request(b, h)
    \/ \E k \in Key : Respond(k) \/ Return(k) \/ Fail(k) \/ Grow(k)
    \/ \E ts \in SUBSET Tag : ts # {} /\ invalidateTags(ts)
    \/ clear

CacheSpec == CacheInit /\ [][CacheNext]_cacheVars

----------------------------------------------------------------------------
\* Every variable keeps its type.
CacheTyped ==
    /\ kind \in {"response", "data"}
    /\ age \in [Key -> {"absent", "fresh", "stale", "over"}]
    /\ lru \subseteq Key \X Key /\ tagIndex \subseteq Tag \X Key
    /\ varyIndex \subseteq Base /\ varyRefs \in [Base -> Nat]
    /\ inflight \in [Key -> Header \cup {None, NoRun}]
    /\ shared \subseteq Key
    /\ last \in [Base -> Base \X (Header \cup {None, NoRun})] /\ crossed \in BOOLEAN

\* The list orders the entries, from the latest used to the earliest.
ListOfEntries ==
    /\ lru \subseteq Entries \X Entries
    /\ \A k \in Entries : <<k, k>> \notin lru
    /\ \A j, k \in Entries : j # k => <<j, k>> \in lru \/ <<k, j>> \in lru
    /\ \A i, j, k \in Entries : <<i, j>> \in lru /\ <<j, k>> \in lru => <<i, k>> \in lru

\* The list holds each entry once and no more of them than it may; the tags of each
\* entry, and nothing else, are indexed; a rule has a live entry that it describes.
IndexesAgree ==
    /\ ListOfEntries
    /\ Cardinality(Entries) <= MaxEntries
    /\ tagIndex = UNION {TagsOf[k[1]] \X {k} : k \in Entries}
    /\ \A b \in Base : varyRefs[b] = Cardinality({k \in Entries : k[1] = b})
    /\ \A b \in varyIndex : varyRefs[b] > 0

\* What was stored last for a path is what the next lookup for it finds, for as long
\* as it is kept: a rule neither outlives the header that taught it nor is lost.
StoredIsFound ==
    \A b \in Base, h \in Header :
        last[b] \in Entries /\ last[b][2] \in {h, None} => Lookup(b, h) = last[b]

\* "otherwise one client's response would be served to another with different
\* negotiated headers" (response-cache.ts:121).
VariantsKept == ~crossed
=============================================================================
