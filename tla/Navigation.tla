------------------------------ MODULE Navigation ------------------------------
(***************************************************************************)
(* Client navigation: packages/router/src/core/router.ts (navigate, start,   *)
(* syncRoute), the guards of navigation/guards.ts and the histories of        *)
(* core/history.ts.  A navigation is a call of push() or replace(); each      *)
(* redirect starts it over as a new hop, with a navigation id of its own.     *)
(***************************************************************************)
EXTENDS Integers, FiniteSets, Sequences

CONSTANTS Path, Start, MaxNavigations,
          Stages,           \* of guards: beforeEach, beforeEnter and beforeResolve
          Records,          \* where the route records redirect to, a path to itself when not
          GuardsRedirect    \* guards redirect as well

NavigationAssumption ==
    /\ Start \in Path /\ IsFiniteSet(Path) /\ MaxNavigations \in Nat /\ Stages \in Nat \ {0}
    /\ Records \subseteq [Path -> Path] /\ GuardsRedirect \in BOOLEAN

Nav == 1..MaxNavigations

VARIABLES
    redirect,      \* the route records
    hashed,        \* the history reports a push later, in an event
    navigationId,
    hop,           \* each navigation's current hop: its id, its path, the paths it went through
                   \* and the guard stages behind it
    outcome,       \* "idle", "guarding", or how the navigation ended
    route, path,   \* currentRoute, and what the history says
    events         \* the history has changed and its event has not been handled

navigationVars == <<redirect, hashed, navigationId, hop, outcome, route, path, events>>

Ended == {"committed", "aborted", "duplicated", "loop", "cancelled", "failed"}

NavigationInit ==
    /\ redirect \in Records /\ hashed \in BOOLEAN
    /\ navigationId = 0 /\ path = Start /\ route = path /\ events = FALSE
    /\ outcome = [n \in Nav |-> "idle"]
    /\ hop = [n \in Nav |-> [id |-> 0, to |-> path, seen |-> {}, passed |-> 0]]

\* The paths that records lead to from p, each by the one before it, up to the first that
\* was gone through before, is the current one or leads nowhere else.
Ways(p, seen) ==
    {way \in UNION {[1..k -> Path] : k \in 1..Cardinality(Path) + 1} :
        /\ way[1] = p
        /\ \A i \in DOMAIN way :
              LET leadsOn == /\ way[i] \notin seen \cup {way[j] : j \in 1..i - 1}
                             /\ way[i] # route /\ redirect[way[i]] # way[i]
              IN  IF leadsOn THEN i < Len(way) /\ way[i + 1] = redirect[way[i]]
                  ELSE i = Len(way)}

\* navigate(), up to its first guard: every hop has a new id; a path gone through before
\* is a loop, the current one a duplicate; a record that redirects is followed at once.
navigate(n, p, seen) ==
    \E way \in Ways(p, seen) :
        LET last == way[Len(way)]
            before == seen \cup {way[i] : i \in 1..Len(way) - 1} IN
        /\ navigationId' = navigationId + Len(way)
        /\ hop' = [hop EXCEPT ![n] = [id |-> navigationId', to |-> last,
                                      seen |-> before \cup {last}, passed |-> 0]]
        /\ outcome' = [outcome EXCEPT ![n] = IF last \in before THEN "loop"
                                             ELSE IF last = route THEN "duplicated"
                                             ELSE "guarding"]

\* push() or replace(); a location that cannot be resolved ends it at once.
Push(n, p) ==
    /\ outcome[n] = "idle" /\ \A m \in Nav : m < n => outcome[m] # "idle"
    /\ \/ navigate(n, p, {})
       \/ /\ navigationId' = navigationId + 1
          /\ outcome' = [outcome EXCEPT ![n] = "aborted"] /\ UNCHANGED hop
    /\ UNCHANGED <<redirect, hashed, route, path, events>>

\* A stage of guards lets it through...
Allow(n) ==
    /\ outcome[n] = "guarding" /\ hop[n].passed < Stages
    /\ hop' = [hop EXCEPT ![n].passed = @ + 1]
    /\ UNCHANGED <<redirect, hashed, navigationId, outcome, route, path, events>>

\* ... cancels or fails ...
Refuse(n) ==
    /\ outcome[n] = "guarding" /\ hop[n].passed < Stages
    /\ \E how \in {"cancelled", "failed"} : outcome' = [outcome EXCEPT ![n] = how]
    /\ UNCHANGED <<redirect, hashed, navigationId, hop, route, path, events>>

\* ... or redirects it, without asking whether it is still the newest.
Redirect(n, p) ==
    /\ GuardsRedirect
    /\ outcome[n] = "guarding" /\ hop[n].passed < Stages
    /\ navigate(n, p, hop[n].seen)
    /\ UNCHANGED <<redirect, hashed, route, path, events>>

\* Mutation: whoever passes its guards commits.
CommitAlways(n) ==
    /\ outcome[n] = "guarding" /\ hop[n].passed = Stages
    /\ path' = hop[n].to /\ route' = hop[n].to
    /\ outcome' = [outcome EXCEPT ![n] = "committed"]
    /\ UNCHANGED <<redirect, hashed, navigationId, hop, events>>

\* Mutation: the route of a navigation that was overtaken is shown, the history left.
CommitOvertaken(n) ==
    /\ outcome[n] = "guarding" /\ hop[n].passed = Stages
    /\ route' = hop[n].to
    /\ path' = IF hop[n].id = navigationId THEN hop[n].to ELSE path
    /\ outcome' = [outcome EXCEPT ![n] = IF hop[n].id = navigationId THEN "committed" ELSE "aborted"]
    /\ UNCHANGED <<redirect, hashed, navigationId, hop, events>>

\* All guards passed: the newest hop changes the history and the route, any other has
\* been overtaken.  A history that reports at once has syncRoute() do the same first; the
\* one of hashes reports a push later, a replacement at once.
Commit(n) ==
    /\ outcome[n] = "guarding" /\ hop[n].passed = Stages
    /\ IF hop[n].id = navigationId
       THEN /\ path' = hop[n].to /\ route' = hop[n].to
            /\ events' \in {events, events \/ hashed}
            /\ outcome' = [outcome EXCEPT ![n] = "committed"]
       ELSE /\ outcome' = [outcome EXCEPT ![n] = "aborted"]
            /\ UNCHANGED <<path, route, events>>
    /\ UNCHANGED <<redirect, hashed, navigationId, hop>>

\* back(), forward(), go() or the user.
Traverse ==
    /\ path' \in Path \ {path} /\ events' = TRUE
    /\ UNCHANGED <<redirect, hashed, navigationId, hop, outcome, route>>

\* syncRoute() asks no guard and counts as no navigation.
syncRoute ==
    /\ events
    /\ route' = path /\ events' = FALSE
    /\ UNCHANGED <<redirect, hashed, navigationId, hop, outcome, path>>

NavigationNext ==
    \/ Traverse \/ syncRoute
    \/ \E n \in Nav : \/ Allow(n) \/ Refuse(n) \/ Commit(n)
                      \/ \E p \in Path : Push(n, p) \/ Redirect(n, p)

Answers(n) == Allow(n) \/ Refuse(n) \/ Commit(n) \/ \E p \in Path : Redirect(n, p)

\* Guards answer.
NavigationSpec ==
    /\ NavigationInit /\ [][NavigationNext]_navigationVars
    /\ \A n \in Nav : WF_navigationVars(Answers(n))

----------------------------------------------------------------------------
\* Every variable keeps its type.
NavigationTyped ==
    /\ redirect \in Records /\ hashed \in BOOLEAN /\ navigationId \in Nat
    /\ hop \in [Nav -> [id : Nat, to : Path, seen : SUBSET Path, passed : 0..Stages]]
    /\ outcome \in [Nav -> Ended \cup {"idle", "guarding"}]
    /\ {route, path} \subseteq Path /\ events \in BOOLEAN

\* Whatever navigations, redirects and traversals overlap, with nothing left to hear from
\* the history the route is where the history is.
RouteIsPath == ~events => route = path

\* "should abort stale async navigation without overwriting the winner"
\* (__tests__/guards.test.ts:321): what was called earlier never replaces what was called
\* later and was committed.
WinnerStays ==
    [][\A n \in Nav : outcome[n] # "committed" /\ outcome'[n] = "committed"
          => \A m \in Nav : m > n => outcome[m] # "committed"]_outcome

\* A navigation replaces no later one, unless a guard redirected it after that one began.
NewestHopWins ==
    [][\A n \in Nav : outcome[n] # "committed" /\ outcome'[n] = "committed"
          => \A m \in Nav : outcome[m] = "committed" => hop[m].id < hop[n].id]_outcome

\* Every navigation ends, however its guards and the records redirect it.
NothingGuards == \A n \in Nav : outcome[n] # "guarding"
NavigationsEnd == []<>NothingGuards
=============================================================================
