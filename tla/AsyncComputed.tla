--------------------------- MODULE AsyncComputed ---------------------------
(***************************************************************************)
(* Derived state that is loaded: packages/core/src/reactivity/              *)
(* async-computed.ts.  A run loads the value of one source; it is           *)
(* superseded when the source, or a signal read through ctx.track, changes, *)
(* and told so by its abort signal, which a loader may ignore.             *)
(*                                                                         *)
(* source counts the values the source had, which all differ; a run is      *)
(* known by its generation, and value is the run the value came from        *)
(* (0: the initial or the server's value).                                  *)
(***************************************************************************)
EXTENDS Integers

CONSTANTS
    Options,      \* the options it may be created with
    MaxRetries,   \* retry.attempts
    MaxSources,   \* bound on changes of the source
    MaxRuns       \* bound on runs

OptionsKnown ==
    Options \subseteq [start : {"immediate", "deferred", "hydrated"}, keepPrevious : BOOLEAN]
BoundsNatural == MaxRetries \in Nat /\ MaxSources \in Nat /\ MaxRuns \in Nat \ {0}

VARIABLES
    options,
    source, generation,
    of, attempt, where,   \* of each run: its source, its attempt, where it is
    aborted,              \* runs whose signal was aborted
    value, loading, stale, settled, error,
    tracked, watching,    \* dynamicDependencies and dynamicWatchers hold the dependency
    disposed, waiter

runs == <<generation, of, attempt, where, aborted>>
shown == <<value, loading, stale, settled, error>>
rest == <<tracked, watching, disposed, waiter>>
vars == <<options, source, runs, shown, rest>>

Run == 1..MaxRuns
Blank == -1   \* keepPreviousValue is off and nothing has been loaded since

Unfinished(g) == where[g] \in {"loading", "sleeping"}
IsCurrent(g) == ~disposed /\ g = generation

Init ==
    /\ options \in Options
    /\ source = 0
    /\ generation = IF options.start = "immediate" THEN 1 ELSE 0
    /\ of = [g \in Run |-> 0] /\ attempt = [g \in Run |-> 0]
    /\ where = [g \in Run |-> IF g = generation THEN "loading" ELSE "unborn"]
    /\ aborted = {}
    /\ value = 0 /\ loading = (options.start = "immediate") /\ stale = FALSE
    /\ settled = (options.start = "hydrated") /\ error = 0
    /\ tracked = FALSE /\ watching = FALSE /\ disposed = FALSE /\ waiter = "none"

\* A run that sleeps between attempts ends when it is aborted.
Aborted(gs) ==
    /\ aborted' = aborted \cup gs
    /\ where' = [g \in Run |->
                   IF g \in gs /\ where[g] = "sleeping" THEN "over" ELSE where[g]]

Latest == IF generation = 0 THEN {} ELSE {generation}

\* Mutation: the run before this one is not told.
RunUntold(n, s) ==
    /\ generation + n <= MaxRuns
    /\ generation' = generation + n
    /\ aborted' = aborted
    /\ of' = [g \in Run |-> IF g \in generation + 1..generation' THEN s ELSE of[g]]
    /\ where' = [g \in Run |-> IF g \in generation + 1..generation' THEN "loading" ELSE where[g]]
    /\ loading' = TRUE
    /\ value' = IF options.keepPrevious THEN value ELSE Blank
    /\ stale' = (options.keepPrevious /\ settled)
    /\ UNCHANGED <<options, attempt, settled, error>>

\* n calls of run() for source s, one after the other.
RunFor(n, s) ==
    /\ generation + n <= MaxRuns
    /\ generation' = generation + n
    /\ aborted' = aborted \cup Latest \cup (generation + 1..generation' - 1)
    /\ of' = [g \in Run |-> IF g \in generation + 1..generation' THEN s ELSE of[g]]
    /\ where' = [g \in Run |->
                   IF g \in generation + 1..generation' THEN "loading"
                   ELSE IF g = generation /\ where[g] = "sleeping" THEN "over"
                   ELSE where[g]]
    /\ loading' = TRUE
    /\ value' = IF options.keepPrevious THEN value ELSE Blank
    /\ stale' = (options.keepPrevious /\ settled)
    /\ UNCHANGED <<options, attempt, settled, error>>

----------------------------------------------------------------------------
\* The source changes, or the tracked dependency does, or both in one batch: the
\* effect and the dependency's watcher each start a run.
Changes ==
    /\ ~disposed
    /\ \E s \in {source, source + 1}, watched \in {FALSE, watching} :
         /\ s <= MaxSources
         /\ LET n == (IF s # source THEN 1 ELSE 0) + (IF watched THEN 1 ELSE 0)
            IN  n > 0 /\ RunFor(n, s)
         /\ source' = s
    /\ UNCHANGED rest

Refresh == ~disposed /\ RunFor(1, source) /\ UNCHANGED <<source, rest>>

Finish(g, end) == where' = [where EXCEPT ![g] = end]
Notified == waiter' = IF waiter = "waiting" THEN "released" ELSE waiter

\* Mutation: whatever is loaded is shown.
ResolveAlways(g) ==
    /\ where[g] = "loading"
    /\ Finish(g, "over")
    /\ value' = g /\ error' = 0 /\ loading' = FALSE /\ stale' = FALSE /\ settled' = TRUE
    /\ Notified
    /\ UNCHANGED <<options, source, generation, of, attempt, aborted>>
    /\ UNCHANGED <<tracked, watching, disposed>>

Resolve(g) ==
    /\ where[g] = "loading"
    /\ Finish(g, "over")
    /\ IF IsCurrent(g)
       THEN /\ value' = g /\ error' = 0 /\ loading' = FALSE /\ stale' = FALSE /\ settled' = TRUE
            /\ Notified
       ELSE UNCHANGED <<shown, waiter>>
    /\ UNCHANGED <<options, source, generation, of, attempt, aborted>>
    /\ UNCHANGED <<tracked, watching, disposed>>

\* A superseded run's failure is no failure.
Fails(g) == IsCurrent(g)

GiveUp(g) ==
    /\ Finish(g, "over")
    /\ error' = g /\ loading' = FALSE /\ stale' = FALSE /\ settled' = TRUE
    /\ Notified
    /\ UNCHANGED value

MayRetry(g) == attempt[g] < MaxRetries

\* The load fails: it is tried again, unless shouldRetry says no.
Reject(g) ==
    /\ where[g] = "loading"
    /\ \/ ~Fails(g) /\ Finish(g, "over") /\ UNCHANGED <<shown, waiter>>
       \/ Fails(g) /\ MayRetry(g) /\ Finish(g, "sleeping")
                   /\ UNCHANGED <<shown, waiter>>
       \/ Fails(g) /\ GiveUp(g)
    /\ UNCHANGED <<options, source, generation, of, attempt, aborted>>
    /\ UNCHANGED <<tracked, watching, disposed>>

BackoffOver(g) ==
    /\ where[g] = "sleeping"
    /\ Finish(g, "loading")
    /\ attempt' = [attempt EXCEPT ![g] = @ + 1]
    /\ UNCHANGED <<options, source, generation, of, aborted, shown, rest>>

\* ctx.track() in a loader, which may be a superseded one that goes on.
Track(g) ==
    /\ where[g] = "loading" /\ ~tracked
    /\ tracked' = TRUE /\ watching' = TRUE
    /\ UNCHANGED <<options, source, runs, shown, disposed, waiter>>

Dispose ==
    /\ ~disposed /\ disposed' = TRUE
    /\ Aborted(Latest)
    /\ tracked' = FALSE /\ watching' = FALSE
    /\ loading' = FALSE /\ stale' = FALSE
    /\ Notified
    /\ UNCHANGED <<options, source, generation, of, attempt, value, settled, error>>

WhenSettled ==
    /\ waiter = "none"
    /\ waiter' = IF disposed \/ (~loading /\ settled) THEN "released" ELSE "waiting"
    /\ UNCHANGED <<options, source, runs, shown, tracked, watching, disposed>>

Answer(g) == Resolve(g) \/ Reject(g)

Next ==
    \/ Changes \/ Refresh \/ Dispose \/ WhenSettled
    \/ \E g \in Run : Answer(g) \/ BackoffOver(g) \/ Track(g)

\* Loaders answer and timers fire.
Fairness == \A g \in Run : WF_vars(Answer(g)) /\ WF_vars(BackoffOver(g))

Spec == Init /\ [][Next]_vars /\ Fairness

----------------------------------------------------------------------------
\* Every variable keeps its type.
TypeOK ==
    /\ options \in Options
    /\ source \in 0..MaxSources /\ generation \in 0..MaxRuns
    /\ of \in [Run -> 0..MaxSources] /\ attempt \in [Run -> 0..MaxRetries]
    /\ where \in [Run -> {"unborn", "loading", "sleeping", "over"}]
    /\ aborted \subseteq Run
    /\ value \in Run \cup {0, Blank} /\ error \in Run \cup {0}
    /\ loading \in BOOLEAN /\ stale \in BOOLEAN /\ settled \in BOOLEAN
    /\ tracked \in BOOLEAN /\ watching \in BOOLEAN /\ disposed \in BOOLEAN
    /\ waiter \in {"none", "waiting", "released"}

\* loading tells whether the latest run is under way, retries and backoff included;
\* at rest and without an error, what is shown was loaded for the present source.
RestIsCurrent ==
    /\ loading <=> ~disposed /\ generation > 0 /\ Unfinished(generation)
    /\ settled /\ ~loading /\ error = 0 /\ ~disposed
         => value # Blank /\ (value # 0 => of[value] = source /\ value = generation)

\* Whatever still runs for nothing has been told so, and nothing sleeps for nothing.
SupersededAreAborted ==
    \A g \in Run : Unfinished(g) /\ ~IsCurrent(g) => g \in aborted /\ where[g] = "loading"

=============================================================================
