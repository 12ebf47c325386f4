------------------------------- MODULE Query -------------------------------
(***************************************************************************)
(* One query of the query package (packages/query/src/core/query.ts): the  *)
(* state its observers see, and the run of its query function with         *)
(* retries, timeouts, cancellation and collection of what nobody observes. *)
(*                                                                         *)
(* What the query reads is the state of some server, a version number.     *)
(* The server and the query function are external: a call reads a version  *)
(* at some moment, then answers, fails or times out, and need not honour   *)
(* the signal it is given.                                                 *)
(***************************************************************************)
EXTENDS Integers, FiniteSets

CONSTANTS
    Observer,
    MaxRuns,       \* bound on the runs of the query function
    Retries,
    MaxWrites      \* bound on the versions of the server's state

ASSUME QueryAssumption ==
    MaxRuns \in Nat \ {0} /\ Retries \in Nat /\ MaxWrites \in Nat

VARIABLES
    state,        \* QueryState: data (0: undefined), status, fetchStatus, isInvalidated
    runs,         \* each call of runWithRetry: where it is, its attempt, what it read
    fetchId, cancelledFetchId,
    promise, abortController,   \* the run they belong to, 0: null
    signalled,      \* runs whose signal has been aborted
    observers, gc,
    server,       \* the server's version
    since         \* observer: the version when the query was last invalidated at rest

control == <<fetchId, cancelledFetchId, promise, abortController, signalled>>
queryVars == <<state, runs, control, observers, gc, server, since>>

Run == 1..MaxRuns
Version == 1..(MaxWrites + 1)
Nothing == [phase |-> "none", attempt |-> 0, read |-> 0]

QueryInit ==
    /\ state = [data |-> 0, status |-> "pending", fetchStatus |-> "idle", isInvalidated |-> FALSE]
    /\ runs = [r \in Run |-> Nothing]
    /\ fetchId = 0 /\ cancelledFetchId = 0 /\ promise = 0 /\ abortController = 0 /\ signalled = {}
    /\ observers = {} /\ gc = FALSE
    /\ server = 1 /\ since = 0

Cancelled(r) == r <= cancelledFetchId
Live(r) == runs[r].phase \in {"calling", "read", "backoff"}

\* The server's state changes.
Write ==
    /\ server < MaxWrites + 1 /\ server' = server + 1
    /\ UNCHANGED <<state, runs, control, observers, gc, since>>

Invalidate ==
    /\ state' = [state EXCEPT !.isInvalidated = TRUE]
    /\ since' = IF \E r \in Run : Live(r) /\ ~Cancelled(r) THEN since ELSE server
    /\ UNCHANGED <<runs, control, observers, gc, server>>

----------------------------------------------------------------------------
\* What cancel() does; a fetch calls it too.
Stopped ==
    /\ cancelledFetchId' = fetchId
    /\ signalled' = IF abortController = 0 THEN signalled ELSE signalled \cup {abortController}

\* Mutation: the state still says that a fetch is under way.
CancelSilently ==
    /\ Stopped /\ abortController' = 0
    /\ UNCHANGED <<state, runs, fetchId, promise, observers, gc, server, since>>

Cancel ==
    /\ Stopped /\ abortController' = 0
    /\ state' = [state EXCEPT !.fetchStatus = "idle"]
    /\ UNCHANGED <<runs, fetchId, promise, observers, gc, server, since>>

\* fetch(): while there is a promise the caller gets that one, and nothing changes;
\* otherwise there is a new run, which calls the query function at once.
Fetch ==
    /\ promise = 0 /\ fetchId < MaxRuns
    /\ Stopped
    /\ fetchId' = fetchId + 1
    /\ promise' = fetchId' /\ abortController' = fetchId'
    /\ runs' = [runs EXCEPT ![fetchId'] = [Nothing EXCEPT !.phase = "calling"]]
    /\ state' = [state EXCEPT !.fetchStatus = "fetching",
                              !.status = IF state.data = 0 THEN "pending" ELSE @]
    /\ UNCHANGED <<observers, gc, server, since>>

\* The call of the query function reads the server's state.
Reads(r) ==
    /\ runs[r].phase = "calling"
    /\ runs' = [runs EXCEPT ![r] = [@ EXCEPT !.phase = "read", !.read = server]]
    /\ UNCHANGED <<state, control, observers, gc, server, since>>

Settle(r) == runs' = [runs EXCEPT ![r] = [@ EXCEPT !.phase = "settled"]]

\* Mutation: the answer of a cancelled run counts.
SucceedAnyway(r) ==
    /\ runs[r].phase = "read"
    /\ Settle(r)
    /\ state' = [data |-> runs[r].read, status |-> "success", fetchStatus |-> "idle",
                 isInvalidated |-> FALSE]
    /\ UNCHANGED <<control, observers, gc, server, since>>

\* The answer comes; that of a cancelled run is ignored.
Succeed(r) ==
    /\ runs[r].phase = "read"
    /\ Settle(r)
    /\ IF Cancelled(r)
       THEN UNCHANGED state
       ELSE state' = [data |-> runs[r].read, status |-> "success", fetchStatus |-> "idle",
                      isInvalidated |-> FALSE]
    /\ UNCHANGED <<control, observers, gc, server, since>>

\* The last attempt has failed.
Failed(r) ==
    /\ Settle(r)
    /\ IF Cancelled(r)
       THEN UNCHANGED state
       ELSE state' = [state EXCEPT !.status = "error", !.fetchStatus = "idle"]

\* Mutation: one attempt too many.
CallFailsOnceMore(r) ==
    /\ runs[r].phase \in {"calling", "read"}
    /\ IF runs[r].attempt <= Retries /\ ~(Cancelled(r) \/ r \in signalled)
       THEN /\ runs' = [runs EXCEPT ![r] = [@ EXCEPT !.phase = "backoff", !.read = 0]]
            /\ UNCHANGED state
       ELSE Failed(r)
    /\ UNCHANGED <<control, observers, gc, server, since>>

\* The call fails or takes longer than the timeout, or stops at its signal.
CallFails(r) ==
    /\ runs[r].phase \in {"calling", "read"}
    /\ IF runs[r].attempt < Retries /\ ~(Cancelled(r) \/ r \in signalled)
       THEN /\ runs' = [runs EXCEPT ![r] = [@ EXCEPT !.phase = "backoff", !.read = 0]]
            /\ UNCHANGED state
       ELSE Failed(r)
    /\ UNCHANGED <<control, observers, gc, server, since>>

\* The delay is over, which nothing shortens.
Retry(r) ==
    /\ runs[r].phase = "backoff"
    /\ IF Cancelled(r) \/ r \in signalled
       THEN Failed(r)
       ELSE /\ runs' = [runs EXCEPT ![r] = [phase |-> "calling", attempt |-> @.attempt + 1, read |-> 0]]
            /\ UNCHANGED state
    /\ UNCHANGED <<control, observers, gc, server, since>>

\* The end of fetch(), after the observers have been told.
Finally(r) ==
    /\ runs[r].phase = "settled"
    /\ runs' = [runs EXCEPT ![r] = Nothing]
    /\ promise' = 0 /\ abortController' = 0
    /\ UNCHANGED <<state, fetchId, cancelledFetchId, signalled, observers, gc, server, since>>

----------------------------------------------------------------------------

AddObserver(o) ==
    /\ o \notin observers /\ observers' = observers \cup {o}
    /\ gc' = FALSE
    /\ UNCHANGED <<state, runs, control, server, since>>

RemoveObserver(o) ==
    /\ o \in observers /\ observers' = observers \ {o}
    /\ gc' = (gc \/ observers' = {})
    /\ UNCHANGED <<state, runs, control, server, since>>

\* gcTime is over: destroy(), which leaves the query in its cache.
Collect ==
    /\ gc /\ gc' = FALSE
    /\ Stopped /\ abortController' = 0
    /\ state' = [state EXCEPT !.fetchStatus = "idle"]
    /\ observers' = {}
    /\ UNCHANGED <<runs, fetchId, promise, server, since>>

Progress(r) == Reads(r) \/ Succeed(r) \/ CallFails(r) \/ Retry(r) \/ Finally(r)

QueryNext ==
    \/ Write \/ Invalidate \/ Cancel \/ Fetch \/ Collect
    \/ \E r \in Run : Progress(r)
    \/ \E o \in Observer : AddObserver(o) \/ RemoveObserver(o)

\* Every call of the query function ends, by its timeout if need be; delays pass.
QueryFairness == \A r \in Run : WF_queryVars(Progress(r))

QuerySpec == QueryInit /\ [][QueryNext]_queryVars /\ QueryFairness

----------------------------------------------------------------------------
\* Every variable keeps its type.
QueryTyped ==
    /\ state \in [data : {0} \cup Version, status : {"pending", "success", "error"},
                  fetchStatus : {"idle", "fetching"}, isInvalidated : BOOLEAN]
    /\ runs \in [Run -> [phase : {"none", "calling", "read", "backoff", "settled"},
                         attempt : 0..Retries, read : {0} \cup Version]]
    /\ fetchId \in 0..MaxRuns /\ cancelledFetchId \in 0..MaxRuns
    /\ promise \in 0..MaxRuns /\ abortController \in 0..MaxRuns /\ signalled \subseteq Run
    /\ observers \subseteq Observer /\ gc \in BOOLEAN
    /\ server \in Version /\ since \in {0} \cup Version

\* Concurrent fetches share one run: no two that count are ever under way, and the one
\* under way can still be joined and aborted.
Deduplicated ==
    \A r \in Run : Live(r) /\ ~Cancelled(r) =>
        /\ promise = r /\ abortController = r
        /\ \A s \in Run \ {r} : ~Live(s)

\* The query says it is fetching exactly while a run that counts is under way, whatever
\* is cancelled, retried or collected.
FetchingIsTrue ==
    state.fetchStatus = "fetching" <=> \E r \in Run : Live(r) /\ ~Cancelled(r)

\* Once cancelled, a run leaves no trace: neither its answer nor its failure reaches
\* the state, however late it comes.
CancelledIsSilent ==
    [][\A r \in Run :
          Cancelled(r) /\ Live(r) /\ runs'[r].phase = "settled" => UNCHANGED state]_queryVars

\* Nothing is asked of the server again for a run that has been cancelled.
NoRetryOnceCancelled ==
    [][\A r \in Run : Cancelled(r) => runs'[r].attempt <= runs[r].attempt]_queryVars

\* A query is never about to be torn down under an observer.
ObservedIsKept == gc => observers = {}

\* What was read before an invalidation stays marked as stale, unless a run was under
\* way at that moment: such a run clears the mark with what it read before.
InvalidationSticks == state.data # 0 /\ state.data < since => state.isInvalidated
=============================================================================
