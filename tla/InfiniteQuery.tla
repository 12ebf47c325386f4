---------------------------- MODULE InfiniteQuery -----------------------------
(***************************************************************************)
(* useInfiniteQuery: packages/query/src/hooks/useInfiniteQuery.ts, a list of *)
(* pages that grows at both ends and is fetched again from its first page.  *)
(*                                                                         *)
(* A page is its parameter and the run of fetchPage() that fetched it; the   *)
(* page after parameter p is p + 1 as long as there is one.  Each run keeps  *)
(* the pages it found when it was called.  dispose() is cancel() here: the   *)
(* hook's functions go on working after it.                                *)
(***************************************************************************)
EXTENDS Integers, Sequences

CONSTANTS
    FirstParam, LastParam,  \* the parameters there are pages for, 0 among them
    MaxPages,               \* maxPages
    Retries,                \* retry
    Timed,                  \* timeout > 0: a cancelled call is given up at once
    MaxRuns                 \* bound on the runs of fetchPage()

ConstantsOK ==
    /\ FirstParam \in Int /\ LastParam \in Int /\ FirstParam <= 0 /\ 0 <= LastParam
    /\ MaxPages \in Nat \ {0} /\ Retries \in Nat /\ MaxRuns \in Nat \ {0}
    /\ Timed \in BOOLEAN

VARIABLES
    overlap,                \* runs are started while another has not ended
    pages,                  \* the data signal, <<>> if it is undefined
    hasNext, status, fetching,   \* hasNextPage, status, fetchStatus
    made,                   \* how many runs there were
    kind, base, param,      \* of each run: its caller, the pages it found, its page
    phase, attempt, aborted,
    controller,             \* the run whose AbortController is the current one, or 0
    refetched               \* observer: the last refetch that succeeded, or 0

shown == <<pages, hasNext, status>>
calls == <<kind, base, param>>
vars == <<overlap, shown, fetching, made, calls, phase, attempt, aborted, controller, refetched>>

Run == 1..MaxRuns
Param == FirstParam..LastParam
Page == [param : Param, run : 0..MaxRuns]

\* The hook starts from what the client has cached.
Init ==
    /\ overlap \in BOOLEAN
    /\ pages \in {<<>>, <<[param |-> 0, run |-> 0]>>}
    /\ hasNext = (pages # <<>> /\ 0 < LastParam)
    /\ status = IF pages = <<>> THEN "pending" ELSE "success"
    /\ fetching = FALSE /\ made = 0 /\ controller = 0 /\ refetched = 0
    /\ kind = [r \in Run |-> "refetch"] /\ base = [r \in Run |-> <<>>]
    /\ param = [r \in Run |-> 0] /\ phase = [r \in Run |-> "unmade"]
    /\ attempt = [r \in Run |-> 0] /\ aborted = [r \in Run |-> FALSE]

Live(r) == phase[r] \notin {"unmade", "ended"}
Quiet == \A r \in Run : ~Live(r)
LastShown == pages[Len(pages)].param

\* abort(): a call that is raced with its timeout is given up at once.
Aborted == [r \in Run |-> aborted[r] \/ r = controller]
GivenUp == [r \in Run |-> IF r = controller /\ phase[r] = "waiting" /\ Timed
                          THEN "failed" ELSE phase[r]]

\* The call of fetchPage(): its controller becomes the current one.
Start(k, p, before) ==
    /\ made < MaxRuns /\ (overlap \/ Quiet)
    /\ made' = made + 1
    /\ kind' = [kind EXCEPT ![made'] = k] /\ param' = [param EXCEPT ![made'] = p]
    /\ base' = [base EXCEPT ![made'] = pages]
    /\ phase' = [before EXCEPT ![made'] = "waiting"]
    /\ controller' = made'
    /\ fetching' = TRUE
    /\ UNCHANGED <<overlap, shown, attempt, refetched>>

\* Without any page it is a refetch.
FetchNextPage ==
    /\ ~fetching /\ pages # <<>> /\ LastShown < LastParam /\ Len(pages) < MaxPages
    /\ Start("next", LastShown + 1, phase)
    /\ UNCHANGED aborted

NoNextPage ==
    /\ ~fetching /\ pages # <<>> /\ LastShown = LastParam
    /\ hasNext' = FALSE
    /\ UNCHANGED <<overlap, pages, status, fetching, made, calls, phase, attempt, aborted, controller, refetched>>

FetchPreviousPage ==
    /\ ~fetching /\ pages # <<>> /\ FirstParam < pages[1].param
    /\ Start("previous", pages[1].param - 1, phase)
    /\ UNCHANGED aborted

\* refetch(): by the application, at mount, or when the window has the focus again.
Refetch ==
    /\ Start("refetch", 0, GivenUp)
    /\ aborted' = Aborted

Cancel ==
    /\ controller # 0
    /\ aborted' = Aborted /\ phase' = GivenUp /\ controller' = 0
    /\ UNCHANGED <<overlap, shown, fetching, made, calls, attempt, refetched>>

\* The query function answers; answers are published in their order.
Answer(r) ==
    /\ phase[r] = "waiting" /\ \A q \in Run : phase[q] # "answered"
    /\ phase' = [phase EXCEPT ![r] = "answered"]
    /\ UNCHANGED <<overlap, shown, fetching, made, calls, attempt, aborted, controller, refetched>>

\* It throws, or takes too long: the run pauses before another attempt, or fails.
Throw(r) ==
    /\ phase[r] = "waiting"
    /\ phase' = [phase EXCEPT ![r] =
                   IF aborted[r] \/ attempt[r] = Retries THEN "failed" ELSE "sleeping"]
    /\ UNCHANGED <<overlap, shown, fetching, made, calls, attempt, aborted, controller, refetched>>

\* The pause is over, and is not cut short by an abort.
Wake(r) ==
    /\ phase[r] = "sleeping"
    /\ IF aborted[r]
       THEN phase' = [phase EXCEPT ![r] = "failed"] /\ UNCHANGED attempt
       ELSE /\ phase' = [phase EXCEPT ![r] = "waiting"]
            /\ attempt' = [attempt EXCEPT ![r] = @ + 1]
    /\ UNCHANGED <<overlap, shown, fetching, made, calls, aborted, controller, refetched>>

\* Mutation: the page is put beside those shown now.
GrownNow(r) ==
    LET page == <<[param |-> param[r], run |-> r]>>
    IN  CASE kind[r] = "next" -> pages \o page
          [] kind[r] = "previous" -> page \o pages
          [] OTHER -> page

\* Mutation: a refetch keeps the pages after the first.
GrownKeeping(r) ==
    LET page == <<[param |-> param[r], run |-> r]>>
    IN  CASE kind[r] = "next" -> base[r] \o page
          [] kind[r] = "previous" -> page \o base[r]
          [] OTHER -> page \o SubSeq(base[r], 2, Len(base[r]))

\* The pages found when the run was called, with the new one.
Grown(r) ==
    LET page == <<[param |-> param[r], run |-> r]>>
    IN  CASE kind[r] = "next" -> base[r] \o page
          [] kind[r] = "previous" -> page \o base[r]
          [] OTHER -> page

\* The rest of a run that has its page; whether it was aborted is not asked again.
Publish(r) ==
    /\ phase[r] = "answered"
    /\ phase' = [phase EXCEPT ![r] = "ended"]
    /\ pages' = Grown(r) /\ status' = "success" /\ fetching' = FALSE
    /\ hasNext' = IF kind[r] = "previous" THEN hasNext ELSE param[r] < LastParam
    /\ refetched' = IF kind[r] = "refetch" THEN r ELSE refetched
    /\ UNCHANGED <<overlap, made, calls, attempt, aborted, controller>>

\* The rest of a run that has none.
Fail(r) ==
    /\ phase[r] = "failed"
    /\ phase' = [phase EXCEPT ![r] = "ended"]
    /\ status' = "error" /\ fetching' = FALSE
    /\ UNCHANGED <<overlap, pages, hasNext, made, calls, attempt, aborted, controller, refetched>>

Proceeds(r) == Answer(r) \/ Throw(r) \/ Wake(r) \/ Publish(r) \/ Fail(r)
Uses == FetchNextPage \/ NoNextPage \/ FetchPreviousPage \/ Refetch \/ Cancel
Next == Uses \/ \E r \in Run : Proceeds(r)

\* Timers fire, promises are continued, and every call of the query function ends.
Fairness == \A r \in Run : WF_vars(Proceeds(r))
Spec == Init /\ [][Next]_vars /\ Fairness

----------------------------------------------------------------------------
\* Every variable keeps its type.
TypeOK ==
    /\ overlap \in BOOLEAN
    /\ pages \in Seq(Page) /\ hasNext \in BOOLEAN /\ fetching \in BOOLEAN
    /\ status \in {"pending", "success", "error"}
    /\ made \in 0..MaxRuns /\ controller \in 0..made /\ refetched \in 0..made
    /\ kind \in [Run -> {"refetch", "next", "previous"}]
    /\ base \in [Run -> Seq(Page)] /\ param \in [Run -> Param]
    /\ phase \in [Run -> {"unmade", "waiting", "sleeping", "answered", "failed", "ended"}]
    /\ attempt \in [Run -> 0..Retries] /\ aborted \in [Run -> BOOLEAN]
    /\ status = "success" => pages # <<>>

\* The pages shown follow one another, whichever runs ended in whatever order; and if no
\* run is started under another, none of them is older than the last refetch.
PagesBelongTogether ==
    /\ \A i \in 1..Len(pages) - 1 : pages[i + 1].param = pages[i].param + 1
    /\ ~overlap => \A i \in 1..Len(pages) : pages[i].run >= refetched

=============================================================================
