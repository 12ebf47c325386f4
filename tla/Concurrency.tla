----------------------------- MODULE Concurrency -----------------------------
(***************************************************************************)
(* useConcurrency: packages/store/src/actions/useConcurrency.ts.  What it   *)
(* wraps is called with some delay or not, and calls that overlap are         *)
(* switched, dropped, merged or queued.  A task is numbered by its call.     *)
(***************************************************************************)
EXTENDS Integers, Sequences

CONSTANTS MaxTasks

ConcurrencyAssumption == MaxTasks \in Nat

Work == 1..MaxTasks

NoTask == 0

VARIABLES
    strategy, debounces, throttles,
    task,             \* "uncalled", "ignored", "waiting", "queued", "running", "settled",
                      \* "handled" and "over"
    aborted,          \* the tasks whose signal says so
    runningTask,
    debounceTimeout,  \* the task a timer will execute
    throttled,        \* throttleMs have not passed since the last call that counted
    queue, processingQueue, shut

workVars == <<strategy, debounces, throttles, task, aborted, runningTask, debounceTimeout,
              throttled, queue, processingQueue, shut>>

options == <<strategy, debounces, throttles>>

WorkInit ==
    /\ strategy \in {"switch", "exhaust", "merge", "concat"}
    /\ debounces \in BOOLEAN /\ throttles \in BOOLEAN
    /\ task = [t \in Work |-> "uncalled"] /\ aborted = {} /\ runningTask = NoTask
    /\ debounceTimeout = NoTask /\ throttled = FALSE
    /\ queue = << >> /\ processingQueue = FALSE /\ shut = FALSE

\* Mutation: the task that runs is let be.
executeKeeping(t, tasks) ==
    /\ task' = [tasks EXCEPT ![t] = "running"] /\ runningTask' = t
    /\ UNCHANGED <<aborted, queue, processingQueue>>

\* execute() of task t, the others being at tasks.
execute(t, tasks) ==
    \/ /\ strategy = "switch"
       /\ aborted' = aborted \cup ({runningTask} \ {NoTask})
       /\ task' = [tasks EXCEPT ![t] = "running"] /\ runningTask' = t
       /\ UNCHANGED <<queue, processingQueue>>
    \/ /\ strategy = "exhaust"
       /\ IF runningTask # NoTask
          THEN task' = [tasks EXCEPT ![t] = "ignored"] /\ UNCHANGED runningTask
          ELSE task' = [tasks EXCEPT ![t] = "running"] /\ runningTask' = t
       /\ UNCHANGED <<aborted, queue, processingQueue>>
    \/ /\ strategy = "merge"
       /\ task' = [tasks EXCEPT ![t] = "running"]
       /\ UNCHANGED <<aborted, runningTask, queue, processingQueue>>
    \/ /\ strategy = "concat"
       /\ IF processingQueue
          THEN /\ queue' = Append(queue, t) /\ task' = [tasks EXCEPT ![t] = "queued"]
               /\ UNCHANGED <<runningTask, processingQueue>>
          ELSE /\ processingQueue' = TRUE /\ runningTask' = t
               /\ task' = [tasks EXCEPT ![t] = "running"] /\ UNCHANGED queue
       /\ UNCHANGED aborted

\* A call: nothing once disposed or while throttled; a debounced one replaces the one
\* the timer is for.
CallWrapped(t) ==
    /\ task[t] = "uncalled" /\ \A u \in Work : u < t => task[u] # "uncalled"
    /\ IF shut \/ throttled
       THEN /\ task' = [task EXCEPT ![t] = "ignored"]
            /\ UNCHANGED <<aborted, runningTask, debounceTimeout, throttled, queue, processingQueue>>
       ELSE /\ throttled' = throttles
            /\ IF debounces
               THEN /\ debounceTimeout' = t
                    /\ task' = [u \in Work |-> IF u = t THEN "waiting"
                                               ELSE IF u = debounceTimeout THEN "ignored" ELSE task[u]]
                    /\ UNCHANGED <<aborted, runningTask, queue, processingQueue>>
               ELSE execute(t, task) /\ UNCHANGED debounceTimeout
    /\ UNCHANGED <<options, shut>>

TimerFires ==
    /\ debounceTimeout # NoTask
    /\ debounceTimeout' = NoTask
    /\ execute(debounceTimeout, task)
    /\ UNCHANGED <<options, throttled, shut>>

ThrottleOver ==
    /\ throttled /\ throttled' = FALSE
    /\ UNCHANGED <<options, task, aborted, runningTask, debounceTimeout, queue, processingQueue, shut>>

\* The action has returned or thrown; thrown errors are reported, not passed on.
ActionSettles(t) ==
    /\ task[t] = "running"
    /\ task' = [task EXCEPT ![t] = "settled"]
    /\ UNCHANGED <<options, aborted, runningTask, debounceTimeout, throttled, queue, processingQueue, shut>>

\* finally(): its controller goes.
Finally(t) ==
    /\ task[t] = "settled"
    /\ task' = [task EXCEPT ![t] = "handled"]
    /\ UNCHANGED <<options, aborted, runningTask, debounceTimeout, throttled, queue, processingQueue, shut>>

\* Mutation: a task that was replaced clears its successor.
TaskOverClearing(t) ==
    /\ task[t] = "handled"
    /\ task' = [task EXCEPT ![t] = "over"] /\ runningTask' = NoTask
    /\ UNCHANGED <<options, aborted, debounceTimeout, throttled, queue, processingQueue, shut>>

\* Mutation: the queue is not worked off.
TaskOverLeaving(t) ==
    /\ task[t] = "handled"
    /\ task' = [task EXCEPT ![t] = "over"]
    /\ runningTask' = IF runningTask = t THEN NoTask ELSE runningTask
    /\ UNCHANGED <<options, aborted, debounceTimeout, throttled, queue, processingQueue, shut>>

\* What awaited the task goes on: the running task is cleared when it still is this one,
\* and the queue is worked off.
TaskOver(t) ==
    /\ task[t] = "handled"
    /\ IF processingQueue /\ queue # << >> /\ ~shut
       THEN /\ runningTask' = Head(queue) /\ queue' = Tail(queue)
            /\ task' = [task EXCEPT ![t] = "over", ![Head(queue)] = "running"]
            /\ UNCHANGED processingQueue
       ELSE /\ runningTask' = IF runningTask = t THEN NoTask ELSE runningTask
            /\ task' = [task EXCEPT ![t] = "over"] /\ processingQueue' = FALSE
            /\ UNCHANGED queue
    /\ UNCHANGED <<options, aborted, debounceTimeout, throttled, shut>>

\* Mutation: the timer is left on.
disposeKeepingTimer ==
    /\ ~shut /\ shut' = TRUE
    /\ task' = [t \in Work |-> IF task[t] = "queued" THEN "ignored" ELSE task[t]]
    /\ aborted' = aborted \cup {t \in Work : task[t] \in {"running", "settled"}}
    /\ runningTask' = NoTask /\ queue' = << >>
    /\ UNCHANGED <<options, throttled, debounceTimeout, processingQueue>>

\* dispose()
disposeWork ==
    /\ ~shut /\ shut' = TRUE
    /\ task' = [t \in Work |-> IF task[t] \in {"waiting", "queued"} THEN "ignored" ELSE task[t]]
    /\ aborted' = aborted \cup {t \in Work : task[t] \in {"running", "settled"}}
    /\ runningTask' = NoTask /\ debounceTimeout' = NoTask /\ queue' = << >>
    /\ UNCHANGED <<options, throttled, processingQueue>>

WorkNext ==
    \/ TimerFires \/ ThrottleOver \/ disposeWork
    \/ \E t \in Work : CallWrapped(t) \/ ActionSettles(t) \/ Finally(t) \/ TaskOver(t)

\* Timers fire and actions settle.
WorkSpec ==
    /\ WorkInit /\ [][WorkNext]_workVars
    /\ WF_workVars(TimerFires)
    /\ \A t \in Work : WF_workVars(ActionSettles(t) \/ Finally(t) \/ TaskOver(t))

----------------------------------------------------------------------------
\* Every variable keeps its type.
WorkTyped ==
    /\ task \in [Work -> {"uncalled", "ignored", "waiting", "queued", "running", "settled",
                          "handled", "over"}]
    /\ aborted \subseteq Work /\ {runningTask, debounceTimeout} \subseteq Work \cup {NoTask}
    /\ queue \in Seq(Work) /\ {throttled, processingQueue, shut} \subseteq BOOLEAN

\* Except where calls are merged, at most one task runs that has not been told to stop.
OneRuns ==
    strategy # "merge" =>
        \A t, u \in Work : {task[t], task[u]} = {"running"} /\ {t, u} \cap aborted = {} => t = u

\* "dispose() ... clears debounce and concat queues, aborts active cancellable work, and
\* ignores future calls": from then on nothing waits, nothing starts, and whatever runs
\* has been told.
DisposedIsQuiet ==
    shut => \A t \in Work : /\ task[t] \notin {"waiting", "queued"}
                            /\ task[t] = "running" => t \in aborted

\* A call that was not turned away when it was made runs, or dispose() or a later
\* debounced call takes its place.
NothingWaits == \A t \in Work : task[t] \notin {"waiting", "queued"}
CallsAreServed == []<>NothingWaits
=============================================================================
