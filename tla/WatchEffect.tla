---------------------------- MODULE WatchEffect ----------------------------
(***************************************************************************)
(* When an effect runs and what becomes of its cleanups: watchEffect        *)
(* (packages/core/src/effects/effect.ts) with its three ways of answering a *)
(* trigger - at once, in a microtask, after a debounce window - and bodies  *)
(* that return, throw, stop their own effect, or go on asynchronously and   *)
(* register a cleanup late.                                                *)
(*                                                                         *)
(* The effect reads one source; version counts the source's changes and     *)
(* seen is the one the last completed run read.                            *)
(***************************************************************************)
EXTENDS Integers

CONSTANTS
    Options,      \* the options an effect may be created with
    MaxWrites,    \* bound on the source's changes
    MaxPauses     \* bound on pauses

ASSUME OptionsAssumption ==
    Options \subseteq [mode : {"sync", "post", "debounce"}, leading : BOOLEAN,
                       trailing : BOOLEAN, immediate : BOOLEAN]
ASSUME BoundAssumption == MaxWrites \in Nat /\ MaxPauses \in Nat

VARIABLES
    options,      \* the effect's options
    isActive, isPaused, isScheduled,
    timer,        \* a debounce timeout is set
    sawTrigger,   \* sawTriggerDuringWait
    microtasks,   \* executions queued as microtasks
    subscribed,   \* the effect hears its source
    generation,   \* executionGeneration
    cleanupFns,   \* cleanups to be run
    registered,   \* observer: every cleanup the body ever registered
    cleaned,      \* observer: those that were run
    twice,        \* observer: those that were run more than once
    waiting,      \* runs whose asynchronous part is still under way
    version, seen, pauses

effect == <<options, isActive, isPaused, isScheduled, timer, sawTrigger, microtasks, subscribed>>
cleanups == <<generation, cleanupFns, registered, cleaned, twice, waiting>>
vars == <<effect, cleanups, version, seen, pauses>>

Cleanup == Nat \X {"early", "late"}

Init ==
    /\ options \in Options
    /\ isActive = TRUE /\ isPaused = FALSE /\ isScheduled = FALSE
    /\ timer = FALSE /\ sawTrigger = FALSE /\ microtasks = 0
    /\ subscribed = FALSE
    /\ generation = 0
    /\ cleanupFns = {} /\ registered = {} /\ cleaned = {} /\ twice = {} /\ waiting = {}
    /\ version = 0 /\ seen = -1 /\ pauses = 0

Cleaning(fns) ==
    /\ cleaned' = cleaned \cup fns
    /\ twice' = twice \cup (fns \cap cleaned)

\* The body registers a cleanup or none before it ends, throws, stops its own
\* effect or waits.
Endings == {"returns", "waits", "throws", "stops"}
Early(g) == {{}, {<<g, "early">>}}

\* execute(), past its guard: the earlier run's cleanups, then the body, then the
\* subscription unless the body threw or stopped its effect.
Execute(ending, fns) ==
    /\ generation' = generation + 1
    /\ registered' = registered \cup fns
    /\ IF ending \in {"throws", "stops"}
       THEN Cleaning(cleanupFns \cup fns) /\ cleanupFns' = {}
       ELSE Cleaning(cleanupFns) /\ cleanupFns' = fns
    /\ waiting' = IF ending = "waits" THEN waiting \cup {generation'} ELSE waiting
    /\ isActive' = (ending # "stops")
    /\ subscribed' = (ending \notin {"throws", "stops"})
    /\ seen' = IF ending = "throws" THEN seen ELSE version'

Runnable == isActive /\ ~isPaused
Executes == \E ending \in Endings, fns \in Early(generation + 1) : Execute(ending, fns)

\* The first run, unless immediate is false.
Start ==
    /\ generation = 0 /\ options.immediate
    /\ Runnable
    /\ UNCHANGED version
    /\ Executes
    /\ UNCHANGED <<options, isPaused, isScheduled, timer, sawTrigger, microtasks, pauses>>

----------------------------------------------------------------------------
\* The source changes; scheduleRun() is called when the effect is subscribed, and
\* returns at once when it is stopped or paused.
Change == version < MaxWrites /\ version' = version + 1
Heard(mode) == Change /\ subscribed /\ Runnable /\ options.mode = mode

Unheard ==
    /\ Change
    /\ ~(subscribed /\ Runnable)
    /\ UNCHANGED <<effect, cleanups, seen, pauses>>

TriggerSync ==
    /\ Heard("sync")
    /\ Executes
    /\ UNCHANGED <<options, isPaused, isScheduled, timer, sawTrigger, microtasks, pauses>>

TriggerPost ==
    /\ Heard("post")
    /\ isScheduled' = TRUE
    /\ microtasks' = IF isScheduled THEN microtasks ELSE microtasks + 1
    /\ UNCHANGED <<options, isActive, isPaused, timer, sawTrigger, subscribed>>
    /\ UNCHANGED <<cleanups, seen, pauses>>

\* scheduleDebounced() outside a window: the leading run, if any, and the window,
\* which a leading run that throws leaves unopened.
TriggerOpening ==
    /\ Heard("debounce") /\ ~timer
    /\ \/ /\ ~options.leading
          /\ timer' = TRUE /\ isScheduled' = TRUE
          /\ UNCHANGED <<isActive, subscribed, cleanups, seen>>
       \/ /\ options.leading
          /\ \E ending \in Endings, fns \in Early(generation + 1) :
               /\ Execute(ending, fns)
               /\ timer' = (ending # "throws")
               /\ isScheduled' = (ending # "throws")
    /\ UNCHANGED <<options, isPaused, sawTrigger, microtasks, pauses>>

\* Mutation: the window is restarted and the trigger forgotten.
TriggerForgotten ==
    /\ Heard("debounce") /\ timer
    /\ UNCHANGED <<effect, cleanups, seen, pauses>>

\* scheduleDebounced() within a window, which starts anew.
TriggerWithin ==
    /\ Heard("debounce") /\ timer
    /\ sawTrigger' = TRUE /\ isScheduled' = TRUE
    /\ UNCHANGED <<options, isActive, isPaused, timer, microtasks, subscribed>>
    /\ UNCHANGED <<cleanups, seen, pauses>>

----------------------------------------------------------------------------
\* Mutation: a microtask nobody queued.
MicrotaskUnqueued ==
    /\ options.mode = "post"
    /\ microtasks' = microtasks - 1
    /\ UNCHANGED <<options, isActive, isPaused, isScheduled, timer, sawTrigger, subscribed>>
    /\ UNCHANGED <<cleanups, version, seen, pauses>>

\* The queued execute(): it returns at once when stopped or paused.
Microtask ==
    /\ microtasks > 0
    /\ microtasks' = microtasks - 1
    /\ UNCHANGED version
    /\ IF Runnable
       THEN Executes /\ isScheduled' = FALSE
       ELSE UNCHANGED <<isScheduled, isActive, subscribed, cleanups, seen>>
    /\ UNCHANGED <<options, isPaused, timer, sawTrigger, pauses>>

\* The window closes.  A lone trigger that ran on its leading edge is done with.
Timeout ==
    /\ timer
    /\ timer' = FALSE /\ isScheduled' = FALSE /\ sawTrigger' = FALSE
    /\ UNCHANGED version
    /\ IF options.trailing /\ (options.leading => sawTrigger) /\ Runnable
       THEN Executes
       ELSE UNCHANGED <<isActive, subscribed, cleanups, seen>>
    /\ UNCHANGED <<options, isPaused, microtasks, pauses>>

\* Mutation: a cleanup registered late joins the list of whatever run is current.
RegisterBlindly(g) ==
    /\ g \in waiting
    /\ waiting' = waiting \ {g}
    /\ registered' = registered \cup {<<g, "late">>}
    /\ cleanupFns' = cleanupFns \cup {<<g, "late">>}
    /\ UNCHANGED <<effect, generation, cleaned, twice, version, seen, pauses>>

\* The asynchronous part of a run registers its cleanup, which is run at once when
\* the run is no longer the current one of a live effect.
RegisterLate(g) ==
    /\ g \in waiting
    /\ waiting' = waiting \ {g}
    /\ registered' = registered \cup {<<g, "late">>}
    /\ IF isActive /\ g = generation
       THEN cleanupFns' = cleanupFns \cup {<<g, "late">>} /\ UNCHANGED <<cleaned, twice>>
       ELSE Cleaning({<<g, "late">>}) /\ UNCHANGED cleanupFns
    /\ UNCHANGED <<effect, generation, version, seen, pauses>>

Stop ==
    /\ isActive
    /\ isActive' = FALSE /\ subscribed' = FALSE /\ timer' = FALSE /\ sawTrigger' = FALSE
    /\ Cleaning(cleanupFns) /\ cleanupFns' = {}
    /\ UNCHANGED <<options, isPaused, isScheduled, microtasks>>
    /\ UNCHANGED <<generation, registered, waiting, version, seen, pauses>>

Pause ==
    /\ isActive /\ ~isPaused /\ pauses < MaxPauses
    /\ pauses' = pauses + 1
    /\ isPaused' = TRUE
    /\ UNCHANGED <<options, isActive, isScheduled, timer, sawTrigger, microtasks, subscribed>>
    /\ UNCHANGED <<cleanups, version, seen>>

\* resume(): runs the effect now; the timer of a debounce window stays set.
Resume ==
    /\ isPaused /\ isPaused' = FALSE
    /\ UNCHANGED version
    /\ IF isActive
       THEN /\ isScheduled' = FALSE
            /\ \E ending \in Endings, fns \in Early(generation + 1) :
                 /\ Execute(ending, fns)
                 /\ timer' = (timer /\ ending # "stops")
                 /\ sawTrigger' = (sawTrigger /\ ending # "stops")
       ELSE UNCHANGED <<isScheduled, isActive, subscribed, timer, sawTrigger, cleanups, seen>>
    /\ UNCHANGED <<options, microtasks, pauses>>

Trigger == Unheard \/ TriggerSync \/ TriggerPost \/ TriggerOpening \/ TriggerWithin

Next ==
    \/ Start \/ Trigger
    \/ Microtask \/ Timeout
    \/ Stop \/ Pause \/ Resume
    \/ \E g \in waiting : RegisterLate(g)

\* Microtasks and timers are run by the event loop.
Fairness == WF_vars(Microtask) /\ WF_vars(Timeout)

Spec == Init /\ [][Next]_vars /\ Fairness

----------------------------------------------------------------------------
\* Every variable keeps its type.
TypeOK ==
    /\ options \in Options
    /\ isActive \in BOOLEAN /\ isPaused \in BOOLEAN /\ isScheduled \in BOOLEAN
    /\ timer \in BOOLEAN /\ sawTrigger \in BOOLEAN /\ subscribed \in BOOLEAN
    /\ microtasks \in Nat /\ generation \in Nat /\ version \in 0..MaxWrites
    /\ seen \in Int /\ pauses \in 0..MaxPauses
    /\ registered \subseteq Cleanup /\ waiting \subseteq Nat
    /\ cleanupFns \subseteq registered /\ cleaned \subseteq registered
    /\ twice \subseteq cleaned

\* However runs, late registrations and stops interleave, no cleanup is run twice,
\* and one that has not been run belongs to the current run of a live effect.
CleanedOnce == twice = {}
NothingStranded ==
    \A c \in registered \ cleaned : isActive /\ c \in cleanupFns /\ c[1] = generation

\* A stopped effect hears nothing and holds nothing.
StoppedIsDetached == ~isActive => ~subscribed /\ cleanupFns = {}

\* Whatever marks the effect as scheduled is still to come: a flag left set would
\* make scheduleRun() deaf for good.
NeverDeaf ==
    isScheduled /\ Runnable /\ options.mode = "post" => microtasks > 0

\* Once the source has stopped changing, a live subscribed effect whose trailing
\* runs are not switched off comes to see the last change, unless it is paused.
LastChangeSeen ==
    (version = MaxWrites /\ subscribed /\ (options.mode = "debounce" => options.trailing))
        => seen = version \/ isPaused
CatchesUp == []<>LastChangeSeen

=============================================================================
