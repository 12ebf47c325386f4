----------------------------- MODULE ScreenProofs -----------------------------
(***************************************************************************)
(* What is proved of a page: of its effects and of the layers under it, and   *)
(* of what MCScreen runs beside each other.                                 *)
(***************************************************************************)
EXTENDS MCScreen, StoreProofs, FiniteSetTheorems, SequenceTheorems, TLAPS

----------------------------------------------------------------------------
\* Proofs, for every set of options and every number of changes and pauses: the fate of
\* cleanups, the detachment of a stopped effect, and the scheduling flag that never goes
\* deaf.

\* What a run, a late registration and a stop do to cleanups and subscription.
\* Cleanups are told apart by their run, so a run's own are new to it, and a late
\* one is registered once.
CleanupInv ==
    /\ twice = {}
    /\ registered = cleanupFns \cup cleaned
    /\ cleanupFns \cap cleaned = {}
    /\ registered \subseteq Cleanup /\ waiting \subseteq Nat
    /\ generation \in Nat
    /\ \A c \in registered : c[1] <= generation
    /\ \A c \in cleanupFns : isActive /\ c[1] = generation
    /\ \A g \in waiting : g <= generation /\ <<g, "late">> \notin registered

\* The rest of the types, the subscription and the scheduling flag.
SchedulingInv ==
    /\ options \in Options
    /\ isActive \in BOOLEAN /\ isPaused \in BOOLEAN /\ isScheduled \in BOOLEAN
    /\ timer \in BOOLEAN /\ sawTrigger \in BOOLEAN /\ subscribed \in BOOLEAN
    /\ microtasks \in Nat /\ version \in 0..MaxWrites
    /\ seen \in Int /\ pauses \in 0..MaxPauses
    /\ ~isActive => ~subscribed
    /\ isScheduled /\ Runnable /\ options.mode = "post" => microtasks > 0

EffectInv == CleanupInv /\ SchedulingInv

\* Before the first run nothing is registered, cleaned or scheduled.
LEMMA EffectInit == Init => EffectInv
  <1> SUFFICES ASSUME Init PROVE EffectInv
    OBVIOUS
  <1>1. CleanupInv
    BY DEF Init, CleanupInv
  <1>2. 0 \in 0..MaxWrites /\ 0 \in 0..MaxPauses
    BY BoundAssumption
  <1>3. SchedulingInv
    <2>1. options \in Options /\ -1 \in Int
      BY DEF Init
    <2>2. QED
      BY <1>2, <2>1 DEF Init, SchedulingInv
  <1>4. QED
    BY <1>1, <1>3 DEF EffectInv

----------------------------------------------------------------------------
\* Cleanups.

\* A run cleans what the last one registered and registers its own.
LEMMA RunCleans ==
    ASSUME CleanupInv, NEW ending \in Endings, NEW fns \in Early(generation + 1),
           isActive, Execute(ending, fns)
    PROVE  CleanupInv'
  <1> DEFINE g == generation + 1
  <1>1. /\ g \in Nat /\ generation' = g
        /\ \A c \in registered : c[1] < g
        /\ \A h \in waiting : h < g
    <2>1. \A c \in registered : c[1] \in Nat /\ c[1] <= generation
      BY DEF CleanupInv, Cleanup
    <2>2. \A h \in waiting : h \in Nat /\ h <= generation
      BY DEF CleanupInv
    <2>3. generation \in Nat /\ generation' = g
      BY DEF CleanupInv, Execute
    <2>4. QED
      BY <2>1, <2>2, <2>3
  <1>2. /\ fns \subseteq {<<g, "early">>}
        /\ fns \subseteq Cleanup
        /\ fns \cap registered = {}
        /\ \A c \in fns : c[1] = g
    BY <1>1 DEF Early, Cleanup
  <1>3. /\ registered' = registered \cup fns
        /\ waiting' \subseteq waiting \cup {g}
    BY <1>1 DEF Execute
  <1>4. \A h \in waiting' : h <= g /\ h \in Nat /\ <<h, "late">> \notin registered'
    <2> SUFFICES ASSUME NEW h \in waiting'
                 PROVE  h <= g /\ h \in Nat /\ <<h, "late">> \notin registered'
      OBVIOUS
    <2>1. <<h, "late">> \notin fns
      BY <1>2
    <2>2. CASE h \in waiting
      <3>1. h \in Nat /\ h < g /\ <<h, "late">> \notin registered
        BY <1>1, <2>2 DEF CleanupInv
      <3>2. QED
        BY <1>1, <1>3, <2>1, <3>1
    <2>3. CASE h = g
      <3>1. <<h, "late">> \notin registered
        <4>1. SUFFICES ASSUME <<h, "late">> \in registered PROVE FALSE
          OBVIOUS
        <4>2. <<h, "late">>[1] < g
          BY <1>1, <4>1
        <4>3. QED
          BY <1>1, <2>3, <4>2
      <3>2. QED
        BY <1>1, <1>3, <2>1, <2>3, <3>1
    <2>4. QED
      BY <1>3, <2>2, <2>3
  <1> HIDE DEF g
  <1>0. \A c \in registered' : c[1] <= g
    BY <1>1, <1>2, <1>3 DEF CleanupInv, Cleanup
  <1>5. CASE ending \in {"throws", "stops"}
    <2>1. /\ cleanupFns' = {}
          /\ cleaned' = cleaned \cup cleanupFns \cup fns
          /\ twice' = twice \cup ((cleanupFns \cup fns) \cap cleaned)
      BY <1>5 DEF Execute, Cleaning
    <2>2. QED
      BY <1>0, <1>1, <1>2, <1>3, <1>4, <2>1 DEF CleanupInv
  <1>6. CASE ending \notin {"throws", "stops"}
    <2>1. /\ cleanupFns' = fns
          /\ cleaned' = cleaned \cup cleanupFns
          /\ twice' = twice \cup (cleanupFns \cap cleaned)
          /\ isActive'
      BY <1>6 DEF Execute, Cleaning
    <2>2. QED
      BY <1>0, <1>1, <1>2, <1>3, <1>4, <2>1 DEF CleanupInv
  <1>7. QED
    BY <1>5, <1>6

\* A registration that comes late is kept by its own run or cleaned at once.
LEMMA LateCleans ==
    ASSUME CleanupInv, NEW g \in waiting, RegisterLate(g)
    PROVE  CleanupInv'
  <1> DEFINE c == <<g, "late">>
  <1>1. c \notin registered /\ c \in Cleanup /\ c[1] = g /\ g \in Nat /\ g <= generation
    BY DEF CleanupInv, Cleanup
  <1>2. /\ waiting' = waiting \ {g}
        /\ registered' = registered \cup {c}
        /\ generation' = generation /\ isActive' = isActive
    BY DEF RegisterLate, effect
  <1>3. \A h \in waiting' : h <= generation /\ <<h, "late">> \notin registered'
    BY <1>2 DEF CleanupInv
  <1>4. CASE isActive /\ g = generation
    <2>1. /\ cleanupFns' = cleanupFns \cup {c}
          /\ UNCHANGED <<cleaned, twice>>
      BY <1>4 DEF RegisterLate
    <2>2. QED
      BY <1>1, <1>2, <1>3, <1>4, <2>1 DEF CleanupInv
  <1>5. CASE ~(isActive /\ g = generation)
    <2>1. /\ cleaned' = cleaned \cup {c}
          /\ twice' = twice \cup ({c} \cap cleaned)
          /\ cleanupFns' = cleanupFns
      BY <1>5 DEF RegisterLate, Cleaning
    <2>2. QED
      BY <1>1, <1>2, <1>3, <2>1 DEF CleanupInv
  <1>6. QED
    BY <1>4, <1>5

\* Stopping cleans all that is registered and registers nothing.
LEMMA StopCleans ==
    ASSUME CleanupInv, Stop
    PROVE  CleanupInv'
  BY DEF CleanupInv, Stop, Cleaning

\* Steps that touch neither cleanups nor liveness keep the invariant.
LEMMA QuietKeeps ==
    ASSUME CleanupInv, UNCHANGED <<cleanups, isActive>>
    PROVE  CleanupInv'
  BY DEF CleanupInv, cleanups

\* Every step is one of these for the cleanups.
LEMMA CleanupStep ==
    ASSUME EffectInv, [Next]_vars
    PROVE  CleanupInv'
  <1> USE DEF EffectInv
  <1>1. CASE Start
    BY <1>1, RunCleans DEF Start, Executes, Runnable
  <1>2. CASE Unheard
    BY <1>2, QuietKeeps DEF Unheard, effect
  <1>3. CASE TriggerSync
    BY <1>3, RunCleans DEF TriggerSync, Heard, Executes, Runnable
  <1>4. CASE TriggerPost
    BY <1>4, QuietKeeps DEF TriggerPost
  <1>5. CASE TriggerOpening
    <2>1. CASE UNCHANGED <<isActive, cleanups>>
      BY <2>1, QuietKeeps
    <2>2. CASE \E ending \in Endings, fns \in Early(generation + 1) : Execute(ending, fns)
      BY <1>5, <2>2, RunCleans DEF TriggerOpening, Heard, Runnable
    <2>3. QED
      BY <1>5, <2>1, <2>2 DEF TriggerOpening
  <1>6. CASE TriggerWithin
    BY <1>6, QuietKeeps DEF TriggerWithin
  <1>7. CASE Microtask
    <2>1. CASE Runnable
      BY <1>7, <2>1, RunCleans DEF Microtask, Executes, Runnable
    <2>2. CASE ~Runnable
      BY <1>7, <2>2, QuietKeeps DEF Microtask
    <2>3. QED
      BY <2>1, <2>2
  <1>8. CASE Timeout
    <2>1. CASE UNCHANGED <<isActive, cleanups>>
      BY <2>1, QuietKeeps
    <2>2. CASE Runnable /\ Executes
      BY <2>2, RunCleans DEF Executes, Runnable
    <2>3. QED
      BY <1>8, <2>1, <2>2 DEF Timeout
  <1>9. CASE Stop
    BY <1>9, StopCleans
  <1>10. CASE Pause
    BY <1>10, QuietKeeps DEF Pause
  <1>11. CASE Resume
    <2>1. CASE isActive
      BY <1>11, <2>1, RunCleans DEF Resume
    <2>2. CASE ~isActive
      BY <1>11, <2>2, QuietKeeps DEF Resume
    <2>3. QED
      BY <2>1, <2>2
  <1>12. ASSUME NEW g \in waiting, RegisterLate(g) PROVE CleanupInv'
    BY <1>12, LateCleans
  <1>13. CASE UNCHANGED vars
    BY <1>13, QuietKeeps DEF vars, effect
  <1>14. QED
    BY <1>1, <1>2, <1>3, <1>4, <1>5, <1>6, <1>7, <1>8, <1>9, <1>10, <1>11, <1>12, <1>13
    DEF Next, Trigger

----------------------------------------------------------------------------
\* Scheduling.

\* A run leaves the scheduling flags Boolean and what it has seen a version.
LEMMA RunTypes ==
    ASSUME SchedulingInv, NEW ending \in Endings, NEW fns,
           Execute(ending, fns), version' \in 0..MaxWrites
    PROVE  /\ isActive' \in BOOLEAN /\ subscribed' \in BOOLEAN /\ seen' \in Int
           /\ ~isActive' => ~subscribed'
  BY DEF SchedulingInv, Execute, Endings

\* A change of the source stays within the bound on writes.
LEMMA ChangeTypes ==
    ASSUME SchedulingInv, Change
    PROVE  version' \in 0..MaxWrites
  BY BoundAssumption DEF SchedulingInv, Change

\* Every step keeps the flags in agreement with the microtasks that clear them.
LEMMA SchedulingStep ==
    ASSUME EffectInv, [Next]_vars
    PROVE  SchedulingInv'
  <1> USE DEF EffectInv
  <1>1. CASE Start
    <2>1. \E ending \in Endings, fns \in Early(generation + 1) : Execute(ending, fns)
      BY <1>1 DEF Start, Executes
    <2>2. version' \in 0..MaxWrites
      BY <1>1 DEF Start, SchedulingInv
    <2>3. /\ isActive' \in BOOLEAN /\ subscribed' \in BOOLEAN /\ seen' \in Int
          /\ ~isActive' => ~subscribed'
      BY <2>1, <2>2, RunTypes
    <2>4. QED
      BY <1>1, <2>2, <2>3 DEF Start, SchedulingInv, Runnable
  <1>2. CASE Unheard
    BY <1>2, ChangeTypes DEF Unheard, effect, SchedulingInv, Runnable
  <1>3. CASE TriggerSync
    <2>1. \E ending \in Endings, fns \in Early(generation + 1) : Execute(ending, fns)
      BY <1>3 DEF TriggerSync, Executes
    <2>2. version' \in 0..MaxWrites
      BY <1>3, ChangeTypes DEF TriggerSync, Heard
    <2>3. /\ isActive' \in BOOLEAN /\ subscribed' \in BOOLEAN /\ seen' \in Int
          /\ ~isActive' => ~subscribed'
      BY <2>1, <2>2, RunTypes
    <2>4. options.mode # "post"
      BY <1>3 DEF TriggerSync, Heard
    <2>5. QED
      BY <1>3, <2>2, <2>3, <2>4 DEF TriggerSync, SchedulingInv, Runnable
  <1>4. CASE TriggerPost
    BY <1>4, ChangeTypes DEF TriggerPost, Heard, SchedulingInv, Runnable
  <1>5. CASE TriggerOpening
    <2>1. options.mode = "debounce" /\ version' \in 0..MaxWrites
      BY <1>5, ChangeTypes DEF TriggerOpening, Heard
    <2>2. CASE UNCHANGED <<isActive, subscribed, seen>> /\ timer' /\ isScheduled'
      BY <1>5, <2>1, <2>2 DEF TriggerOpening, SchedulingInv, Runnable
    <2>3. CASE \E ending \in Endings, fns \in Early(generation + 1) :
                 /\ Execute(ending, fns)
                 /\ timer' = (ending # "throws")
                 /\ isScheduled' = (ending # "throws")
      <3>1. /\ isActive' \in BOOLEAN /\ subscribed' \in BOOLEAN /\ seen' \in Int
            /\ ~isActive' => ~subscribed'
            /\ timer' \in BOOLEAN /\ isScheduled' \in BOOLEAN
        BY <2>1, <2>3, RunTypes
      <3>2. QED
        BY <1>5, <2>1, <3>1 DEF TriggerOpening, SchedulingInv
    <2>4. QED
      BY <1>5, <2>2, <2>3 DEF TriggerOpening
  <1>6. CASE TriggerWithin
    BY <1>6, ChangeTypes DEF TriggerWithin, Heard, SchedulingInv, Runnable
  <1>7. CASE Microtask
    <2>1. microtasks' \in Nat /\ version' \in 0..MaxWrites
      BY <1>7 DEF Microtask, SchedulingInv
    <2>2. CASE Runnable
      <3>1. Executes /\ isScheduled' = FALSE
        BY <1>7, <2>2 DEF Microtask
      <3>2. /\ isActive' \in BOOLEAN /\ subscribed' \in BOOLEAN /\ seen' \in Int
            /\ ~isActive' => ~subscribed'
        BY <2>1, <3>1, RunTypes DEF Executes
      <3>3. QED
        BY <1>7, <2>1, <3>1, <3>2 DEF Microtask, SchedulingInv, Runnable
    <2>3. CASE ~Runnable
      BY <1>7, <2>1, <2>3 DEF Microtask, SchedulingInv, Runnable
    <2>4. QED
      BY <2>2, <2>3
  <1>8. CASE Timeout
    <2>1. version' \in 0..MaxWrites
      BY <1>8 DEF Timeout, SchedulingInv
    <2>2. CASE UNCHANGED <<isActive, subscribed, seen>>
      BY <1>8, <2>1, <2>2 DEF Timeout, SchedulingInv, Runnable
    <2>3. CASE Executes
      <3>1. /\ isActive' \in BOOLEAN /\ subscribed' \in BOOLEAN /\ seen' \in Int
            /\ ~isActive' => ~subscribed'
        BY <2>1, <2>3, RunTypes DEF Executes
      <3>2. QED
        BY <1>8, <2>1, <3>1 DEF Timeout, SchedulingInv, Runnable
    <2>4. QED
      BY <1>8, <2>2, <2>3 DEF Timeout
  <1>9. CASE Stop
    BY <1>9 DEF Stop, SchedulingInv, Runnable
  <1>10. CASE Pause
    BY <1>10, BoundAssumption DEF Pause, cleanups, SchedulingInv, Runnable
  <1>11. CASE Resume
    <2>1. version' \in 0..MaxWrites
      BY <1>11 DEF Resume, SchedulingInv
    <2>2. CASE isActive
      <3>1. \E ending \in Endings, fns \in Early(generation + 1) :
               /\ Execute(ending, fns)
               /\ timer' = (timer /\ ending # "stops")
               /\ sawTrigger' = (sawTrigger /\ ending # "stops")
        BY <1>11, <2>2 DEF Resume
      <3>2. /\ isActive' \in BOOLEAN /\ subscribed' \in BOOLEAN /\ seen' \in Int
            /\ ~isActive' => ~subscribed'
            /\ timer' \in BOOLEAN /\ sawTrigger' \in BOOLEAN
        BY <2>1, <3>1, RunTypes
      <3>3. isScheduled' = FALSE
        BY <1>11, <2>2 DEF Resume
      <3>4. QED
        BY <1>11, <2>1, <3>2, <3>3 DEF Resume, SchedulingInv, Runnable
    <2>3. CASE ~isActive
      BY <1>11, <2>1, <2>3 DEF Resume, SchedulingInv, Runnable
    <2>4. QED
      BY <2>2, <2>3
  <1>12. ASSUME NEW g \in waiting, RegisterLate(g) PROVE SchedulingInv'
    BY <1>12 DEF RegisterLate, effect, SchedulingInv, Runnable
  <1>13. CASE UNCHANGED vars
    BY <1>13 DEF vars, effect, SchedulingInv, Runnable
  <1>14. QED
    BY <1>1, <1>2, <1>3, <1>4, <1>5, <1>6, <1>7, <1>8, <1>9, <1>10, <1>11, <1>12, <1>13
    DEF Next, Trigger

----------------------------------------------------------------------------
\* Both halves together hold in every reachable state of the effect.
LEMMA EffectStep == EffectInv /\ [Next]_vars => EffectInv'
  BY CleanupStep, SchedulingStep DEF EffectInv

LEMMA EffectInvariant == Spec => []EffectInv
  BY EffectInit, EffectStep, PTL DEF Spec

\* Every variable stays in its type; in particular what is cleaned was registered.
THEOREM TypeCorrect == Spec => []TypeOK
  <1>1. EffectInv => TypeOK
    BY DEF EffectInv, CleanupInv, SchedulingInv, TypeOK
  <1>2. QED
    BY EffectInvariant, <1>1, PTL

\* runCleanups (effect.ts:68) and the late registration (effect.ts:86) never run the
\* same cleanup twice, and the cleanups not yet run are those of the current run of
\* a live effect.
THEOREM CleanupsRunOnce == Spec => [](CleanedOnce /\ NothingStranded)
  <1>1. EffectInv => CleanedOnce /\ NothingStranded
    BY DEF EffectInv, CleanupInv, CleanedOnce, NothingStranded
  <1>2. QED
    BY EffectInvariant, <1>1, PTL

\* A stopped effect has no subscription and no cleanup left (effect.ts:209), even
\* when it was its own body that stopped it.
THEOREM StoppedDetached == Spec => []StoppedIsDetached
  <1>1. EffectInv => StoppedIsDetached
    BY DEF EffectInv, CleanupInv, SchedulingInv, StoppedIsDetached
  <1>2. QED
    BY EffectInvariant, <1>1, PTL

\* The flag that makes scheduleRun return early (effect.ts:194) is never left set
\* without a microtask to clear it.
THEOREM FlagIsHonest == Spec => []NeverDeaf
  <1>1. EffectInv => NeverDeaf
    BY DEF EffectInv, SchedulingInv, NeverDeaf
  <1>2. QED
    BY EffectInvariant, <1>1, PTL

----------------------------------------------------------------------------
\* Proofs, for every number of layers and every dependency function: no layer is ever live
\* without what it depends on.  The levels are why: a layer's dependencies stand on lower
\* levels than it does, only the last level is ever unfinished or broken, and what is taken
\* down stood above everything that is still up.

\* Levels rank the layers, once their dependencies were found to be listed.
LevelInv ==
    /\ \A l \in Layer : levelOf[l] <= levels
    /\ stage \notin {"checking", "refused"} => validateDependencies
    /\ \A l \in Layer : levelOf[l] # 0 =>
          \A d \in deps[l] : d \in Layer /\ levelOf[d] # 0 /\ levelOf[d] < levelOf[l]

\* What the stage and its level say of what a layer is at.
PhaseInv ==
    /\ \A l \in Layer : phase[l] = "idle" <=> levelOf[l] = 0
    /\ \A l \in Layer : phase[l] \in {"forked", "mounting", "settingUp"} =>
          stage = "building" /\ levelOf[l] = levels
    /\ \A l \in Layer : phase[l] = "failed" =>
          stage \in {"building", "rollback", "failed"} /\ levelOf[l] = levels
    /\ \A l \in Layer : phase[l] = "down" =>
          stage \in {"rollback", "failed", "disposing", "disposed"}
    /\ \A l \in Layer : phase[l] = "built" => stage \notin {"checking", "refused", "failed", "disposed"}
    /\ \A l, m \in Layer : phase[l] = "down" /\ phase[m] = "built" => Before(m, l)

BuildInv == LayersTyped /\ LevelInv /\ PhaseInv

\* Before the check nothing has a level.
LEMMA BuildInit == ASSUME LayersAssumption, LayersInit PROVE BuildInv
  <1>1. LayersTyped
    BY DEF LayersAssumption, LayersInit, LayersTyped
  <1>2. LevelInv /\ PhaseInv
    BY DEF LayersInit, LevelInv, PhaseInv
  <1>3. QED
    BY <1>1, <1>2 DEF BuildInv

\* The steps that change neither levels nor phases.
LEMMA StageStep ==
    ASSUME BuildInv, Check \/ appendLayerExits \/ CallReady \/ AllReady \/ DisposeLayers
                        \/ CleanedUp \/ \E l \in Layer : ReadyReturns(l)
    PROVE  BuildInv'
  <1> USE DEF BuildInv, LayersTyped, LevelInv, PhaseInv, Before, Live
  <1>1. CASE Check
    BY <1>1 DEF Check, validateDependencies
  <1>2. CASE appendLayerExits
    BY <1>2 DEF appendLayerExits, validateDependencies
  <1>3. CASE CallReady
    BY <1>3 DEF CallReady, validateDependencies
  <1>4. CASE AllReady
    BY <1>4 DEF AllReady, validateDependencies
  <1>5. CASE DisposeLayers
    BY <1>5 DEF DisposeLayers, validateDependencies
  <1>6. CASE CleanedUp
    BY <1>6 DEF CleanedUp, validateDependencies
  <1>7. ASSUME NEW l \in Layer, ReadyReturns(l) PROVE BuildInv'
    BY <1>7 DEF ReadyReturns, validateDependencies
  <1>8. QED
    BY <1>1, <1>2, <1>3, <1>4, <1>5, <1>6, <1>7

\* A new level takes layers whose dependencies all stand on the levels below.
LEMMA LevelStep == ASSUME BuildInv, NextLevel PROVE BuildInv'
  <1> DEFINE raised == {l \in Remaining : deps[l] \cap Remaining = {}}
  <1>1. /\ levels \in Nat /\ levelOf \in [Layer -> Nat] /\ validateDependencies
        /\ \A l \in Layer : deps[l] \subseteq Layer \cup {Missing}
        /\ \A l \in Layer : levelOf[l] <= levels
    BY DEF BuildInv, LayersTyped, LevelInv, NextLevel
  <1>2. /\ stage = "levelling" /\ stage' = "building" /\ levels' = levels + 1
        /\ UNCHANGED <<deps, unready>>
        /\ levelOf' = [l \in Layer |-> IF l \in raised THEN levels + 1 ELSE levelOf[l]]
        /\ phase' = [l \in Layer |-> IF l \in raised THEN "forked" ELSE phase[l]]
    BY DEF NextLevel
  <1>3. \A l \in raised : l \in Layer /\ levelOf[l] = 0
    BY DEF Remaining
  <1>4. LayersTyped'
    BY <1>1, <1>2 DEF BuildInv, LayersTyped, Live
  <1>5. LevelInv'
    <2>1. ASSUME NEW l \in raised, NEW d \in deps[l]
          PROVE  d \in Layer /\ levelOf[d] # 0 /\ d \notin raised
      BY <1>1, <1>3 DEF validateDependencies, Remaining
    <2>2. \A l \in Layer \ raised : levelOf[l] # 0 =>
              \A d \in deps[l] : d \in Layer \ raised /\ levelOf[d] # 0 /\ levelOf[d] < levelOf[l]
      BY <1>3 DEF BuildInv, LevelInv
    <2>3. \A l \in Layer : levelOf'[l] # 0 =>
              \A d \in deps[l] : d \in Layer /\ levelOf'[d] # 0 /\ levelOf'[d] < levelOf'[l]
      <3> SUFFICES ASSUME NEW l \in Layer, levelOf'[l] # 0, NEW d \in deps[l]
                   PROVE  d \in Layer /\ levelOf'[d] # 0 /\ levelOf'[d] < levelOf'[l]
        OBVIOUS
      <3>1. CASE l \in raised
        BY <1>1, <1>2, <2>1, <3>1
      <3>2. CASE l \notin raised
        BY <1>1, <1>2, <2>2, <3>2
      <3>3. QED
        BY <3>1, <3>2
    <2>4. \A l \in Layer : levelOf'[l] <= levels'
      BY <1>2 DEF BuildInv, LevelInv, LayersTyped
    <2>5. validateDependencies'
      BY <1>1, <1>2 DEF validateDependencies
    <2>6. deps' = deps
      BY <1>2
    <2>7. QED
      BY <2>3, <2>4, <2>5, <2>6 DEF LevelInv
  <1>6. PhaseInv'
    BY <1>1, <1>2, <1>3 DEF BuildInv, PhaseInv, Before
  <1>7. QED
    BY <1>4, <1>5, <1>6 DEF BuildInv

\* The parts of building a layer are taken on its own level.
LEMMA HookStep ==
    ASSUME BuildInv, NEW l \in Layer, Provide(l) \/ Mounted(l) \/ SetUpDone(l)
    PROVE  BuildInv'
  <1> USE DEF BuildInv, LayersTyped
  <1>1. PICK to \in {"mounting", "settingUp", "built", "failed"} :
            /\ stage = "building" /\ phase[l] \in {"forked", "mounting", "settingUp"}
            /\ phase' = [phase EXCEPT ![l] = to]
            /\ UNCHANGED <<deps, stage, levels, levelOf, unready>>
    BY DEF Provide, Mounted, SetUpDone, Step
  <1>2. LayersTyped'
    BY <1>1 DEF Live
  <1>3. LevelInv'
    BY <1>1 DEF LevelInv, validateDependencies
  <1>4. PhaseInv'
    <2>1. levelOf[l] = levels /\ levelOf[l] # 0 /\ \A m \in Layer : phase[m] # "down"
      BY <1>1 DEF PhaseInv
    <2>2. \A m \in Layer : phase'[m] = IF m = l THEN to ELSE phase[m]
      BY <1>1
    <2>3. QED
      BY <1>1, <2>1, <2>2 DEF PhaseInv
  <1>5. QED
    BY <1>2, <1>3, <1>4

\* What is taken down stands behind everything that stays up.
LEMMA DownStep ==
    ASSUME BuildInv, NEW l \in Layer, cleanupBuildResults(l) PROVE BuildInv'
  <1> USE DEF BuildInv, LayersTyped
  <1>1. /\ stage \in {"rollback", "disposing"} /\ phase[l] = "built"
        /\ \A m \in Layer \ {l} : phase[m] = "built" => Before(m, l)
        /\ \A m \in Layer : phase'[m] = IF m = l THEN "down" ELSE phase[m]
        /\ UNCHANGED <<deps, stage, levels, levelOf, unready>>
    BY DEF cleanupBuildResults
  <1>2. LayersTyped'
    BY DEF cleanupBuildResults, Live
  <1>3. LevelInv'
    BY <1>1 DEF LevelInv, validateDependencies
  <1>4. PhaseInv'
    BY <1>1 DEF PhaseInv, Before
  <1>5. QED
    BY <1>2, <1>3, <1>4

LEMMA BuildStep == ASSUME BuildInv, [LayersNext]_layerVars PROVE BuildInv'
  <1>1. CASE UNCHANGED layerVars
    BY <1>1 DEF layerVars, BuildInv, LayersTyped, LevelInv, PhaseInv, validateDependencies, Before
  <1>2. QED
    BY <1>1, StageStep, LevelStep, HookStep, DownStep DEF LayersNext

\* The invariant holds of every build.
LEMMA BuildInvariant == ASSUME LayersAssumption PROVE LayersSpec => []BuildInv
  <1>1. BuildInv /\ [LayersNext]_layerVars => BuildInv'
    BY BuildStep
  <1>2. QED
    BY BuildInit, <1>1, PTL DEF LayersSpec

----------------------------------------------------------------------------
LEMMA LiveOnUp == BuildInv => LiveOnLive
  <1> SUFFICES ASSUME BuildInv, NEW l \in Layer, phase[l] \in Live, NEW d \in deps[l]
               PROVE  phase[d] = "built"
    BY DEF LiveOnLive
  <1> USE DEF BuildInv, LayersTyped
  <1>1. phase[l] # "idle" /\ levelOf[l] # 0
    BY DEF Live, PhaseInv
  <1>2. d \in Layer /\ levelOf[d] # 0 /\ levelOf[d] < levelOf[l] /\ levelOf[l] <= levels
    BY <1>1 DEF LevelInv
  <1>3. phase[d] \in {"built", "down"}
    BY <1>2 DEF Live, PhaseInv
  <1>4. ASSUME phase[d] = "down" PROVE FALSE
    <2>1. phase[l] = "built"
      BY <1>2, <1>4 DEF Live, PhaseInv
    <2>2. Before(l, d)
      BY <1>2, <1>4, <2>1 DEF PhaseInv
    <2>3. QED
      BY <1>2, <2>2 DEF Before
  <1>5. QED
    BY <1>3, <1>4

LEMMA NothingUp == BuildInv => NothingLeftUp
  BY DEF BuildInv, PhaseInv, NothingLeftUp, Live

\* A layer is live only while everything it depends on is up, whatever fails and in
\* whatever order hooks settle (builder.ts buildLayerEffect, cleanupBuildResults).
THEOREM DependenciesAreUp == ASSUME LayersAssumption PROVE LayersSpec => []LiveOnLive
  BY BuildInvariant, LiveOnUp, PTL

\* Neither a refused or failed build nor a disposal leaves a layer up (builder.ts
\* buildAllLayersEffect, runtime.ts dispose).
THEOREM NothingStaysUp == ASSUME LayersAssumption PROVE LayersSpec => []NothingLeftUp
  BY BuildInvariant, NothingUp, PTL

----------------------------------------------------------------------------
\* Mounts, for every set of applications and every number of calls of mount(), where no
\* two run at once for one application: what is on the page is the active mount.  The
\* fields of an application move together because of it, and a context that is given back
\* is alive because a runtime is found alive and marked before it goes.

Calls == Mount!Call

Busy(m) == call[m] \in {"cleaning", "building", "mounting", "failing"}

\* What a call has made, by what it is at.
MadeInv ==
    \A m \in Calls :
        /\ call[m] \in {"idle", "cleaning"} => runtime[m] = "none" /\ canvas[m] = "none"
        /\ call[m] = "building" => runtime[m] = "building" /\ canvas[m] = "none"
        /\ call[m] = "mounting" => runtime[m] = "live" /\ canvas[m] = "none"
        /\ call[m] \in {"building", "mounting"} => activeMountId[app[m]] = m
        /\ runtime[m] = "live" /\ call[m] # "mounting" => call[m] = "mounted" /\ activeMountId[app[m]] = m
        /\ canvas[m] = "live" => call[m] = "mounted" /\ activeMountId[app[m]] = m
        /\ activeMountId[app[m]] = m /\ call[m] = "mounted"
              => /\ runtime[m] = "live" /\ canvas[m] = "live"
                 /\ layerRuntime[app[m]] = m /\ mountedCanvas[app[m]] = m

\* An application has one call that is busy, and nothing of another up meanwhile.
FieldsInv ==
    /\ \A m, n \in Calls : Busy(m) /\ Busy(n) /\ app[m] = app[n] => m = n
    /\ \A m \in Calls : Busy(m) => activeMountId[app[m]] \in {0, m}
    /\ \A a \in App :
          /\ activeMountId[a] # 0 =>
                /\ app[activeMountId[a]] = a
                /\ call[activeMountId[a]] \in {"building", "mounting", "mounted"}
          /\ layerRuntime[a] = mountedCanvas[a]
          /\ layerRuntime[a] # 0 =>
                activeMountId[a] = layerRuntime[a] /\ call[layerRuntime[a]] = "mounted"

\* The global context is that of a runtime that is up, as was the one it replaced.
ContextInv ==
    /\ context # 0 => runtime[context] = "live"
    /\ \A m \in Calls : previous[m] # 0 =>
          previous[m] # m /\ runtime[previous[m]] \in {"live", "disposing", "gone"}

MountInv == Mount!MountTyped /\ MadeInv /\ FieldsInv /\ ContextInv

\* Nothing was called yet.
LEMMA MountStart == Mount!MountInit => MountInv
  <1>. SUFFICES ASSUME Mount!MountInit PROVE MountInv
    OBVIOUS
  <1>. USE DEF Mount!MountInit, Calls, Mount!Call, Mount!NoCall
  <1>1. Mount!MountTyped
    BY DEF Mount!MountTyped
  <1>2. MadeInv
    BY DEF MadeInv
  <1>3. FieldsInv /\ ContextInv
    BY DEF FieldsInv, ContextInv, Busy
  <1>. QED BY <1>1, <1>2, <1>3 DEF MountInv

\* What cleanup() leaves of application a, whose runtime r goes: nothing, and a context that
\* is alive.
LEMMA CanvasGoes ==
    ASSUME MountInv, NEW a \in App, NEW r \in Calls \cup {0}, NEW run,
           r # 0 => runtime[r] = "live" /\ run[r] = "live",
           Mount!cleanup(a, r, run),
           run \in [Calls -> {"none", "building", "live", "disposing", "gone"}],
           \A n \in Calls : runtime[n] \in {"live", "disposing", "gone"} => run[n] = runtime[n]
    PROVE  /\ runtime' \in [Calls -> {"none", "building", "live", "disposing", "gone"}]
           /\ context' \in Calls \cup {0}
           /\ context' # 0 => runtime'[context'] = "live"
           /\ canvas' \in [Calls -> {"none", "live", "gone"}]
  <1>. USE DEF Calls, Mount!Call, Mount!NoCall
  <1>. USE DEF MountInv, Mount!MountTyped, Mount!cleanup
  <1>1. runtime' \in [Calls -> {"none", "building", "live", "disposing", "gone"}]
    OBVIOUS
  <1>2. canvas' \in [Calls -> {"none", "live", "gone"}]
    OBVIOUS
  <1>3. context' \in Calls \cup {0} /\ (context' # 0 => runtime'[context'] = "live")
    BY DEF Mount!restoreGlobalLayerContext, Mount!Marked, ContextInv
  <1>. QED BY <1>1, <1>2, <1>3

\* A call of mount(), which takes down what the application shows.
LEMMA MountCalledStep == ASSUME MountInv, NEW m \in Calls, Mount!MountCalled(m) PROVE MountInv'
  <1>. USE DEF Calls, Mount!Call, Mount!NoCall
  <1>. DEFINE a == app[m]
  <1>1. a \in App /\ layerRuntime[a] \in Calls \cup {0}
    BY DEF MountInv, Mount!MountTyped
  <1>2. /\ \A n \in Calls : app[n] = a => call[n] \in {"idle", "mounted", "over"}
        /\ call[m] = "idle" /\ call' = [call EXCEPT ![m] = "cleaning"]
        /\ awaits' = [awaits EXCEPT ![m] = layerRuntime[a]]
        /\ UNCHANGED <<app, previous>>
        /\ Mount!cleanup(a, layerRuntime[a], runtime)
    BY DEF Mount!MountCalled
  <1>3. layerRuntime[a] # 0 => runtime[layerRuntime[a]] = "live"
    BY <1>1 DEF MountInv, FieldsInv, MadeInv, Mount!MountTyped
  <1>4. /\ runtime' \in [Calls -> {"none", "building", "live", "disposing", "gone"}]
        /\ context' \in Calls \cup {0}
        /\ context' # 0 => runtime'[context'] = "live"
        /\ canvas' \in [Calls -> {"none", "live", "gone"}]
    BY <1>1, <1>2, <1>3, CanvasGoes DEF MountInv, Mount!MountTyped
  <1>5. Mount!MountTyped'
    BY <1>1, <1>2, <1>4 DEF MountInv, Mount!MountTyped, Mount!cleanup
  <1>6. MadeInv'
    BY <1>1, <1>2, <1>3, <1>5 DEF MountInv, MadeInv, FieldsInv, Mount!MountTyped, Mount!cleanup
  <1>7. FieldsInv'
    BY <1>1, <1>2, <1>5 DEF MountInv, FieldsInv, Busy, Mount!MountTyped, Mount!cleanup
  <1>8. ContextInv'
    BY <1>1, <1>2, <1>3, <1>4 DEF MountInv, ContextInv, Mount!MountTyped, Mount!cleanup
  <1>. QED BY <1>5, <1>6, <1>7, <1>8 DEF MountInv


\* The disposal awaited is over, or it failed.
LEMMA CleanedStep == ASSUME MountInv, NEW m \in Calls, Mount!Cleaned(m) PROVE MountInv'
  <1>. USE DEF Calls, Mount!Call, Mount!NoCall
  <1>. USE DEF MountInv, Mount!MountTyped
  <1>1. call[m] = "cleaning" /\ app[m] \in App /\ activeMountId[app[m]] = 0
    BY DEF Mount!Cleaned, FieldsInv, Busy
  <1>2. CASE /\ activeMountId' = [activeMountId EXCEPT ![app[m]] = m]
             /\ previous' = [previous EXCEPT ![m] = context]
             /\ runtime' = [runtime EXCEPT ![m] = "building"]
             /\ call' = [call EXCEPT ![m] = "building"]
    <2>1. UNCHANGED <<app, canvas, awaits, layerRuntime, mountedCanvas, context>>
      BY DEF Mount!Cleaned
    <2>2. Mount!MountTyped'
      BY <1>1, <1>2, <2>1
    <2>3. MadeInv'
      BY <1>1, <1>2, <2>1 DEF MadeInv, FieldsInv, Busy
    <2>4. FieldsInv'
      BY <1>1, <1>2, <2>1 DEF FieldsInv, Busy
    <2>5. ContextInv'
      BY <1>1, <1>2, <2>1 DEF ContextInv, MadeInv
    <2>. QED BY <2>2, <2>3, <2>4, <2>5
  <1>3. CASE /\ call' = [call EXCEPT ![m] = "over"]
             /\ UNCHANGED <<activeMountId, previous, runtime>>
    <2>1. UNCHANGED <<app, canvas, awaits, layerRuntime, mountedCanvas, context>>
      BY DEF Mount!Cleaned
    <2>2. Mount!MountTyped' /\ ContextInv'
      BY <1>3, <2>1 DEF ContextInv
    <2>3. MadeInv'
      BY <1>1, <1>3, <2>1 DEF MadeInv
    <2>4. FieldsInv'
      BY <1>1, <1>3, <2>1 DEF FieldsInv, Busy
    <2>. QED BY <2>2, <2>3, <2>4
  <1>. QED BY <1>2, <1>3 DEF Mount!Cleaned

\* Its layers are up.
LEMMA BuiltStep == ASSUME MountInv, NEW m \in Calls, Mount!Built(m) PROVE MountInv'
  <1>. USE DEF Calls, Mount!Call, Mount!NoCall
  <1>. USE DEF MountInv, Mount!MountTyped, Mount!Built
  <1>1. Mount!MountTyped'
    OBVIOUS
  <1>2. MadeInv'
    BY DEF MadeInv
  <1>3. FieldsInv'
    BY DEF FieldsInv, Busy
  <1>4. ContextInv'
    BY DEF ContextInv, MadeInv
  <1>. QED BY <1>1, <1>2, <1>3, <1>4

\* They failed: the mount was still the active one, and what it built has gone already.
LEMMA BuildFailsStep == ASSUME MountInv, NEW m \in Calls, Mount!BuildFails(m) PROVE MountInv'
  <1>. USE DEF Calls, Mount!Call, Mount!NoCall
  <1>. DEFINE a == app[m]
              run == [runtime EXCEPT ![m] = "gone"]
  <1>1. /\ a \in App /\ activeMountId[a] = m /\ layerRuntime[a] = 0
        /\ run \in [Calls -> {"none", "building", "live", "disposing", "gone"}]
        /\ \A n \in Calls : runtime[n] \in {"live", "disposing", "gone"} => run[n] = runtime[n]
    BY DEF MountInv, Mount!MountTyped, Mount!BuildFails, MadeInv, FieldsInv
  <1>2. /\ call[m] = "building" /\ call' = [call EXCEPT ![m] = "failing"]
        /\ awaits' = [awaits EXCEPT ![m] = 0]
        /\ UNCHANGED <<app, previous>>
        /\ Mount!cleanup(a, 0, run)
    BY <1>1 DEF Mount!BuildFails
  <1>3. /\ runtime' \in [Calls -> {"none", "building", "live", "disposing", "gone"}]
        /\ context' \in Calls \cup {0}
        /\ context' # 0 => runtime'[context'] = "live"
        /\ canvas' \in [Calls -> {"none", "live", "gone"}]
    BY <1>1, <1>2, CanvasGoes
  <1>4. Mount!MountTyped'
    BY <1>1, <1>2, <1>3 DEF MountInv, Mount!MountTyped, Mount!cleanup
  <1>5. MadeInv'
    BY <1>1, <1>2, <1>4 DEF MountInv, MadeInv, FieldsInv, Mount!MountTyped, Mount!cleanup
  <1>6. FieldsInv'
    BY <1>1, <1>2, <1>4 DEF MountInv, FieldsInv, Busy, Mount!MountTyped, Mount!cleanup
  <1>7. ContextInv'
    BY <1>1, <1>2, <1>3 DEF MountInv, ContextInv, Mount!MountTyped, Mount!cleanup
  <1>. QED BY <1>4, <1>5, <1>6, <1>7 DEF MountInv

\* The root component is on the page.
LEMMA ShownStep == ASSUME MountInv, NEW m \in Calls, Mount!Shown(m) PROVE MountInv'
  <1>. USE DEF Calls, Mount!Call, Mount!NoCall
  <1>. USE DEF MountInv, Mount!MountTyped, Mount!Shown
  <1>1. Mount!MountTyped'
    OBVIOUS
  <1>2. MadeInv'
    BY DEF MadeInv
  <1>3. FieldsInv'
    BY DEF FieldsInv, Busy, MadeInv
  <1>4. ContextInv'
    BY DEF ContextInv
  <1>. QED BY <1>1, <1>2, <1>3, <1>4

\* It threw: what was built for it goes.
LEMMA ShowFailsStep == ASSUME MountInv, NEW m \in Calls, Mount!ShowFails(m) PROVE MountInv'
  <1>. USE DEF Calls, Mount!Call, Mount!NoCall
  <1>. DEFINE a == app[m]
  <1>1. a \in App /\ activeMountId[a] = m /\ layerRuntime[a] = 0 /\ runtime[m] = "live"
    BY DEF MountInv, Mount!MountTyped, Mount!ShowFails, MadeInv, FieldsInv
  <1>2. /\ call[m] = "mounting" /\ call' = [call EXCEPT ![m] = "failing"]
        /\ awaits' = [awaits EXCEPT ![m] = m]
        /\ UNCHANGED <<app, previous>>
        /\ Mount!cleanup(a, m, runtime)
    BY <1>1 DEF Mount!ShowFails
  <1>3. /\ runtime' \in [Calls -> {"none", "building", "live", "disposing", "gone"}]
        /\ context' \in Calls \cup {0}
        /\ context' # 0 => runtime'[context'] = "live"
        /\ canvas' \in [Calls -> {"none", "live", "gone"}]
    BY <1>1, <1>2, CanvasGoes DEF MountInv, Mount!MountTyped
  <1>4. Mount!MountTyped'
    BY <1>1, <1>2, <1>3 DEF MountInv, Mount!MountTyped, Mount!cleanup
  <1>5. MadeInv'
    BY <1>1, <1>2, <1>4 DEF MountInv, MadeInv, FieldsInv, Mount!MountTyped, Mount!cleanup
  <1>6. FieldsInv'
    BY <1>1, <1>2, <1>4 DEF MountInv, FieldsInv, Busy, Mount!MountTyped, Mount!cleanup
  <1>7. ContextInv'
    BY <1>1, <1>2, <1>3 DEF MountInv, ContextInv, Mount!MountTyped, Mount!cleanup
  <1>. QED BY <1>4, <1>5, <1>6, <1>7 DEF MountInv

\* The active mount is unmounted.
LEMMA UnmountStep == ASSUME MountInv, NEW m \in Calls, Mount!Unmount(m) PROVE MountInv'
  <1>. USE DEF Calls, Mount!Call, Mount!NoCall
  <1>. DEFINE a == app[m]
  <1>1. /\ a \in App /\ call[m] = "mounted" /\ activeMountId[a] = m
        /\ layerRuntime[a] = m /\ mountedCanvas[a] = m /\ runtime[m] = "live"
    BY DEF MountInv, Mount!MountTyped, Mount!Unmount, MadeInv
  <1>2. UNCHANGED <<app, call, awaits, previous>> /\ Mount!cleanup(a, m, runtime)
    BY <1>1 DEF Mount!Unmount
  <1>3. /\ runtime' \in [Calls -> {"none", "building", "live", "disposing", "gone"}]
        /\ context' \in Calls \cup {0}
        /\ context' # 0 => runtime'[context'] = "live"
        /\ canvas' \in [Calls -> {"none", "live", "gone"}]
    BY <1>1, <1>2, CanvasGoes DEF MountInv, Mount!MountTyped
  <1>4. Mount!MountTyped'
    BY <1>1, <1>2, <1>3 DEF MountInv, Mount!MountTyped, Mount!cleanup
  <1>5. MadeInv'
    BY <1>1, <1>2, <1>4 DEF MountInv, MadeInv, FieldsInv, Mount!MountTyped, Mount!cleanup
  <1>6. FieldsInv'
    BY <1>1, <1>2, <1>4 DEF MountInv, FieldsInv, Busy, Mount!MountTyped, Mount!cleanup
  <1>7. ContextInv'
    BY <1>1, <1>2, <1>3 DEF MountInv, ContextInv, Mount!MountTyped, Mount!cleanup
  <1>. QED BY <1>4, <1>5, <1>6, <1>7 DEF MountInv

\* A disposal has ended, or a mount that failed.
LEMMA SettledStep ==
    ASSUME MountInv, NEW m \in Calls, Mount!Failed(m) \/ Mount!Disposed(m) PROVE MountInv'
  <1>. USE DEF Calls, Mount!Call, Mount!NoCall
  <1>. USE DEF MountInv, Mount!MountTyped
  <1>1. CASE Mount!Failed(m)
    <2>1. Mount!MountTyped' /\ ContextInv'
      BY <1>1 DEF Mount!Failed, ContextInv
    <2>2. MadeInv'
      BY <1>1 DEF Mount!Failed, MadeInv
    <2>3. FieldsInv'
      BY <1>1 DEF Mount!Failed, FieldsInv, Busy
    <2>. QED BY <2>1, <2>2, <2>3
  <1>2. CASE Mount!Disposed(m)
    <2>1. Mount!MountTyped' /\ ContextInv'
      BY <1>2 DEF Mount!Disposed, ContextInv
    <2>2. MadeInv'
      BY <1>2 DEF Mount!Disposed, MadeInv
    <2>3. FieldsInv'
      BY <1>2 DEF Mount!Disposed, FieldsInv, Busy
    <2>. QED BY <2>1, <2>2, <2>3
  <1>. QED BY <1>1, <1>2

LEMMA MountStep == ASSUME MountInv, [Mount!MountNext]_mounts PROVE MountInv'
  <1>1. CASE UNCHANGED mounts
    BY <1>1 DEF MountInv, Mount!MountTyped, MadeInv, FieldsInv, ContextInv, Busy, mounts
  <1>2. CASE Mount!MountNext
    BY <1>2, MountCalledStep, CleanedStep, BuiltStep, BuildFailsStep, ShownStep,
       ShowFailsStep, UnmountStep, SettledStep DEF Mount!MountNext, Calls
  <1>. QED BY <1>1, <1>2

LEMMA MountInvTells == MountInv => Mount!ContextIsAlive /\ Mount!OnlyTheActiveIsUp
  BY DEF MountInv, Mount!MountTyped, Mount!ContextIsAlive, Mount!OnlyTheActiveIsUp, Mount!Marked,
         ContextInv, MadeInv, Calls, Mount!Call, Mount!NoCall

----------------------------------------------------------------------------
\* Suspense, for every set of resources and every number of changes: what is shown is right
\* because each token still awaited has a reaction to come, and because nothing but a
\* failure ends the fallback while the children are suspended.

SuspenseInv ==
    /\ Bounds!SuspenseTyped
    /\ ~alive => ~listening /\ pendingTokens = {} /\ pendingResources = [r \in Resource |-> 0]
    /\ \A r \in pendingTokens : \E t \in reactions : t.resource = r
    /\ outcome = "none" => alive /\ pendingTokens = {}
    /\ Bounds!NothingFailed =>
          /\ \A t \in reactions : ~t.caught
          /\ shouldShowFallback => isPending
          /\ outcome = "suspends" => shouldShowFallback
    /\ listening /\ outcome = "renders" =>
          ~shouldShowFallback /\ ~isPending /\ resolvedChildren = wanted
    /\ alive /\ outcome # "none" /\ shouldShowFallback =>
          \E t \in reactions : t.caught \/ t.resource \in pendingTokens

LEMMA SuspenseConstants ==
    /\ MaxSwitches \in Nat /\ MaxRefetches \in Nat /\ None \notin Resource
  BY SuspenseKnown DEF Bounds!SuspenseAssumption

LEMMA SuspenseStart == Bounds!SuspenseInit => SuspenseInv
  <1>. SUFFICES ASSUME Bounds!SuspenseInit PROVE SuspenseInv
    OBVIOUS
  <1>. USE DEF Bounds!SuspenseInit
  <1>1. promises = <<"kept">> /\ Len(promises) = 1 /\ promises \in Seq({"pending", "kept", "broken"})
    OBVIOUS
  <1>2. resources \in [Resource -> 0..Len(promises)] /\ pendingResources \in [Resource -> 0..Len(promises)]
    BY <1>1
  <1>3. switched \in 0..MaxSwitches /\ refetched \in 0..MaxRefetches
    BY SuspenseConstants
  <1>4. Bounds!SuspenseTyped
    BY <1>1, <1>2, <1>3 DEF Bounds!SuspenseTyped
  <1>. QED BY <1>4 DEF SuspenseInv

\* What the reactions of a promise may be.
Awaiting == [resource : Resource, promise : 1..Len(promises), caught : BOOLEAN]
Standings == [tokens : SUBSET Resource, registered : [Resource -> 0..Len(promises)],
              awaited : SUBSET Awaiting, pending : BOOLEAN]

LEMMA OutcomeIs ==
    ASSUME Bounds!SuspenseTyped, NEW r \in Resource
    PROVE  /\ Bounds!Outcome(r) \in {"suspends", "renders", "throws"}
           /\ Bounds!Outcome(r) = "throws" => ~Bounds!NothingFailed
  <1>1. resources[r] \in 0..Len(promises) /\ promises \in Seq({"pending", "kept", "broken"})
    BY DEF Bounds!SuspenseTyped
  <1>2. CASE resources[r] = 0
    BY <1>2 DEF Bounds!Outcome
  <1>3. CASE resources[r] # 0
    <2>1. resources[r] \in DOMAIN promises /\ promises[resources[r]] \in {"pending", "kept", "broken"}
      BY <1>1, <1>3
    <2>2. CASE promises[resources[r]] = "pending"
      BY <1>3, <2>2 DEF Bounds!Outcome
    <2>3. CASE promises[resources[r]] = "kept"
      BY <1>3, <2>3 DEF Bounds!Outcome
    <2>4. CASE promises[resources[r]] = "broken"
      BY <1>3, <2>1, <2>4 DEF Bounds!Outcome, Bounds!NothingFailed
    <2>. QED BY <2>1, <2>2, <2>3, <2>4
  <1>. QED BY <1>2, <1>3

\* What the children, called with boundary b, leave: a boundary that has a token of what
\* they lack, what they rendered, or the boundary their error goes past.
Called(b, r, failed) ==
    /\ promises' \in Seq({"pending", "kept", "broken"})
    /\ Len(promises') \in Nat /\ Len(promises') >= Len(promises)
    /\ resources' \in [Resource -> 0..Len(promises')]
    /\ Bounds!NothingFailed' => Bounds!NothingFailed
    /\ outcome' = Bounds!Outcome(r)
    /\ outcome' = "suspends" =>
         \/ /\ r \in b.tokens /\ pendingTokens' = b.tokens /\ reactions' = b.awaited
            /\ isPending' = b.pending /\ pendingResources' = b.registered
            /\ UNCHANGED <<shouldShowFallback, resolvedChildren>>
         \/ /\ pendingTokens' = b.tokens \cup {r}
            /\ \E p \in 1..Len(promises') :
                 /\ pendingResources' = [b.registered EXCEPT ![r] = p]
                 /\ reactions' = b.awaited \cup
                         {[resource |-> r, promise |-> p, caught |-> FALSE]}
            /\ isPending' = TRUE /\ shouldShowFallback' = TRUE
            /\ UNCHANGED resolvedChildren
    /\ outcome' = "renders" =>
         /\ pendingTokens' = b.tokens /\ reactions' = b.awaited
         /\ isPending' = FALSE /\ pendingResources' = b.registered
         /\ shouldShowFallback' = FALSE /\ resolvedChildren' = r
         /\ UNCHANGED promises
    /\ outcome' = "throws" =>
         /\ pendingTokens' = failed.tokens /\ reactions' = failed.awaited
         /\ isPending' = failed.pending /\ pendingResources' = failed.registered
         /\ UNCHANGED <<shouldShowFallback, resolvedChildren, promises>>

LEMMA TryRenders ==
    ASSUME Bounds!SuspenseTyped, NEW b \in Standings, NEW failed \in Standings, NEW r \in Resource,
           Bounds!tryRenderChildren(b, r, failed)
    PROVE  Called(b, r, failed)
  <1>. USE DEF Called
  <1>1. /\ resources \in [Resource -> 0..Len(promises)]
        /\ promises \in Seq({"pending", "kept", "broken"}) /\ Len(promises) \in Nat
    BY DEF Bounds!SuspenseTyped
  <1>2. outcome' = Bounds!Outcome(r)
    BY DEF Bounds!tryRenderChildren
  <1>3. CASE Bounds!Outcome(r) = "suspends"
    <2>1. Bounds!handleSuspendToken(b, r)
      BY <1>3 DEF Bounds!tryRenderChildren
    <2>. DEFINE p == IF resources[r] = 0 THEN Len(promises) + 1 ELSE resources[r]
    <2>2. /\ resources' = [resources EXCEPT ![r] = p]
          /\ promises' = IF resources[r] = 0 THEN Append(promises, "pending") ELSE promises
          /\ IF r \in b.tokens
             THEN Bounds!Becomes(b) /\ UNCHANGED <<shouldShowFallback, resolvedChildren>>
             ELSE /\ Bounds!Becomes(Bounds!Standing(b.tokens \cup {r},
                          [b.registered EXCEPT ![r] = p],
                          b.awaited \cup {[resource |-> r, promise |-> p, caught |-> FALSE]}, TRUE))
                  /\ shouldShowFallback' = TRUE /\ UNCHANGED resolvedChildren
      BY <2>1 DEF Bounds!handleSuspendToken, Bounds!content
    <2>3. /\ promises' \in Seq({"pending", "kept", "broken"})
          /\ Len(promises') \in Nat /\ Len(promises') >= Len(promises) /\ p \in 1..Len(promises')
          /\ \A i \in DOMAIN promises : i \in DOMAIN promises' /\ promises'[i] = promises[i]
      BY <1>1, <2>2
    <2>4. resources' \in [Resource -> 0..Len(promises')] /\ (Bounds!NothingFailed' => Bounds!NothingFailed)
      BY <1>1, <2>2, <2>3 DEF Bounds!NothingFailed
    <2>5. CASE r \in b.tokens
      BY <1>2, <1>3, <2>2, <2>3, <2>4, <2>5 DEF Bounds!Becomes
    <2>6. CASE r \notin b.tokens
      <3>1. /\ pendingTokens' = b.tokens \cup {r}
            /\ pendingResources' = [b.registered EXCEPT ![r] = p]
            /\ reactions' = b.awaited \cup {[resource |-> r, promise |-> p, caught |-> FALSE]}
            /\ isPending' = TRUE /\ shouldShowFallback' = TRUE /\ UNCHANGED resolvedChildren
        BY <2>2, <2>6 DEF Bounds!Becomes, Bounds!Standing
      <3>. HIDE DEF p
      <3>. QED BY <1>2, <1>3, <2>3, <2>4, <3>1
    <2>. QED BY <2>5, <2>6
  <1>4. CASE Bounds!Outcome(r) = "renders"
    <2>1. /\ Bounds!Becomes([b EXCEPT !.pending = FALSE])
          /\ shouldShowFallback' = FALSE /\ resolvedChildren' = r
          /\ UNCHANGED <<resources, promises>>
      BY <1>4 DEF Bounds!tryRenderChildren
    <2>2. [b EXCEPT !.pending = FALSE].tokens = b.tokens
       /\ [b EXCEPT !.pending = FALSE].registered = b.registered
       /\ [b EXCEPT !.pending = FALSE].awaited = b.awaited
       /\ [b EXCEPT !.pending = FALSE].pending = FALSE
      BY DEF Standings
    <2>. QED BY <1>1, <1>2, <1>4, <2>1, <2>2 DEF Bounds!Becomes, Bounds!NothingFailed
  <1>5. CASE Bounds!Outcome(r) = "throws"
    <2>1. Bounds!Becomes(failed) /\ UNCHANGED <<shouldShowFallback, resolvedChildren, resources, promises>>
      BY <1>5 DEF Bounds!tryRenderChildren, Bounds!content
    <2>. QED BY <1>1, <1>2, <1>5, <2>1 DEF Bounds!Becomes, Bounds!NothingFailed
  <1>. QED BY <1>3, <1>4, <1>5, OutcomeIs


\* A change of what the boundary is to show: with the boundary as it stands, or with token t
\* of a promise that was kept taken off it, the children are called.
LEMMA CalledTyped ==
    ASSUME Bounds!SuspenseTyped, NEW b \in Standings, NEW failed \in Standings, NEW r \in Resource,
           Called(b, r, failed)
    PROVE  /\ promises' \in Seq({"pending", "kept", "broken"})
           /\ resources' \in [Resource -> 0..Len(promises')]
           /\ pendingTokens' \subseteq Resource
           /\ pendingResources' \in [Resource -> 0..Len(promises')]
           /\ reactions' \subseteq [resource : Resource, promise : 1..Len(promises'), caught : BOOLEAN]
           /\ isPending' \in BOOLEAN /\ shouldShowFallback' \in BOOLEAN
           /\ resolvedChildren' \in Resource \cup {None}
           /\ outcome' \in {"none", "suspends", "renders", "throws"}
  <1>1. /\ Len(promises) \in Nat /\ Len(promises') \in Nat /\ Len(promises') >= Len(promises)
        /\ outcome' \in {"suspends", "renders", "throws"}
    BY OutcomeIs DEF Bounds!SuspenseTyped, Called
  <1>2. /\ b.tokens \subseteq Resource /\ failed.tokens \subseteq Resource
        /\ b.registered \in [Resource -> 0..Len(promises')]
        /\ failed.registered \in [Resource -> 0..Len(promises')]
        /\ b.pending \in BOOLEAN /\ failed.pending \in BOOLEAN
        /\ b.awaited \subseteq [resource : Resource, promise : 1..Len(promises'), caught : BOOLEAN]
        /\ failed.awaited \subseteq [resource : Resource, promise : 1..Len(promises'), caught : BOOLEAN]
    BY <1>1 DEF Standings, Awaiting
  <1>3. CASE outcome' = "suspends"
    <2>1. CASE /\ r \in b.tokens /\ pendingTokens' = b.tokens /\ reactions' = b.awaited
               /\ isPending' = b.pending /\ pendingResources' = b.registered
               /\ UNCHANGED <<shouldShowFallback, resolvedChildren>>
      BY <1>1, <1>2, <2>1 DEF Bounds!SuspenseTyped, Called
    <2>2. ASSUME NEW p \in 1..Len(promises'),
                 pendingResources' = [b.registered EXCEPT ![r] = p],
                 reactions' = b.awaited \cup {[resource |-> r, promise |-> p, caught |-> FALSE]},
                 pendingTokens' = b.tokens \cup {r},
                 isPending' = TRUE, shouldShowFallback' = TRUE, UNCHANGED resolvedChildren
          PROVE  /\ pendingTokens' \subseteq Resource
                 /\ pendingResources' \in [Resource -> 0..Len(promises')]
                 /\ reactions' \subseteq
                        [resource : Resource, promise : 1..Len(promises'), caught : BOOLEAN]
                 /\ isPending' \in BOOLEAN /\ shouldShowFallback' \in BOOLEAN
                 /\ resolvedChildren' \in Resource \cup {None}
      <3>1. pendingTokens' \subseteq Resource /\ pendingResources' \in [Resource -> 0..Len(promises')]
        BY <1>1, <1>2, <2>2
      <3>2. [resource |-> r, promise |-> p, caught |-> FALSE] \in
                [resource : Resource, promise : 1..Len(promises'), caught : BOOLEAN]
        BY <2>2
      <3>. QED BY <1>2, <2>2, <3>1, <3>2 DEF Bounds!SuspenseTyped
    <2>. QED BY <1>1, <1>3, <2>1, <2>2 DEF Called
  <1>4. CASE outcome' = "renders"
    BY <1>1, <1>2, <1>4 DEF Bounds!SuspenseTyped, Called
  <1>5. CASE outcome' = "throws"
    BY <1>1, <1>2, <1>5 DEF Bounds!SuspenseTyped, Called
  <1>. QED BY <1>1, <1>3, <1>4, <1>5

LEMMA NowIs ==
    ASSUME Bounds!SuspenseTyped
    PROVE  /\ Bounds!Now \in Standings
           /\ Bounds!Now.tokens = pendingTokens /\ Bounds!Now.awaited = reactions
           /\ Bounds!Now.pending = isPending /\ Bounds!Now.registered = pendingResources
  BY DEF Bounds!SuspenseTyped, Bounds!Now, Bounds!Standing, Standings, Awaiting

\* The effect runs, first in the script and then whenever the application changes wanted.
LEMMA EffectRunStep ==
    ASSUME SuspenseInv, Bounds!Watched \/ (\E r \in Resource : Bounds!Switch(r)) PROVE SuspenseInv'
  <1>. USE SuspenseConstants
  <1>1. ASSUME NEW r \in Resource, alive, Bounds!tryRenderChildren(Bounds!Now, r, Bounds!Now),
               listening' = (Bounds!Outcome(r) # "throws"), r = wanted',
               UNCHANGED <<refetched, alive>>, switched' \in 0..MaxSwitches,
               outcome = "none" => Bounds!Outcome(r) # "throws",
               r \in pendingTokens => shouldShowFallback
        PROVE  SuspenseInv'
    <2>1. Called(Bounds!Now, r, Bounds!Now) /\ Bounds!SuspenseTyped
      BY <1>1, NowIs, TryRenders DEF SuspenseInv
    <2>2. Bounds!SuspenseTyped'
      BY <1>1, <2>1, CalledTyped, NowIs DEF Bounds!SuspenseTyped
    <2>3. /\ outcome' \in {"suspends", "renders", "throws"} /\ outcome' = Bounds!Outcome(r)
          /\ outcome' = "throws" => ~Bounds!NothingFailed
          /\ Bounds!NothingFailed' => Bounds!NothingFailed
      BY <2>1, OutcomeIs DEF Called
    <2>4. CASE outcome' = "suspends"
      <3>1. CASE /\ r \in pendingTokens
                 /\ UNCHANGED <<pendingTokens, reactions, isPending, pendingResources>>
                 /\ UNCHANGED <<shouldShowFallback, resolvedChildren>>
        BY <1>1, <2>2, <2>3, <2>4, <3>1 DEF SuspenseInv
      <3>2. ASSUME NEW p \in 1..Len(promises'), pendingTokens' = pendingTokens \cup {r},
                   reactions' = reactions \cup {[resource |-> r, promise |-> p, caught |-> FALSE]},
                   isPending' = TRUE, shouldShowFallback' = TRUE
            PROVE  SuspenseInv'
        <4>. DEFINE new == [resource |-> r, promise |-> p, caught |-> FALSE]
        <4>1. new \in reactions' /\ ~new.caught /\ new.resource = r
          BY <3>2
        <4>2. reactions' = reactions \cup {new}
          BY <3>2
        <4>. HIDE DEF new
        <4>. QED BY <1>1, <2>2, <2>3, <2>4, <3>2, <4>1, <4>2 DEF SuspenseInv
      <3>. QED BY <2>1, <2>4, <3>1, <3>2, NowIs DEF Called
    <2>5. CASE outcome' = "renders"
      BY <1>1, <2>1, <2>2, <2>3, <2>5, NowIs DEF SuspenseInv, Called
    <2>6. CASE outcome' = "throws"
      BY <1>1, <2>1, <2>2, <2>3, <2>6, NowIs DEF SuspenseInv, Called
    <2>. QED BY <2>3, <2>4, <2>5, <2>6
  <1>2. CASE Bounds!Watched
    BY <1>1, <1>2 DEF Bounds!Watched, SuspenseInv, Bounds!SuspenseTyped
  <1>3. ASSUME NEW r \in Resource, Bounds!Switch(r) PROVE SuspenseInv'
    <2>1. CASE listening
      <3>1. /\ Bounds!tryRenderChildren(Bounds!Now, r, Bounds!Now)
            /\ listening' = (Bounds!Outcome(r) # "throws") /\ r = wanted'
            /\ UNCHANGED <<refetched, alive>> /\ outcome # "none"
            /\ switched < MaxSwitches /\ switched' = switched + 1
            /\ shouldShowFallback \/ r \notin pendingTokens
        BY <1>3, <2>1 DEF Bounds!Switch
      <3>2. alive /\ switched \in 0..MaxSwitches
        BY <2>1 DEF SuspenseInv, Bounds!SuspenseTyped
      <3>3. switched' \in 0..MaxSwitches
        BY <3>1, <3>2
      <3>. QED BY <1>1, <3>1, <3>2, <3>3
    <2>2. CASE ~listening
      <3>1. UNCHANGED <<resources, promises, listening, pendingTokens, pendingResources, reactions,
                        isPending, shouldShowFallback, resolvedChildren, outcome, refetched, alive>>
        BY <1>3, <2>2 DEF Bounds!Switch, Bounds!boundary, Bounds!content
      <3>2. wanted' \in Resource /\ switched' \in 0..MaxSwitches
        BY <1>3 DEF Bounds!Switch, SuspenseInv, Bounds!SuspenseTyped
      <3>. QED BY <2>2, <3>1, <3>2 DEF SuspenseInv, Bounds!SuspenseTyped, Bounds!NothingFailed
    <2>. QED BY <2>1, <2>2
  <1>. QED BY <1>2, <1>3


\* The boundary with its reaction t run: the token of t goes with it, or stays if the
\* boundary is no longer there to hear.
LEMMA TakenOff ==
    ASSUME Bounds!SuspenseTyped, NEW t \in reactions
    PROVE  /\ reactions \subseteq Awaiting /\ t \in Awaiting /\ Bounds!Caught(t) \in Awaiting
           /\ Bounds!Caught(t).caught /\ Bounds!Caught(t).resource = t.resource
           /\ [pendingResources EXCEPT ![t.resource] = 0] \in [Resource -> 0..Len(promises)]
           /\ Bounds!Removed(t) \in [Resource -> 0..Len(promises)]
           /\ Bounds!Without(t) \in Standings /\ Bounds!Unsaid(t) \in Standings
           /\ Bounds!Without(t).tokens = pendingTokens \ {t.resource}
           /\ Bounds!Without(t).registered = [pendingResources EXCEPT ![t.resource] = 0]
           /\ Bounds!Without(t).awaited = reactions \ {t}
           /\ Bounds!Without(t).pending = isPending
           /\ Bounds!Unsaid(t).tokens = pendingTokens
           /\ Bounds!Unsaid(t).registered = Bounds!Removed(t)
           /\ Bounds!Unsaid(t).awaited = reactions \ {t}
           /\ Bounds!Unsaid(t).pending = isPending
  <1>1. reactions \subseteq Awaiting /\ t \in Awaiting
    BY DEF Bounds!SuspenseTyped, Awaiting
  <1>2. /\ Bounds!Caught(t) \in Awaiting
        /\ Bounds!Caught(t).caught /\ Bounds!Caught(t).resource = t.resource
    BY <1>1 DEF Awaiting, Bounds!Caught
  <1>3. /\ [pendingResources EXCEPT ![t.resource] = 0] \in [Resource -> 0..Len(promises)]
        /\ Bounds!Removed(t) \in [Resource -> 0..Len(promises)]
    BY <1>1 DEF Bounds!SuspenseTyped, Bounds!Removed
  <1>4. /\ reactions \ {t} \subseteq Awaiting /\ pendingTokens \subseteq Resource
        /\ isPending \in BOOLEAN
    BY DEF Bounds!SuspenseTyped, Awaiting
  <1>. QED BY <1>1, <1>2, <1>3, <1>4 DEF Bounds!Without, Bounds!Unsaid, Bounds!Standing, Standings

\* A boundary that waits no more, and one with a reaction more.
Idle(b) == [b EXCEPT !.pending = FALSE]
Also(b, c) == [b EXCEPT !.awaited = @ \cup {c}]
IdleAlso(b, c) == [b EXCEPT !.pending = FALSE, !.awaited = @ \cup {c}]

LEMMA StandingChanged ==
    ASSUME NEW b \in Standings, NEW c \in Awaiting
    PROVE  /\ Idle(b) \in Standings /\ Also(b, c) \in Standings /\ IdleAlso(b, c) \in Standings
           /\ Idle(b).tokens = b.tokens /\ Also(b, c).tokens = b.tokens
           /\ IdleAlso(b, c).tokens = b.tokens
           /\ Idle(b).registered = b.registered /\ Also(b, c).registered = b.registered
           /\ Idle(b).awaited = b.awaited /\ Also(b, c).awaited = b.awaited \cup {c}
           /\ IdleAlso(b, c).awaited = b.awaited \cup {c}
           /\ Idle(b).pending = FALSE /\ Also(b, c).pending = b.pending
  BY DEF Standings, Idle, Also, IdleAlso

\* The tokens left still have reactions to come.
LEMMA OthersAwaited ==
    ASSUME SuspenseInv, NEW t \in reactions
    PROVE  \A r \in pendingTokens \ {t.resource} : \E u \in reactions \ {t} : u.resource = r
  BY DEF SuspenseInv

\* What a promise that was kept brings about.
LEMMA ResolvedStep ==
    ASSUME SuspenseInv, NEW t \in reactions, Bounds!Resolved(t) PROVE SuspenseInv'
  <1>. DEFINE left == Idle(Bounds!Without(t))
              failed == IdleAlso(Bounds!Without(t), Bounds!Caught(t))
  <1>1. Bounds!SuspenseTyped /\ UNCHANGED <<wanted, switched, refetched, listening, alive>>
    BY DEF SuspenseInv, Bounds!Resolved
  <1>2. CASE alive /\ pendingTokens \subseteq {t.resource}
    <2>1. /\ left \in Standings /\ left.tokens = {} /\ left.awaited = reactions \ {t}
          /\ failed \in Standings /\ failed.tokens = {}
          /\ failed.awaited = (reactions \ {t}) \cup {Bounds!Caught(t)}
      <3>1. Bounds!Without(t) \in Standings /\ Bounds!Caught(t) \in Awaiting
        BY <1>1, TakenOff
      <3>2. /\ left \in Standings /\ left.tokens = Bounds!Without(t).tokens
            /\ left.awaited = Bounds!Without(t).awaited
            /\ failed \in Standings /\ failed.tokens = Bounds!Without(t).tokens
            /\ failed.awaited = Bounds!Without(t).awaited \cup {Bounds!Caught(t)}
        BY <3>1, StandingChanged
      <3>. HIDE DEF left, failed
      <3>. QED BY <1>1, <1>2, <3>2, TakenOff
    <2>2. Bounds!tryRenderChildren(left, wanted, failed)
      BY <1>2 DEF Bounds!Resolved, Idle, IdleAlso
    <2>3. wanted \in Resource /\ Called(left, wanted, failed)
      <3>1. wanted \in Resource
        BY <1>1 DEF Bounds!SuspenseTyped
      <3>. HIDE DEF left, failed
      <3>. QED BY <1>1, <2>1, <2>2, <3>1, TryRenders
    <2>. HIDE DEF left, failed
    <2>4. Bounds!SuspenseTyped'
      BY <1>1, <2>1, <2>3, CalledTyped DEF Bounds!SuspenseTyped
    <2>5. /\ outcome' \in {"suspends", "renders", "throws"}
          /\ outcome' = "throws" => ~Bounds!NothingFailed
          /\ Bounds!NothingFailed' => Bounds!NothingFailed
      BY <1>1, <2>3, OutcomeIs DEF Called
    <2>6. CASE outcome' = "suspends"
      <3>1. PICK p \in 1..Len(promises') :
                reactions' = (reactions \ {t})
                    \cup {[resource |-> wanted, promise |-> p, caught |-> FALSE]}
        BY <2>1, <2>3, <2>6 DEF Called
      <3>2. pendingTokens' = {wanted} /\ isPending' = TRUE /\ shouldShowFallback' = TRUE
        BY <2>1, <2>3, <2>6 DEF Called
      <3>. DEFINE new == [resource |-> wanted, promise |-> p, caught |-> FALSE]
      <3>3. new \in reactions' /\ ~new.caught /\ new.resource = wanted
        BY <3>1
      <3>4. reactions' = (reactions \ {t}) \cup {new}
        BY <3>1
      <3>. HIDE DEF new
      <3>. QED BY <1>1, <1>2, <2>4, <2>5, <2>6, <3>2, <3>3, <3>4 DEF SuspenseInv
    <2>7. CASE outcome' = "renders"
      BY <1>1, <1>2, <2>1, <2>3, <2>4, <2>5, <2>7 DEF SuspenseInv, Called
    <2>8. CASE outcome' = "throws"
      BY <1>1, <1>2, <2>1, <2>3, <2>4, <2>5, <2>8, TakenOff DEF SuspenseInv, Called
    <2>. QED BY <2>5, <2>6, <2>7, <2>8
  <1>3. CASE ~(alive /\ pendingTokens \subseteq {t.resource})
    <2>1. UNCHANGED <<resources, promises, shouldShowFallback, resolvedChildren, outcome>>
      BY <1>3 DEF Bounds!Resolved, Bounds!content
    <2>2. /\ reactions' = reactions \ {t} /\ isPending' = isPending
          /\ IF alive
             THEN /\ pendingTokens' = pendingTokens \ {t.resource}
                  /\ pendingResources' = [pendingResources EXCEPT ![t.resource] = 0]
             ELSE pendingTokens' = pendingTokens /\ pendingResources' = Bounds!Removed(t)
      BY <1>1, <1>3, TakenOff DEF Bounds!Resolved, Bounds!Becomes
    <2>3. t \in Awaiting
      BY <1>1, TakenOff
    <2>4. Bounds!SuspenseTyped' /\ (Bounds!NothingFailed' <=> Bounds!NothingFailed)
      <3>1. pendingResources' \in [Resource -> 0..Len(promises)]
        BY <1>1, <2>2, TakenOff
      <3>. QED BY <1>1, <2>1, <2>2, <3>1 DEF Bounds!SuspenseTyped, Bounds!NothingFailed
    <2>5. ~alive => pendingResources' = [r \in Resource |-> 0]
      BY <2>2, <2>3, <2>4 DEF SuspenseInv, Bounds!Removed, Bounds!SuspenseTyped
    <2>6. alive => \E r \in pendingTokens' : \E u \in reactions' : u.resource = r
      BY <1>3, <2>2, OthersAwaited
    <2>7. \A r \in pendingTokens' : \E u \in reactions' : u.resource = r
      BY <2>2, OthersAwaited DEF SuspenseInv
    <2>. QED BY <1>1, <2>1, <2>2, <2>4, <2>5, <2>6, <2>7 DEF SuspenseInv
  <1>. QED BY <1>2, <1>3

\* What a failure brings about: first that it was caught, then the end of the fallback.
LEMMA FailedStep ==
    ASSUME SuspenseInv, NEW t \in reactions, Bounds!Rejected(t) \/ Bounds!Settled(t)
    PROVE  SuspenseInv'
  <1>1. /\ UNCHANGED <<wanted, switched, resources, refetched, promises, listening, alive,
                       resolvedChildren, outcome>>
        /\ Bounds!SuspenseTyped
    BY DEF SuspenseInv, Bounds!Rejected, Bounds!Settled, Bounds!application, Bounds!content
  <1>2. t \in Awaiting
    BY <1>1, TakenOff
  <1>3. Bounds!NothingFailed' <=> Bounds!NothingFailed
    BY <1>1 DEF Bounds!NothingFailed
  <1>4. CASE Bounds!Rejected(t)
    <2>1. /\ reactions' = (reactions \ {t}) \cup {Bounds!Caught(t)}
          /\ pendingTokens' = pendingTokens /\ pendingResources' = Bounds!Removed(t)
          /\ isPending' = isPending /\ UNCHANGED shouldShowFallback
      <3>1. Bounds!Becomes(Also(Bounds!Unsaid(t), Bounds!Caught(t))) /\ UNCHANGED shouldShowFallback
        BY <1>4 DEF Bounds!Rejected, Bounds!content, Also
      <3>2. Bounds!Unsaid(t) \in Standings /\ Bounds!Caught(t) \in Awaiting
        BY <1>1, TakenOff
      <3>3. /\ Also(Bounds!Unsaid(t), Bounds!Caught(t)).tokens = Bounds!Unsaid(t).tokens
            /\ Also(Bounds!Unsaid(t), Bounds!Caught(t)).registered = Bounds!Unsaid(t).registered
            /\ Also(Bounds!Unsaid(t), Bounds!Caught(t)).awaited
                   = Bounds!Unsaid(t).awaited \cup {Bounds!Caught(t)}
            /\ Also(Bounds!Unsaid(t), Bounds!Caught(t)).pending = Bounds!Unsaid(t).pending
        BY <3>2, StandingChanged
      <3>. QED BY <1>1, <3>1, <3>3, TakenOff DEF Bounds!Becomes
    <2>2. ~Bounds!NothingFailed
      BY <1>1, <1>2, <1>4 DEF Bounds!Rejected, Bounds!Awaits, Bounds!NothingFailed,
                              Bounds!SuspenseTyped, Awaiting
    <2>3. Bounds!SuspenseTyped'
      <3>1. pendingResources' \in [Resource -> 0..Len(promises)] /\ reactions' \subseteq Awaiting
        <4>1. Bounds!Removed(t) \in [Resource -> 0..Len(promises)]
          BY <1>1, TakenOff
        <4>2. reactions \subseteq Awaiting /\ Bounds!Caught(t) \in Awaiting
          BY <1>1, TakenOff
        <4>. QED BY <2>1, <4>1, <4>2
      <3>. QED BY <1>1, <2>1, <3>1 DEF Bounds!SuspenseTyped, Awaiting
    <2>4. ~alive => pendingResources' = [r \in Resource |-> 0]
      BY <1>2, <2>1, <2>3 DEF SuspenseInv, Bounds!Removed, Bounds!SuspenseTyped
    <2>5. \A r \in pendingTokens : \E u \in reactions' : u.resource = r
      <3>1. Bounds!Caught(t) \in reactions' /\ Bounds!Caught(t).resource = t.resource
        BY <1>1, <2>1, TakenOff
      <3>2. \A u \in reactions : u = t \/ u \in reactions'
        BY <2>1
      <3>. QED BY <3>1, <3>2 DEF SuspenseInv
    <2>. QED BY <1>1, <1>3, <2>1, <2>2, <2>3, <2>4, <2>5, TakenOff DEF SuspenseInv
  <1>5. CASE Bounds!Settled(t)
    <2>1. t.caught /\ ~Bounds!NothingFailed
      BY <1>5 DEF Bounds!Settled, SuspenseInv
    <2>2. /\ reactions' = reactions \ {t}
          /\ IF alive
             THEN /\ pendingTokens' = pendingTokens \ {t.resource}
                  /\ pendingResources' = [pendingResources EXCEPT ![t.resource] = 0]
             ELSE pendingTokens' = pendingTokens /\ pendingResources' = Bounds!Removed(t)
          /\ IF alive /\ pendingTokens \subseteq {t.resource}
             THEN shouldShowFallback' = FALSE /\ isPending' = FALSE
             ELSE UNCHANGED shouldShowFallback /\ isPending' = isPending
      <3>1. CASE alive /\ pendingTokens \subseteq {t.resource}
        <4>1. Bounds!Becomes(Idle(Bounds!Without(t))) /\ shouldShowFallback' = FALSE
          BY <1>5, <3>1 DEF Bounds!Settled, Idle
        <4>. QED BY <1>1, <3>1, <4>1, TakenOff, StandingChanged DEF Bounds!Becomes
      <3>2. CASE ~(alive /\ pendingTokens \subseteq {t.resource})
        BY <1>1, <1>5, <3>2, TakenOff DEF Bounds!Settled, Bounds!Becomes
      <3>. QED BY <3>1, <3>2
    <2>3. Bounds!SuspenseTyped'
      <3>1. pendingResources' \in [Resource -> 0..Len(promises)]
        BY <1>1, <2>2, TakenOff
      <3>. QED BY <1>1, <2>2, <3>1 DEF Bounds!SuspenseTyped
    <2>4. ~alive => pendingResources' = [r \in Resource |-> 0]
      BY <1>2, <2>2, <2>3 DEF SuspenseInv, Bounds!Removed, Bounds!SuspenseTyped
    <2>5. \A r \in pendingTokens' : \E u \in reactions' : u.resource = r
      BY <2>2, OthersAwaited DEF SuspenseInv
    <2>6. alive /\ shouldShowFallback' => \E r \in pendingTokens' : TRUE
      BY <2>2
    <2>. QED BY <1>1, <1>3, <2>1, <2>2, <2>3, <2>4, <2>5, <2>6 DEF SuspenseInv
  <1>. QED BY <1>4, <1>5

\* What the application does to its resources, and the end of the component.
LEMMA OutsideStep ==
    ASSUME SuspenseInv,
           \/ Bounds!SuspenseUnmount
           \/ \E r \in Resource : Bounds!Refetch(r)
           \/ \E p \in DOMAIN promises, how \in {"kept", "broken"} : Bounds!PromiseSettles(p, how)
    PROVE  SuspenseInv'
  <1>. USE SuspenseConstants
  <1>1. promises \in Seq({"pending", "kept", "broken"}) /\ Bounds!SuspenseTyped
    BY DEF SuspenseInv, Bounds!SuspenseTyped
  <1>2. CASE Bounds!SuspenseUnmount
    <2>1. /\ outcome # "none" /\ alive' = FALSE /\ listening' = FALSE
          /\ pendingTokens' = {} /\ pendingResources' = [r \in Resource |-> 0]
          /\ UNCHANGED <<wanted, switched, resources, refetched, promises, reactions, isPending,
                         shouldShowFallback, resolvedChildren, outcome>>
      BY <1>2 DEF Bounds!SuspenseUnmount, Bounds!application, Bounds!content
    <2>2. pendingResources' \in [Resource -> 0..Len(promises)]
      BY <1>1, <2>1
    <2>3. Bounds!SuspenseTyped'
      BY <1>1, <2>1, <2>2 DEF Bounds!SuspenseTyped
    <2>. QED BY <2>1, <2>3 DEF SuspenseInv, Bounds!NothingFailed
  <1>3. ASSUME NEW r \in Resource, Bounds!Refetch(r) PROVE SuspenseInv'
    <2>1. /\ promises' \in Seq({"pending", "kept", "broken"})
          /\ Len(promises') = Len(promises) + 1 /\ Len(promises) \in Nat
          /\ Bounds!NothingFailed' => Bounds!NothingFailed
      BY <1>1, <1>3 DEF Bounds!Refetch, Bounds!NothingFailed
    <2>2. /\ resources' \in [Resource -> 0..Len(promises')]
          /\ pendingResources \in [Resource -> 0..Len(promises')]
          /\ refetched' \in 0..MaxRefetches
      BY <1>1, <1>3, <2>1 DEF Bounds!Refetch, Bounds!SuspenseTyped
    <2>3. UNCHANGED <<wanted, switched, listening, alive, pendingTokens, pendingResources, reactions,
                      isPending, shouldShowFallback, resolvedChildren, outcome>>
      BY <1>3 DEF Bounds!Refetch, Bounds!boundary, Bounds!content
    <2>4. Bounds!SuspenseTyped'
      BY <1>1, <2>1, <2>2, <2>3 DEF Bounds!SuspenseTyped
    <2>. QED BY <2>1, <2>3, <2>4 DEF SuspenseInv
  <1>4. ASSUME NEW p \in DOMAIN promises, NEW how \in {"kept", "broken"},
               Bounds!PromiseSettles(p, how)
        PROVE  SuspenseInv'
    <2>1. promises[p] = "pending" /\ promises' = [promises EXCEPT ![p] = how]
      BY <1>4 DEF Bounds!PromiseSettles
    <2>2. /\ promises' \in Seq({"pending", "kept", "broken"}) /\ Len(promises') = Len(promises)
          /\ Bounds!NothingFailed' => Bounds!NothingFailed
      BY <1>1, <2>1 DEF Bounds!NothingFailed
    <2>3. UNCHANGED <<wanted, switched, resources, refetched, listening, alive, pendingTokens,
                      pendingResources, reactions, isPending, shouldShowFallback, resolvedChildren,
                      outcome>>
      BY <1>4 DEF Bounds!PromiseSettles, Bounds!boundary, Bounds!content
    <2>4. Bounds!SuspenseTyped'
      BY <1>1, <2>2, <2>3 DEF Bounds!SuspenseTyped
    <2>. QED BY <2>2, <2>3, <2>4 DEF SuspenseInv
  <1>. QED BY <1>2, <1>3, <1>4

LEMMA SuspenseStep == ASSUME SuspenseInv, [Bounds!SuspenseNext]_suspending PROVE SuspenseInv'
  <1>1. CASE UNCHANGED suspending
    BY <1>1 DEF SuspenseInv, suspending, Bounds!SuspenseTyped, Bounds!NothingFailed
  <1>2. CASE Bounds!SuspenseNext
    BY <1>2, EffectRunStep, ResolvedStep, FailedStep, OutsideStep DEF Bounds!SuspenseNext
  <1>. QED BY <1>1, <1>2

LEMMA SuspenseInvTells == SuspenseInv => Bounds!SuspenseTyped /\ Bounds!SuspenseShows
  <1>. SUFFICES ASSUME SuspenseInv PROVE Bounds!SuspenseTyped /\ Bounds!SuspenseShows
    OBVIOUS
  <1>1. ~alive => \A r \in Resource : pendingResources[r] = 0
    BY DEF SuspenseInv
  <1>. QED BY <1>1 DEF SuspenseInv, Bounds!SuspenseShows

----------------------------------------------------------------------------
\* Error boundaries, however deep, with whatever children and callbacks: a boundary around
\* what is mounted has rendered it and is not disposed of, so that the error it captures
\* is still to be told to it, and it will show it.

Entry ==
    [do : {"run"}, node : Bounds!Boundary, mount : Nat]
    \cup [do : {"notify"}, node : Bounds!Boundary, mount : {0}]
    \cup [do : {"flush"}, node : {0}, mount : {0}]

In(e, q) == \E i \in 1..Len(q) : q[i] = e
Coming(e) == In(e, queued)
Rendered(n) == <<n, mounted[n]>> \in live
Hearing == scheduled \ disposed

BoundsTypes ==
    /\ {onErrorThrows, fallbackThrows, error, scheduled, disposed, offered}
           \subseteq SUBSET Bounds!Boundary
    /\ broken \subseteq Bounds!Kid /\ up \subseteq Bounds!Node
    /\ mounted \in [Bounds!Node -> Nat] /\ live \subseteq Bounds!Node \X Nat
    /\ shown \in [Bounds!Node -> {"nothing", "children", "fallback", "value", "diagnostic"}]
    /\ pending \in Seq(Bounds!Kid \X Nat) /\ queued \in Seq(Entry)

\* Effects run of what is mounted, or are about to.
RenderingInv ==
    /\ Bounds!NothingLeft
    /\ \A n \in up :
          \/ Rendered(n)
          \/ n \in Bounds!Boundary /\ Coming(Bounds!Run(n, mounted[n]))
          \/ In(<<n, mounted[n]>>, pending)
    /\ pending # << >> => Coming(Bounds!Flush)

\* The boundaries around what is mounted.
AroundInv ==
    \A n \in up, c \in Bounds!Boundary :
        c < n => c \in up /\ Rendered(c) /\ c \notin disposed /\ (c \in error => c \in scheduled)

\* What a boundary and a dynamic value show when all errors have been told.
Showing(b) ==
    \/ shown[b] = IF b \in disposed THEN "nothing"
                  ELSE IF b \notin error THEN "children"
                  ELSE IF b \in fallbackThrows THEN "diagnostic" ELSE "fallback"
    \/ shown[b] = "diagnostic" /\ 1..b \subseteq onErrorThrows
Valued(k) ==
    IF k \in broken \ Components
    THEN shown[k] = "diagnostic" /\ Bounds!Boundary \subseteq onErrorThrows
    ELSE shown[k] = "value"

\* Until then somebody around them is still to be told.
ShowingInv ==
    /\ \A c \in Hearing : Coming(Bounds!Notify(c))
    /\ \A b \in up \cap Bounds!Boundary : Rendered(b) => Showing(b) \/ \E c \in Hearing : c <= b
    /\ \A k \in up \cap Bounds!Kid : Rendered(k) => Valued(k) \/ Hearing # {}

BoundsInv == BoundsTypes /\ RenderingInv /\ AroundInv /\ ShowingInv


\* What a longer queue holds.
LEMMA InEither ==
    ASSUME NEW S, NEW q \in Seq(S), NEW r \in Seq(S), NEW e
    PROVE  q \o r \in Seq(S) /\ (In(e, q) \/ In(e, r) => In(e, q \o r))
  <1>1. /\ q \o r \in Seq(S) /\ Len(q \o r) = Len(q) + Len(r)
        /\ \A i \in 1..(Len(q) + Len(r)) :
              (q \o r)[i] = IF i <= Len(q) THEN q[i] ELSE r[i - Len(q)]
    BY ConcatProperties
  <1>2. Len(q) \in Nat /\ Len(r) \in Nat
    BY LenProperties
  <1>3. ASSUME NEW i \in 1..Len(q), q[i] = e PROVE In(e, q \o r)
    <2>1. i \in 1..(Len(q) + Len(r)) /\ (q \o r)[i] = e
      BY <1>1, <1>2, <1>3
    <2>. QED BY <2>1, <1>1 DEF In
  <1>4. ASSUME NEW i \in 1..Len(r), r[i] = e PROVE In(e, q \o r)
    <2>0. Len(q) + i \in 1..(Len(q) + Len(r)) /\ ~(Len(q) + i <= Len(q)) /\ Len(q) + i - Len(q) = i
      BY <1>2
    <2>1. (q \o r)[Len(q) + i] = e
      BY <1>1, <1>4, <2>0
    <2>. QED BY <2>0, <2>1, <1>1 DEF In
  <1>. QED BY <1>1, <1>3, <1>4 DEF In

\* What is taken from a queue, and what stays.
LEMMA InTail ==
    ASSUME NEW S, NEW q \in Seq(S), q # << >>
    PROVE  /\ Head(q) \in S /\ Tail(q) \in Seq(S)
           /\ \A e : In(e, q) /\ e # Head(q) => In(e, Tail(q))
  <1>1. /\ Head(q) \in S /\ Tail(q) \in Seq(S) /\ Len(Tail(q)) = Len(q) - 1
        /\ \A i \in 1..Len(Tail(q)) : Tail(q)[i] = q[i + 1]
    BY HeadTailProperties
  <1>2. Len(q) \in Nat /\ Head(q) = q[1]
    BY LenProperties
  <1>3. ASSUME NEW e, NEW i \in 1..Len(q), q[i] = e, e # Head(q) PROVE In(e, Tail(q))
    <2>1. i - 1 \in 1..Len(Tail(q)) /\ (i - 1) + 1 = i
      BY <1>1, <1>2, <1>3
    <2>2. Tail(q)[i - 1] = e
      BY <1>1, <1>3, <2>1
    <2>. QED BY <2>1, <2>2 DEF In
  <1>. QED BY <1>1, <1>3 DEF In

\* The cardinality of the model is that of the theorems.
LEMMA Counts == \A S : Bounds!Cardinality(S) = Cardinality(S)
  BY DEF Bounds!Cardinality, Cardinality

\* The place of a number among those of a set, the largest first.
Rank(S, c) == Bounds!Cardinality({d \in S : d >= c})

\* Every place is taken, and by one number.
LEMMA Ranks ==
    ASSUME NEW S \in SUBSET Int, IsFiniteSet(S)
    PROVE  /\ Cardinality(S) \in Nat
           /\ \A c \in S : Rank(S, c) \in 1..Cardinality(S)
           /\ \A c, d \in S : Rank(S, c) = Rank(S, d) => c = d
           /\ \A i \in 1..Cardinality(S) : \E c \in S : Rank(S, c) = i
  <1>0. Cardinality(S) \in Nat
    BY FS_CardinalityType
  <1>1. ASSUME NEW c \in S PROVE Rank(S, c) \in 1..Cardinality(S)
    <2> DEFINE T == {d \in S : d >= c}
    <2>1. T \in SUBSET S /\ c \in T
      OBVIOUS
    <2>2. IsFiniteSet(T) /\ Cardinality(T) <= Cardinality(S)
      BY <2>1, FS_Subset
    <2>3. Cardinality(T) \in Nat /\ Cardinality(T) # 0
      BY <2>1, <2>2, FS_CardinalityType, FS_EmptySet
    <2>. QED BY <1>0, <2>2, <2>3, Counts DEF Rank
  <1>2. ASSUME NEW c \in S, NEW d \in S, c < d PROVE Rank(S, c) # Rank(S, d)
    <2> DEFINE T == {e \in S : e >= c}  U == {e \in S : e >= d}
    <2>0. c \in Int /\ d \in Int /\ \A e \in S : e \in Int
      OBVIOUS
    <2>1. T \in SUBSET S /\ U \subseteq T /\ c \in T /\ c \notin U
      <3>1. \A e \in Int : e >= d => e >= c
        BY <1>2, <2>0
      <3>2. c >= c /\ ~(c >= d)
        BY <1>2, <2>0
      <3>. QED BY <2>0, <3>1, <3>2
    <2>2. IsFiniteSet(T)
      BY <2>1, FS_Subset
    <2>3. Cardinality(T) = Cardinality(U) => T = U
      BY <2>1, <2>2, FS_Subset
    <2>. QED BY <2>1, <2>3, Counts DEF Rank
  <1>3. \A c, d \in S : Rank(S, c) = Rank(S, d) => c = d
    <2> SUFFICES ASSUME NEW c \in S, NEW d \in S, c # d PROVE Rank(S, c) # Rank(S, d)
      OBVIOUS
    <2>1. c < d \/ d < c
      OBVIOUS
    <2>. QED BY <2>1, <1>2
  <1> DEFINE f == [c \in S |-> Rank(S, c)]  T == 1..Cardinality(S)
  <1>4. f \in Injection(S, T)
    BY <1>1, <1>3 DEF Injection, IsInjective
  <1>5. IsFiniteSet(T) /\ Cardinality(T) = Cardinality(S)
    BY <1>0, FS_Interval
  <1>6. f \in Surjection(S, T)
    BY <1>4, <1>5, FS_Injection
  <1>7. \A i \in T : \E c \in S : f[c] = i
    BY <1>6 DEF Surjection
  <1>. QED BY <1>0, <1>1, <1>3, <1>7

----------------------------------------------------------------------------
\* The pieces an operation of a boundary is made of.

LEMMA BoundConstants == Depth \in Nat \ {0} /\ Kids \in Nat /\ Components \subseteq Bounds!Kid
  BY BoundariesKnown DEF Bounds!BoundariesAssumption

\* Errors go to boundaries that are ready, and to one of them if there is one.
LEMMA Captured ==
    ASSUME NEW b \in Int, NEW failed, NEW n \in Nat
    PROVE  LET ready == (1..b) \ (failed \cup onErrorThrows)
               taken == Bounds!captureRenderError(b, failed, n)
           IN  /\ taken \subseteq ready
               /\ n = 0 => taken = {}
               /\ n # 0 /\ taken = {} => ready = {}
  <1> DEFINE ready == (1..b) \ (failed \cup onErrorThrows)
             taken == {c \in ready : Rank(ready, c) <= n}
  <1>1. Bounds!captureRenderError(b, failed, n) = taken
    BY DEF Bounds!captureRenderError, Rank
  <1>2. ready \in SUBSET Int /\ ready \in SUBSET (1..b)
    OBVIOUS
  <1>3. IsFiniteSet(ready)
    <2>1. IsFiniteSet(1..b)
      BY FS_Interval
    <2> HIDE DEF ready
    <2>. QED BY <1>2, <2>1, FS_Subset
  <1>4. /\ Cardinality(ready) \in Nat
        /\ \A c \in ready : Rank(ready, c) \in 1..Cardinality(ready)
        /\ \A i \in 1..Cardinality(ready) : \E c \in ready : Rank(ready, c) = i
    BY <1>2, <1>3, Ranks
  <1>5. ready = {} \/ 1 \in 1..Cardinality(ready)
    BY <1>3, <1>4, FS_EmptySet
  <1> HIDE DEF ready
  <1>. QED BY <1>1, <1>4, <1>5 DEF ready

\* Whoever has no notification coming is notified.
LEMMA Telling ==
    ASSUME NEW told \in SUBSET Bounds!Boundary, NEW due
    PROVE  /\ Bounds!setError(told, due) \in Seq(Entry)
           /\ \A c \in told \ due : In(Bounds!Notify(c), Bounds!setError(told, due))
  <1> DEFINE S == told \ due
             s == [i \in 1..Bounds!Cardinality(S) |-> Bounds!Notify(CHOOSE c \in S : Rank(S, c) = i)]
  <1>1. Bounds!setError(told, due) = s
    BY DEF Bounds!setError, Rank
  <1>2. S \in SUBSET Bounds!Boundary /\ S \in SUBSET Int
    <2>1. \A c \in Bounds!Boundary : c \in Int
      BY BoundConstants DEF Bounds!Boundary
    <2>2. S \subseteq Bounds!Boundary
      OBVIOUS
    <2> HIDE DEF S
    <2>. QED BY <2>1, <2>2
  <1>3. IsFiniteSet(S)
    <2>1. IsFiniteSet(Bounds!Boundary)
      BY BoundConstants, FS_Interval DEF Bounds!Boundary
    <2> HIDE DEF S
    <2>. QED BY <1>2, <2>1, FS_Subset
  <1>0. Bounds!Cardinality(S) = Cardinality(S)
    BY Counts
  <1>4. /\ Cardinality(S) \in Nat
        /\ \A c \in S : Rank(S, c) \in 1..Cardinality(S)
        /\ \A c, d \in S : Rank(S, c) = Rank(S, d) => c = d
        /\ \A i \in 1..Cardinality(S) : \E c \in S : Rank(S, c) = i
    BY <1>2, <1>3, Ranks
  <1> DEFINE Placed(i) == CHOOSE c \in S : Rank(S, c) = i
  <1>5. \A i \in 1..Cardinality(S) : Placed(i) \in S /\ Rank(S, Placed(i)) = i
    BY <1>4
  <1>6. \A i \in 1..Cardinality(S) : Bounds!Notify(Placed(i)) \in Entry
    BY <1>2, <1>5 DEF Entry, Bounds!Notify
  <1> HIDE DEF S
  <1>7. s \in Seq(Entry)
    <2>1. s \in [1..Cardinality(S) -> Entry]
      BY <1>0, <1>6
    <2> HIDE DEF s
    <2>. QED BY <1>4, <2>1
  <1>8. ASSUME NEW c \in S PROVE In(Bounds!Notify(c), s)
    <2>1. Rank(S, c) \in 1..Cardinality(S) /\ Placed(Rank(S, c)) = c
      BY <1>4, <1>5
    <2>2. Len(s) = Cardinality(S)
      BY <1>0, <1>4
    <2>3. s[Rank(S, c)] = Bounds!Notify(c)
      BY <1>0, <2>1
    <2>. QED BY <2>1, <2>2, <2>3 DEF In
  <1>. QED BY <1>1, <1>7, <1>8 DEF S

\* The first dynamic values of a pass, in a queue.
LEMMA Deferring ==
    ASSUME NEW children \in SUBSET Bounds!Kid, NEW number \in [Bounds!Node -> Nat]
    PROVE  LET d == [i \in 1..Bounds!Cardinality(children) |-> <<Depth + i, number[Depth + i]>>]
           IN  /\ d \in Seq(Bounds!Kid \X Nat)
               /\ children = Bounds!Kid => \A k \in Bounds!Kid : In(<<k, number[k]>>, d)
  <1> DEFINE d == [i \in 1..Bounds!Cardinality(children) |-> <<Depth + i, number[Depth + i]>>]
  <1>0. Bounds!Cardinality(children) = Cardinality(children)
    BY Counts
  <1>1. Depth \in Nat /\ Kids \in Nat /\ Depth + 1 \in Int /\ Depth + Kids \in Int
    BY BoundConstants
  <1>2. IsFiniteSet(Bounds!Kid) /\ Cardinality(Bounds!Kid) = Kids
    <2>1. IsFiniteSet((Depth + 1)..(Depth + Kids))
      BY <1>1, FS_Interval
    <2>2. Cardinality((Depth + 1)..(Depth + Kids))
             = IF Depth + 1 > Depth + Kids THEN 0 ELSE (Depth + Kids) - (Depth + 1) + 1
      BY <1>1, FS_Interval
    <2>. QED BY <1>1, <2>1, <2>2 DEF Bounds!Kid
  <1>3. Cardinality(children) \in Nat /\ Cardinality(children) <= Kids
    BY <1>2, FS_Subset, FS_CardinalityType
  <1>4. \A i \in 1..Cardinality(children) :
           Depth + i \in Bounds!Kid /\ Depth + i \in Bounds!Node
    BY <1>1, <1>3 DEF Bounds!Kid, Bounds!Node
  <1>5. \A i \in 1..Cardinality(children) : <<Depth + i, number[Depth + i]>> \in Bounds!Kid \X Nat
    BY <1>4
  <1>6. d \in Seq(Bounds!Kid \X Nat)
    BY <1>0, <1>3, <1>5, IsASeq
  <1>7. ASSUME children = Bounds!Kid, NEW k \in Bounds!Kid PROVE In(<<k, number[k]>>, d)
    <2>1. k - Depth \in 1..Cardinality(children) /\ Depth + (k - Depth) = k
      BY <1>1, <1>2, <1>7 DEF Bounds!Kid
    <2>2. Len(d) = Cardinality(children)
      BY <1>0, <1>3
    <2>3. d[k - Depth] = <<k, number[k]>>
      BY <1>0, <2>1
    <2>. QED BY <2>1, <2>2, <2>3 DEF In
  <1>. QED BY <1>6, <1>7

----------------------------------------------------------------------------
\* An operation of a list.

\* What a queue has to hold when b renders: the notifications due.
Answered(b, due, queue) ==
    /\ queue \in Seq(Entry)
    /\ \A c \in due \ disposed : In(Bounds!Notify(c), queue)
    /\ pending # << >> => In(Bounds!Flush, queue)

\* The pieces of an operation, and what they are to one another.
Piece(b, failed, due, queue, gone, kept, tries, failing, first, throws, second, children, number,
      told) ==
    /\ gone = {n \in up : n > b} /\ kept = failed \ gone
    /\ tries = (b \notin disposed \cup kept)
    /\ failing \in SUBSET Bounds!Kid /\ (failing # {} => tries /\ b = Depth)
    /\ first \subseteq (1..b) \ (kept \cup onErrorThrows)
    /\ failing = {} => first = {}
    /\ failing # {} /\ first = {} => 1..b \subseteq kept \cup onErrorThrows
    /\ throws = (b \in kept \cup first /\ b \in fallbackThrows)
    /\ second \subseteq 1..(b - 1) /\ (~throws => second = {})
    /\ children \subseteq Bounds!Node /\ \A n \in children : n > b
    /\ children # {} => tries
    /\ b < Depth => children \subseteq {b + 1}
    /\ b = Depth => children \subseteq Bounds!Kid
    /\ number = [n \in Bounds!Node |-> IF n \in children THEN mounted[n] + 1 ELSE mounted[n]]
    /\ told = (first \cup second) \ {b}

\* What comes of them.
Rendering(b, due, queue, gone, kept, failing, first, throws, second, children, number, told) ==
    /\ disposed' = disposed \cup (gone \cap Bounds!Boundary)
    /\ error' = kept \cup first \cup second
    /\ scheduled' = (due \ gone) \cup told
    /\ mounted' = number
    /\ up' = (up \ gone) \cup (IF failing = {} THEN children ELSE {})
    /\ live' = {x \in live : x[1] \notin gone} \cup {<<b, mounted[b]>>}
    /\ shown' = [n \in Bounds!Node |->
          IF n > b THEN "nothing" ELSE IF n < b THEN shown[n]
          ELSE IF b \in disposed \/ (told # {}) THEN "nothing"
          ELSE IF throws \/ (failing # {} /\ ~(b \in kept \cup first)) THEN "diagnostic"
          ELSE IF b \in kept \cup first THEN "fallback" ELSE "children"]
    /\ offered' \subseteq offered \cup {b}
    /\ pending' \in Seq(Bounds!Kid \X Nat) /\ queued' \in Seq(Entry)
    /\ \A e : In(e, queue) => In(e, queued')
    /\ \A c \in told \ (due \ gone) : In(Bounds!Notify(c), queued')
    /\ b < Depth /\ children # {} => In(Bounds!Run(b + 1, number[b + 1]), queued')
    /\ failing = {} => \A k \in children \cap Bounds!Kid : In(<<k, number[k]>>, pending')
    /\ pending' # << >> => In(Bounds!Flush, queued')

LEMMA RenderIs ==
    ASSUME BoundsTypes, NEW b \in Bounds!Boundary, NEW failed \in SUBSET Bounds!Boundary,
           NEW due \in SUBSET Bounds!Boundary, NEW queue, Answered(b, due, queue),
           Bounds!Render(b, failed, due, queue)
    PROVE  \E gone, kept, tries, failing, first, throws, second, children, number, told :
              /\ Piece(b, failed, due, queue, gone, kept, tries, failing, first, throws, second,
                       children, number, told)
              /\ Rendering(b, due, queue, gone, kept, failing, first, throws, second, children,
                           number, told)
  <1> DEFINE
        gone == {n \in up : n > b}
        kept == failed \ gone
        tries == b \notin disposed \cup kept
        failing == IF tries /\ b = Depth THEN Components \cap broken ELSE {}
        first == Bounds!captureRenderError(b, kept, IF failing = {} THEN 0 ELSE 1)
        recovers == b \in kept \cup first
        throws == recovers /\ b \in fallbackThrows
        second == Bounds!captureRenderError(b - 1, kept \cup first, IF throws THEN 1 ELSE 0)
        children == IF ~tries THEN {} ELSE IF b < Depth THEN {b + 1}
                    ELSE {k \in Bounds!Kid : \A f \in failing : k < f}
        number == [n \in Bounds!Node |-> IF n \in children THEN mounted[n] + 1 ELSE mounted[n]]
        dynamic == children \cap Bounds!Kid
        deferred == [i \in 1..Bounds!Cardinality(dynamic) |-> <<Depth + i, number[Depth + i]>>]
        told == (first \cup second) \ {b}
        quiet == due \ gone
        runs0 == IF children \cap Bounds!Boundary = {} THEN << >>
                 ELSE <<Bounds!Run(b + 1, number[b + 1])>>
        flush == IF deferred = << >> \/ Bounds!Contains(queue, Bounds!Flush) THEN << >>
                 ELSE <<Bounds!Flush>>
        tells == Bounds!setError(told, quiet)
  <1>1. /\ disposed' = disposed \cup (gone \cap Bounds!Boundary)
        /\ error' = kept \cup first \cup second
        /\ scheduled' = quiet \cup told
        /\ mounted' = number
        /\ up' = (up \ gone) \cup (IF failing = {} THEN children ELSE {})
        /\ live' = {x \in live : x[1] \notin gone} \cup {<<b, mounted[b]>>}
        /\ shown' = [n \in Bounds!Node |->
              IF n > b THEN "nothing" ELSE IF n < b THEN shown[n]
              ELSE IF b \in disposed \/ (told # {}) THEN "nothing"
              ELSE IF throws \/ (failing # {} /\ ~recovers) THEN "diagnostic"
              ELSE IF recovers THEN "fallback" ELSE "children"]
        /\ offered' = offered \cup (IF recovers /\ ~throws THEN {b} ELSE {})
        /\ pending' = pending \o deferred
        /\ queued' = queue \o runs0 \o flush \o tells
    BY DEF Bounds!Render
  <1>2. b \in 1..Depth /\ b \in Int /\ b - 1 \in Int /\ Depth \in Nat /\ Kids \in Nat
    BY BoundConstants DEF Bounds!Boundary
  <1>3. /\ failing \in SUBSET Bounds!Kid /\ (failing # {} => tries /\ b = Depth)
    BY BoundConstants
  <1>4. /\ first \subseteq (1..b) \ (kept \cup onErrorThrows)
        /\ failing = {} => first = {}
        /\ failing # {} /\ first = {} => 1..b \subseteq kept \cup onErrorThrows
    <2> DEFINE n == IF failing = {} THEN 0 ELSE 1
    <2>1. n \in Nat /\ (n = 0 <=> failing = {})
      OBVIOUS
    <2> HIDE DEF n, kept, failing
    <2>2. /\ Bounds!captureRenderError(b, kept, n) \subseteq (1..b) \ (kept \cup onErrorThrows)
          /\ n = 0 => Bounds!captureRenderError(b, kept, n) = {}
          /\ n # 0 /\ Bounds!captureRenderError(b, kept, n) = {}
                => (1..b) \ (kept \cup onErrorThrows) = {}
      BY <1>2, <2>1, Captured
    <2>. QED BY <2>1, <2>2 DEF n
  <1>5. second \subseteq 1..(b - 1) /\ (~throws => second = {})
    <2> DEFINE n == IF throws THEN 1 ELSE 0  before == kept \cup first
    <2>1. n \in Nat /\ (~throws => n = 0)
      OBVIOUS
    <2> HIDE DEF n, before, throws
    <2>2. /\ Bounds!captureRenderError(b - 1, before, n)
                \subseteq (1..(b - 1)) \ (before \cup onErrorThrows)
          /\ n = 0 => Bounds!captureRenderError(b - 1, before, n) = {}
      BY <1>2, <2>1, Captured
    <2>. QED BY <2>1, <2>2 DEF n, before
  <1>6. /\ children \subseteq Bounds!Node /\ \A n \in children : n > b
        /\ children # {} => tries
        /\ b < Depth => children \subseteq {b + 1}
        /\ b = Depth => children \subseteq Bounds!Kid
        /\ b < Depth => children \cap Bounds!Kid = {}
        /\ b < Depth /\ children # {} => children \cap Bounds!Boundary # {}
        /\ b = Depth => children \cap Bounds!Boundary = {}
        /\ b = Depth /\ failing = {} /\ children # {} => children = Bounds!Kid
    <2>1. \A k \in Bounds!Kid : k \in Int /\ k > Depth
      BY <1>2 DEF Bounds!Kid
    <2>2. b < Depth => b + 1 \in Bounds!Boundary /\ b + 1 > b /\ b + 1 \notin Bounds!Kid
      BY <1>2 DEF Bounds!Boundary, Bounds!Kid
    <2>3. \A k \in Bounds!Kid : k \notin Bounds!Boundary
      BY <1>2 DEF Bounds!Kid, Bounds!Boundary
    <2>4. b < Depth \/ b = Depth
      BY <1>2
    <2>5. ~(b < Depth /\ b = Depth)
      BY <1>2
    <2> HIDE DEF tries, failing
    <2>. QED BY <1>2, <2>1, <2>2, <2>3, <2>4, <2>5 DEF Bounds!Node
  <1>7. number \in [Bounds!Node -> Nat]
    BY DEF BoundsTypes
  <1>8. /\ deferred \in Seq(Bounds!Kid \X Nat)
        /\ failing = {} => \A k \in dynamic : In(<<k, number[k]>>, deferred)
    <2>1. dynamic \in SUBSET Bounds!Kid
      OBVIOUS
    <2>2. failing = {} => dynamic = {} \/ dynamic = Bounds!Kid
      BY <1>2, <1>6
    <2> HIDE DEF dynamic, number, failing
    <2>3. /\ deferred \in Seq(Bounds!Kid \X Nat)
          /\ dynamic = Bounds!Kid => \A k \in Bounds!Kid : In(<<k, number[k]>>, deferred)
      BY <1>7, <2>1, Deferring
    <2>. QED BY <2>2, <2>3
  <1>9. pending \in Seq(Bounds!Kid \X Nat) /\ queue \in Seq(Entry)
    BY DEF BoundsTypes, Answered
  <1>10. /\ pending' \in Seq(Bounds!Kid \X Nat)
         /\ failing = {} => \A k \in dynamic : In(<<k, number[k]>>, pending')
    <2> HIDE DEF deferred, number, dynamic, failing
    <2>1. pending' = pending \o deferred
      BY <1>1
    <2>. QED BY <1>8, <1>9, <2>1, InEither
  <1>11. /\ tells \in Seq(Entry)
         /\ \A c \in told \ quiet : In(Bounds!Notify(c), tells)
    <2>1. told \subseteq Bounds!Boundary
      <3>1. 1..b \subseteq Bounds!Boundary /\ 1..(b - 1) \subseteq Bounds!Boundary
        BY <1>2 DEF Bounds!Boundary
      <3> HIDE DEF first, second, kept
      <3>. QED BY <1>4, <1>5, <3>1
    <2> HIDE DEF told, quiet
    <2>. QED BY <2>1, Telling
  <1>12. /\ runs0 \in Seq(Entry)
         /\ b < Depth /\ children # {} => In(Bounds!Run(b + 1, number[b + 1]), runs0)
    <2>1. CASE children \cap Bounds!Boundary = {}
      <3>1. runs0 = << >> /\ << >> \in Seq(Entry)
        BY <2>1
      <3>. QED BY <2>1, <3>1, <1>6
    <2>2. CASE children \cap Bounds!Boundary # {}
      <3>1. b < Depth /\ children = {b + 1}
        BY <1>2, <1>6, <2>2
      <3>2. b + 1 \in Bounds!Node /\ b + 1 \in Bounds!Boundary
        BY <1>6, <2>2, <3>1
      <3>3. number[b + 1] \in Nat
        BY <1>7, <3>2
      <3>4. Bounds!Run(b + 1, number[b + 1]) \in Entry
        BY <3>2, <3>3 DEF Entry, Bounds!Run
      <3>5. runs0 = <<Bounds!Run(b + 1, number[b + 1])>>
        BY <2>2
      <3> HIDE DEF runs0, number
      <3>. QED BY <3>4, <3>5 DEF In
    <2>. QED BY <2>1, <2>2
  <1>13. /\ flush \in Seq(Entry)
         /\ deferred # << >> => In(Bounds!Flush, queue) \/ In(Bounds!Flush, flush)
    <2>1. Bounds!Contains(queue, Bounds!Flush) <=> In(Bounds!Flush, queue)
      BY DEF Bounds!Contains, In
    <2>2. Bounds!Flush \in Entry
      BY DEF Bounds!Flush, Entry
    <2>3. In(Bounds!Flush, <<Bounds!Flush>>)
      BY DEF In
    <2>4. <<Bounds!Flush>> \in Seq(Entry) /\ << >> \in Seq(Entry)
      BY <2>2
    <2> HIDE DEF deferred
    <2>. QED BY <2>1, <2>3, <2>4
  <1>14. /\ queued' \in Seq(Entry)
         /\ \A e : In(e, queue) \/ In(e, runs0) \/ In(e, flush) \/ In(e, tells) => In(e, queued')
    <2> HIDE DEF runs0, flush, tells
    <2>1. queued' = queue \o runs0 \o flush \o tells
      BY <1>1
    <2>2. queue \o runs0 \in Seq(Entry)
      BY <1>9, <1>12, InEither
    <2>3. queue \o runs0 \o flush \in Seq(Entry)
      BY <2>2, <1>13, InEither
    <2>. QED BY <1>9, <1>11, <1>12, <1>13, <2>1, <2>2, <2>3, InEither
  <1>15. pending' # << >> => In(Bounds!Flush, queued')
    <2> HIDE DEF deferred, flush, runs0, tells
    <2>1. pending' = pending \o deferred
      BY <1>1
    <2>2. pending = << >> /\ deferred = << >> => pending' = << >>
      BY <2>1
    <2>. QED BY <2>2, <1>13, <1>14 DEF Answered
  <1>16. Piece(b, failed, due, queue, gone, kept, tries, failing, first, throws, second,
               children, number, told)
    <2> HIDE DEF gone, kept, tries, failing, first, second, children
    <2>. QED BY <1>3, <1>4, <1>5, <1>6 DEF Piece, gone, kept, tries
  <1>17. Rendering(b, due, queue, gone, kept, failing, first, throws, second, children,
                   number, told)
    <2>1. offered' \subseteq offered \cup {b}
      BY <1>1
    <2>2. /\ \A e : In(e, queue) => In(e, queued')
          /\ \A c \in told \ quiet : In(Bounds!Notify(c), queued')
          /\ b < Depth /\ children # {} => In(Bounds!Run(b + 1, number[b + 1]), queued')
      <3> HIDE DEF runs0, flush, tells, told, quiet, children, number
      <3>. QED BY <1>11, <1>12, <1>14
    <2> HIDE DEF gone, kept, failing, first, throws, second, children, number, told, deferred,
                 runs0, flush, tells
    <2>. QED BY <1>1, <1>10, <1>14, <1>15, <2>1, <2>2 DEF Rendering
  <1> HIDE DEF gone, kept, tries, failing, first, throws, second, children, number, told
  <1>. QED BY <1>16, <1>17

\* Numbers of boundaries and of children.
LEMMA Places ==
    /\ \A n \in Bounds!Boundary : n \in Nat /\ n <= Depth /\ n \in Bounds!Node /\ n \notin Bounds!Kid
    /\ \A k \in Bounds!Kid : k \in Nat /\ k > Depth /\ k \in Bounds!Node /\ k \notin Bounds!Boundary
    /\ \A n \in Bounds!Node : n \in Bounds!Boundary \/ n \in Bounds!Kid
    /\ \A n \in Bounds!Boundary : \A c \in 1..n : c \in Bounds!Boundary
  BY BoundConstants DEF Bounds!Boundary, Bounds!Kid, Bounds!Node

\* After an operation the boundary that renders stands, with its children, and all around it.
LEMMA RenderKeeps ==
    ASSUME BoundsInv, NEW b \in up \cap Bounds!Boundary,
           NEW failed \in SUBSET error, error \ {b} \subseteq failed,
           NEW due \in SUBSET scheduled, scheduled \ {b} \subseteq due,
           NEW queue, Answered(b, due, queue), Bounds!Render(b, failed, due, queue),
           UNCHANGED <<onErrorThrows, fallbackThrows, broken>>
    PROVE  BoundsInv'
  <1>0. /\ BoundsTypes /\ RenderingInv /\ AroundInv /\ ShowingInv
        /\ error \subseteq Bounds!Boundary /\ scheduled \subseteq Bounds!Boundary
        /\ disposed \subseteq Bounds!Boundary /\ up \subseteq Bounds!Node
    BY DEF BoundsInv, BoundsTypes
  <1>1. PICK gone, kept, tries, failing, first, throws, second, children, number, told :
           /\ Piece(b, failed, due, queue, gone, kept, tries, failing, first, throws, second,
                    children, number, told)
           /\ Rendering(b, due, queue, gone, kept, failing, first, throws, second, children,
                        number, told)
    BY <1>0, RenderIs
  <1>2. b \in Nat /\ b \in 1..Depth /\ Depth \in Nat
    BY BoundConstants DEF Bounds!Boundary
  <1>3. \A n \in up : n \in Nat /\ (n \in gone <=> n > b)
    BY <1>0, <1>1, Places DEF Piece
  <1>4. /\ told \subseteq 1..(b - 1) /\ first \subseteq 1..b /\ second \subseteq 1..(b - 1)
        /\ \A c \in first \cup second : c = b \/ c \in told
        /\ told \subseteq Bounds!Boundary /\ first \cup second \subseteq Bounds!Boundary
    <2>1. first \subseteq 1..b /\ second \subseteq 1..(b - 1) /\ told = (first \cup second) \ {b}
      BY <1>1 DEF Piece
    <2>. QED BY <2>1, <1>2 DEF Bounds!Boundary
  <1>5. /\ \A n \in children : n \in Bounds!Node /\ n \in Nat /\ n > b
        /\ children # {} /\ failing = {} => b \notin disposed /\ b \notin error'
    <2>1. /\ children \subseteq Bounds!Node /\ \A n \in children : n > b
          /\ children # {} => tries /\ tries = (b \notin disposed \cup kept)
          /\ failing = {} => first = {}
          /\ throws = (b \in kept \cup first /\ b \in fallbackThrows)
          /\ ~throws => second = {}
          /\ error' = kept \cup first \cup second
      BY <1>1 DEF Piece, Rendering
    <2>. QED BY <2>1, Places
  <1>6. BoundsTypes'
    <2>1. number \in [Bounds!Node -> Nat]
      BY <1>0, <1>1 DEF Piece, BoundsTypes
    <2>2. live' \subseteq Bounds!Node \X Nat
      <3>1. <<b, mounted[b]>> \in Bounds!Node \X Nat
        BY <1>0, Places DEF BoundsTypes
      <3>. QED BY <1>0, <1>1, <3>1 DEF Rendering, BoundsTypes
    <2>3. up' \subseteq Bounds!Node
      BY <1>0, <1>1, <1>5 DEF Rendering
    <2>4. /\ error' \subseteq Bounds!Boundary /\ scheduled' \subseteq Bounds!Boundary
          /\ disposed' \subseteq Bounds!Boundary /\ offered' \subseteq Bounds!Boundary
      BY <1>0, <1>1, <1>4 DEF Piece, Rendering, BoundsTypes
    <2>5. shown' \in [Bounds!Node -> {"nothing", "children", "fallback", "value", "diagnostic"}]
      BY <1>0, <1>1 DEF Rendering, BoundsTypes
    <2>6. mounted' = number /\ pending' \in Seq(Bounds!Kid \X Nat) /\ queued' \in Seq(Entry)
      BY <1>1 DEF Rendering
    <2>7. /\ onErrorThrows' \subseteq Bounds!Boundary /\ fallbackThrows' \subseteq Bounds!Boundary
          /\ broken' \subseteq Bounds!Kid
      BY <1>0 DEF BoundsTypes
    <2>. QED BY <2>1, <2>2, <2>3, <2>4, <2>5, <2>6, <2>7 DEF BoundsTypes
  \* What does not concern those around it.
  <1>7. \A n \in Bounds!Node : n <= b => mounted'[n] = mounted[n]
    BY <1>1, <1>2, <1>5 DEF Piece, Rendering
  <1>8. /\ b \in up' /\ Rendered(b)' /\ b \notin gone
        /\ (b \in disposed' <=> b \in disposed)
    <2>1. b \notin gone
      BY <1>2, <1>3
    <2>2. b \in up' /\ (b \in disposed' <=> b \in disposed) /\ <<b, mounted[b]>> \in live'
      BY <1>1, <2>1 DEF Rendering
    <2>. QED BY <2>1, <2>2, <1>2, <1>7, Places DEF Rendered
  <1>9. ASSUME NEW c \in Bounds!Boundary, c < b
        PROVE  /\ c \in up /\ Rendered(c) /\ c \notin disposed /\ (c \in error => c \in scheduled)
               /\ c \in up' /\ Rendered(c)' /\ c \notin disposed' /\ (c \in error' => c \in scheduled')
               /\ c \notin gone
    <2>1. c \in up /\ Rendered(c) /\ c \notin disposed /\ (c \in error => c \in scheduled)
      BY <1>0, <1>9 DEF AroundInv
    <2>2. c \in Nat /\ c \in Bounds!Node /\ c <= b /\ c # b
      BY <1>2, <1>9, Places
    <2>3. c \notin gone
      BY <1>2, <1>3, <1>9, <2>1, <2>2
    <2>4. c \in up' /\ c \notin disposed'
      BY <1>1, <2>1, <2>3 DEF Rendering
    <2>5. Rendered(c)'
      BY <1>1, <1>7, <2>1, <2>2, <2>3 DEF Rendering, Rendered
    <2>6. c \in error' => c \in scheduled'
      <3>1. c \in error' => c \in kept \/ c \in told
        BY <1>1, <1>4, <2>2 DEF Rendering
      <3>2. c \in kept => c \in due
        BY <1>1, <2>1, <2>2 DEF Piece
      <3>. QED BY <1>1, <2>3, <3>1, <3>2 DEF Rendering
    <2>. QED BY <2>1, <2>3, <2>4, <2>5, <2>6
  <1>10. \A n \in up' : n \in Bounds!Node /\ n \in Nat
    BY <1>6, Places DEF BoundsTypes
  <1>11. \A n \in up' : n > b => n \in children /\ failing = {}
    BY <1>1, <1>2, <1>3, <1>10 DEF Rendering
  \* No effect runs below it.
  <1>12. \A x \in live' : x[1] \in up' /\ x[1] <= b /\ x[2] = mounted'[x[1]]
    <2> SUFFICES ASSUME NEW x \in live' PROVE x[1] \in up' /\ x[1] <= b /\ x[2] = mounted'[x[1]]
      OBVIOUS
    <2>1. CASE x = <<b, mounted[b]>>
      BY <1>2, <1>7, <1>8, <2>1, Places
    <2>2. CASE x \in live /\ x[1] \notin gone
      <3>1. x[1] \in up /\ x[2] = mounted[x[1]]
        BY <1>0, <2>2 DEF RenderingInv, Bounds!NothingLeft
      <3>2. x[1] \in Bounds!Node /\ x[1] <= b
        <4>1. x[1] \in Nat /\ ~(x[1] > b) /\ x[1] \in Bounds!Node
          BY <1>0, <1>3, <2>2, <3>1
        <4>. QED BY <1>2, <4>1
      <3>. QED BY <1>1, <1>7, <2>2, <3>1, <3>2 DEF Rendering
    <2>. QED BY <1>1, <2>1, <2>2 DEF Rendering
  <1>13. \A n \in Bounds!Node : Rendered(n)' => n <= b
    BY <1>12 DEF Rendered
  <1>14. RenderingInv'
    <2>1. Bounds!NothingLeft'
      BY <1>12 DEF Bounds!NothingLeft
    <2>2. pending' # << >> => Coming(Bounds!Flush)'
      BY <1>1 DEF Rendering, Coming
    <2>3. ASSUME NEW n \in up'
          PROVE  \/ Rendered(n)'
                 \/ n \in Bounds!Boundary /\ Coming(Bounds!Run(n, mounted[n]))'
                 \/ In(<<n, mounted[n]>>, pending)'
      <3>1. CASE n <= b
        <4>1. n \in 1..b
          BY <1>2, <1>10, <3>1, <2>3, BoundConstants DEF Bounds!Node, Bounds!Boundary, Bounds!Kid
        <4>2. n \in Bounds!Boundary
          BY <4>1, Places
        <4>. QED BY <1>2, <1>8, <1>9, <4>1, <4>2
      <3>2. CASE n > b
        <4>1. n \in children /\ failing = {}
          BY <1>11, <3>2
        <4>2. CASE b < Depth
          <5>1. n = b + 1 /\ children # {}
            BY <1>1, <4>1, <4>2 DEF Piece
          <5>2. In(Bounds!Run(b + 1, number[b + 1]), queued') /\ mounted' = number
            BY <1>1, <4>2, <5>1 DEF Rendering
          <5>3. n \in Bounds!Boundary
            BY <1>2, <4>2, <5>1 DEF Bounds!Boundary
          <5>4. Coming(Bounds!Run(n, mounted[n]))'
            BY <5>1, <5>2 DEF Coming, Bounds!Run
          <5>. QED BY <5>3, <5>4
        <4>3. CASE b = Depth
          <5>1. n \in Bounds!Kid
            BY <1>1, <4>1, <4>3 DEF Piece
          <5>2. In(<<n, number[n]>>, pending') /\ mounted' = number
            BY <1>1, <4>1, <5>1 DEF Rendering
          <5>. QED BY <5>2
        <4>. QED BY <1>2, <4>2, <4>3
      <3>. QED BY <1>2, <1>10, <3>1, <3>2
    <2>. QED BY <2>1, <2>2, <2>3 DEF RenderingInv
  <1>15. AroundInv'
    <2> SUFFICES ASSUME NEW n \in up', NEW c \in Bounds!Boundary, c < n
                 PROVE  /\ c \in up' /\ Rendered(c)' /\ c \notin disposed'
                        /\ (c \in error' => c \in scheduled')
      BY DEF AroundInv
    <2>1. CASE c < b
      BY <1>9, <2>1
    <2>2. CASE c = b
      <3>1. n \in children /\ failing = {}
        BY <1>11, <2>2
      <3>. QED BY <1>5, <1>8, <2>2, <3>1
    <2>3. CASE c > b
      <3>1. n \in children /\ n \in Nat /\ c \in Nat /\ c <= Depth
        BY <1>2, <1>10, <1>11, <2>3, Places
      <3>2. b < Depth => n = b + 1
        BY <1>1, <3>1 DEF Piece
      <3>. QED BY <1>2, <2>3, <3>1, <3>2
    <2>. QED BY <1>2, <2>1, <2>2, <2>3, Places
  <1>16. ShowingInv'
    <2>1. \A c \in Hearing' : Coming(Bounds!Notify(c))'
      <3> SUFFICES ASSUME NEW c \in Hearing' PROVE In(Bounds!Notify(c), queued')
        BY DEF Coming, Bounds!Notify
      <3>1. c \in scheduled' /\ c \notin disposed'
        BY DEF Hearing
      <3>2. CASE c \in due \ gone
        <4>1. c \in due \ disposed
          BY <1>1, <3>1, <3>2 DEF Rendering
        <4>. QED BY <1>1, <4>1 DEF Rendering, Answered
      <3>3. CASE c \in told \ (due \ gone)
        BY <1>1, <3>3 DEF Rendering
      <3>. QED BY <1>1, <3>1, <3>2, <3>3 DEF Rendering
    \* Who was still to be told around it still is.
    <2>2. \A c \in Hearing : c < b => c \in Hearing'
      <3> SUFFICES ASSUME NEW c \in Hearing, c < b PROVE c \in Hearing'
        OBVIOUS
      <3>1. c \in scheduled /\ c \in Bounds!Boundary /\ c # b
        BY <1>0, <1>2 DEF Hearing
      <3>2. c \in due \ gone /\ c \notin disposed'
        BY <1>9, <3>1
      <3>. QED BY <1>1, <3>2 DEF Rendering, Hearing
    <2>3. told \subseteq Hearing'
      <3>1. \A c \in told : c \in Bounds!Boundary /\ c < b
        BY <1>2, <1>4
      <3>2. \A c \in told : c \notin disposed'
        BY <1>9, <3>1
      <3>. QED BY <1>1, <3>2 DEF Rendering, Hearing
    <2>4. \A c \in Bounds!Boundary : c < b => (c \in error' <=> c \in error \/ c \in told)
      <3>1. \A c \in Bounds!Boundary : c < b => c \notin gone
        BY <1>9
      <3>2. \A c \in Bounds!Boundary : c < b => (c \in kept <=> c \in error)
        BY <1>1, <1>2, <3>1 DEF Piece
      <3>. QED BY <1>1, <1>2, <1>4, <3>2 DEF Rendering, Piece
    <2>5. ASSUME NEW n \in Bounds!Boundary, n < b
          PROVE  Showing(n)' \/ \E c \in Hearing' : c <= n
      <3>1. n \in up /\ Rendered(n) /\ n \notin disposed /\ n \notin disposed'
        BY <1>9, <2>5
      <3>2. Showing(n) \/ \E c \in Hearing : c <= n
        BY <1>0, <3>1 DEF ShowingInv
      <3>3. CASE \E c \in Hearing : c <= n
        <4>1. PICK c \in Hearing : c <= n
          BY <3>3
        <4>2. c \in Nat /\ n \in Nat
          BY <1>0, Places DEF Hearing
        <4>3. c \in Hearing'
          BY <1>2, <2>2, <2>5, <4>1, <4>2
        <4>. QED BY <4>1, <4>3
      <3>4. CASE n \in told
        BY <2>3, <3>4, Places
      <3>5. CASE Showing(n) /\ n \notin told
        <4>1. n \in error' <=> n \in error
          BY <2>4, <2>5, <3>5
        <4>2. shown'[n] = shown[n]
          <5>1. n \in Bounds!Node /\ n \in Nat /\ ~(n > b)
            BY <1>2, <2>5, Places
          <5>. QED BY <1>1, <2>5, <5>1 DEF Rendering
        <4>. QED BY <3>1, <3>5, <4>1, <4>2 DEF Showing
      <3>. QED BY <3>2, <3>3, <3>4, <3>5
    <2>6. Showing(b)' \/ \E c \in Hearing' : c <= b
      <3>1. shown'[b] =
               IF b \in disposed \/ (told # {}) THEN "nothing"
               ELSE IF throws \/ (failing # {} /\ ~(b \in kept \cup first)) THEN "diagnostic"
               ELSE IF b \in kept \cup first THEN "fallback" ELSE "children"
        BY <1>1, <1>2, Places DEF Rendering
      <3>2. b \in error' <=> b \in kept \cup first
        BY <1>1, <1>2, <1>4 DEF Rendering
      <3>3. CASE b \in disposed
        BY <1>8, <3>1, <3>3 DEF Showing
      <3>4. CASE told # {}
        <4>1. PICK c \in told : TRUE
          BY <3>4
        <4>2. c \in Hearing' /\ c <= b
          BY <1>2, <1>4, <2>3
        <4>. QED BY <4>2
      <3>5. CASE b \notin disposed /\ told = {} /\ (b \in kept \cup first \/ failing = {})
        <4>1. throws = (b \in kept \cup first /\ b \in fallbackThrows)
          BY <1>1 DEF Piece
        <4>2. b \notin disposed'
          BY <1>8, <3>5
        <4>. QED BY <3>1, <3>2, <3>5, <4>1, <4>2 DEF Showing
      <3>6. CASE b \notin disposed /\ told = {} /\ b \notin kept \cup first /\ failing # {}
        <4>1. shown'[b] = "diagnostic"
          BY <3>1, <3>6
        <4>2. first = {}
          BY <1>4, <3>6
        <4>3. 1..b \subseteq kept \cup onErrorThrows
          BY <1>1, <3>6, <4>2 DEF Piece
        <4>4. CASE 1..b \subseteq onErrorThrows
          BY <4>1, <4>4 DEF Showing
        <4>5. CASE ~(1..b \subseteq onErrorThrows)
          <5>1. PICK c \in 1..b : c \notin onErrorThrows
            BY <4>5
          <5>2. c \in kept /\ c # b
            BY <3>6, <4>3, <5>1
          <5>3. c \in error /\ c < b /\ c \in Bounds!Boundary
            BY <1>1, <1>2, <5>1, <5>2, Places DEF Piece
          <5>4. c \in Hearing
            BY <1>9, <5>3 DEF Hearing
          <5>. QED BY <1>2, <2>2, <5>1, <5>3, <5>4
        <4>. QED BY <4>4, <4>5
      <3>. QED BY <3>3, <3>4, <3>5, <3>6
    <2>7. \A k \in Bounds!Kid : ~Rendered(k)'
      BY <1>2, <1>13, Places
    <2>8. \A n \in Bounds!Boundary : Rendered(n)' => n < b \/ n = b
      BY <1>2, <1>13, Places
    <2>. QED BY <2>1, <2>5, <2>6, <2>7, <2>8 DEF ShowingInv
  <1>. QED BY <1>6, <1>14, <1>15, <1>16 DEF BoundsInv

----------------------------------------------------------------------------
\* The effects of dynamic values.

\* After a pass everything around those that failed knows of it.
LEMMA EvaluateKeeps ==
    ASSUME BoundsInv, NEW ks \in SUBSET (up \cap Bounds!Kid), NEW now \in SUBSET Bounds!Kid,
           NEW queue \in Seq(Entry), Bounds!Evaluate(ks, now, queue), broken' = now,
           UNCHANGED <<onErrorThrows, fallbackThrows, disposed, offered, mounted, up>>,
           live' \subseteq Bounds!Node \X Nat, pending' \in Seq(Bounds!Kid \X Nat),
           live \subseteq live', \A x \in live' : x \in live \/ x[1] \in Bounds!Kid,
           \A c \in Hearing : In(Bounds!Notify(c), queue),
           \A k \in (up \cap Bounds!Kid) \ ks :
              Rendered(k)' => Rendered(k) /\ (k \in broken \ Components <=> k \in now \ Components)
    PROVE  BoundsTypes' /\ AroundInv' /\ ShowingInv' /\ \A e : In(e, queue) => Coming(e)'
  <1> DEFINE failing == {k \in ks : k \in now \ Components}
             count == Bounds!Cardinality(failing)
             capturing == Bounds!captureRenderError(Depth, error, count)
             Place(k) == Bounds!Cardinality({j \in failing : j <= k})
             tells == Bounds!setError(capturing, scheduled)
  <1>0. /\ BoundsTypes /\ RenderingInv /\ AroundInv /\ ShowingInv
        /\ error \subseteq Bounds!Boundary /\ scheduled \subseteq Bounds!Boundary
        /\ disposed \subseteq Bounds!Boundary /\ up \subseteq Bounds!Node
    BY DEF BoundsInv, BoundsTypes
  <1>1. /\ error' = error \cup capturing
        /\ scheduled' = scheduled \cup capturing
        /\ queued' = queue \o tells
        /\ shown' = [n \in Bounds!Node |->
              IF n \notin ks THEN shown[n] ELSE IF n \notin failing THEN "value"
              ELSE IF Place(n) > Bounds!Cardinality(capturing) THEN "diagnostic" ELSE "nothing"]
    BY DEF Bounds!Evaluate
  <1>2. IsFiniteSet(failing) /\ count \in Nat /\ (count = 0 <=> failing = {})
    <2>1. IsFiniteSet(Bounds!Kid)
      BY BoundConstants, FS_Interval DEF Bounds!Kid
    <2>2. failing \in SUBSET Bounds!Kid
      OBVIOUS
    <2> HIDE DEF failing
    <2>. QED BY <2>1, <2>2, FS_Subset, FS_CardinalityType, FS_EmptySet, Counts
  <1>3. /\ capturing \subseteq Bounds!Boundary
        /\ failing = {} => capturing = {}
        /\ failing # {} /\ capturing = {} => Bounds!Boundary \subseteq error \cup onErrorThrows
    <2>1. Depth \in Int /\ Bounds!Boundary = 1..Depth
      BY BoundConstants DEF Bounds!Boundary
    <2> HIDE DEF count, failing
    <2>2. /\ capturing \subseteq (1..Depth) \ (error \cup onErrorThrows)
          /\ count = 0 => capturing = {}
          /\ count # 0 /\ capturing = {} => (1..Depth) \ (error \cup onErrorThrows) = {}
      BY <1>2, <2>1, Captured
    <2>. QED BY <1>2, <2>1, <2>2
  <1>4. /\ tells \in Seq(Entry)
        /\ \A c \in capturing \ scheduled : In(Bounds!Notify(c), tells)
    <2> HIDE DEF capturing
    <2>. QED BY <1>3, Telling
  <1>5. /\ queued' \in Seq(Entry)
        /\ \A e : In(e, queue) \/ In(e, tells) => Coming(e)'
    <2> HIDE DEF tells
    <2>. QED BY <1>1, <1>4, InEither DEF Coming
  <1>6. \A k \in ks : k \in up /\ k \in Bounds!Kid
    OBVIOUS
  \* Nobody around a mounted child is gone.
  <1>7. \A k \in up \cap Bounds!Kid, c \in Bounds!Boundary :
           c \in up /\ Rendered(c) /\ c \notin disposed /\ (c \in error => c \in scheduled)
    <2>1. \A k \in Bounds!Kid, c \in Bounds!Boundary : c < k
      BY BoundConstants DEF Bounds!Kid, Bounds!Boundary
    <2>. QED BY <1>0, <2>1 DEF AroundInv
  <1> HIDE DEF tells
  <1>8. BoundsTypes'
    <2>1. error' \subseteq Bounds!Boundary /\ scheduled' \subseteq Bounds!Boundary
      BY <1>0, <1>1, <1>3
    <2>2. shown' \in [Bounds!Node -> {"nothing", "children", "fallback", "value", "diagnostic"}]
      <3> HIDE DEF failing, capturing, Place
      <3>. QED BY <1>0, <1>1 DEF BoundsTypes
    <2>. QED BY <1>0, <1>5, <2>1, <2>2 DEF BoundsTypes
  <1>9. capturing # {} => capturing \subseteq Hearing'
    <2>1. capturing # {} => \E k \in ks : TRUE
      BY <1>3
    <2>2. \A c \in capturing : ks # {} => c \notin disposed
      BY <1>3, <1>6, <1>7
    <2> HIDE DEF capturing
    <2>. QED BY <1>1, <2>1, <2>2 DEF Hearing
  <1>10. Hearing \subseteq Hearing'
    BY <1>1 DEF Hearing
  <1>11. \A n \in Bounds!Boundary : Rendered(n)' <=> Rendered(n)
    BY Places DEF Rendered
  <1>12. AroundInv'
    <2> SUFFICES ASSUME NEW n \in up, NEW c \in Bounds!Boundary, c < n
                 PROVE  /\ c \in up /\ Rendered(c)' /\ c \notin disposed
                        /\ (c \in error' => c \in scheduled')
      BY DEF AroundInv
    <2>1. c \in up /\ Rendered(c) /\ c \notin disposed /\ (c \in error => c \in scheduled)
      BY <1>0 DEF AroundInv
    <2>. QED BY <1>1, <1>11, <2>1
  <1>13. \A c \in Hearing' : Coming(Bounds!Notify(c))'
    <2> SUFFICES ASSUME NEW c \in Hearing' PROVE In(Bounds!Notify(c), queue) \/ In(Bounds!Notify(c), tells)
      BY <1>5 DEF Coming, Bounds!Notify
    <2>1. CASE c \in scheduled
      BY <2>1 DEF Hearing
    <2>2. CASE c \in capturing \ scheduled
      BY <1>4, <2>2
    <2>. QED BY <1>1, <2>1, <2>2 DEF Hearing
  <1>14. \A n \in up \cap Bounds!Boundary : Rendered(n)' => Showing(n)' \/ \E c \in Hearing' : c <= n
    <2> SUFFICES ASSUME NEW n \in up \cap Bounds!Boundary, Rendered(n), n \notin capturing,
                        Showing(n) \/ \E c \in Hearing : c <= n
                 PROVE  Showing(n)' \/ \E c \in Hearing' : c <= n
      <3>1. ASSUME NEW m \in Bounds!Boundary, m \in capturing PROVE m \in Hearing' /\ m <= m
        <4>1. m \in Nat
          BY Places
        <4> HIDE DEF capturing
        <4>. QED BY <1>9, <3>1, <4>1
      <3>2. \A n \in up \cap Bounds!Boundary : Rendered(n) => Showing(n) \/ \E c \in Hearing : c <= n
        BY <1>0 DEF ShowingInv
      <3> HIDE DEF capturing
      <3>. QED BY <1>11, <3>1, <3>2
    <2>1. CASE \E c \in Hearing : c <= n
      BY <1>10, <2>1
    <2>2. CASE Showing(n)
      <3>1. shown'[n] = shown[n]
        <4>1. n \in Bounds!Node /\ n \notin ks
          BY Places
        <4> HIDE DEF failing, capturing, Place
        <4>. QED BY <1>1, <4>1
      <3>2. n \in error' <=> n \in error
        BY <1>1
      <3>. QED BY <2>2, <3>1, <3>2 DEF Showing
    <2>. QED BY <2>1, <2>2
  <1>15. \A k \in up \cap Bounds!Kid : Rendered(k)' => Valued(k)' \/ Hearing' # {}
    <2> SUFFICES ASSUME NEW k \in up \cap Bounds!Kid, Rendered(k)', Hearing' = {}
                 PROVE  Valued(k)'
      OBVIOUS
    <2>1. Hearing = {} /\ capturing = {}
      BY <1>9, <1>10
    <2>2. k \in Bounds!Node
      BY Places
    <2>3. CASE k \notin ks
      <3>1. Valued(k) /\ (k \in broken \ Components <=> k \in now \ Components)
        BY <1>0, <2>1, <2>3 DEF ShowingInv
      <3>2. shown'[k] = shown[k]
        BY <1>1, <2>2, <2>3
      <3>. QED BY <3>1, <3>2 DEF Valued
    <2>4. CASE k \in ks /\ k \notin failing
      <3>1. shown'[k] = "value"
        BY <1>1, <2>2, <2>4
      <3>. QED BY <2>4, <3>1 DEF Valued
    <2>5. CASE k \in failing
      <3>1. Bounds!Boundary \subseteq error \cup onErrorThrows
        BY <1>3, <2>1, <2>5
      <3>2. \A c \in Bounds!Boundary : c \notin error
        BY <1>7, <2>1 DEF Hearing
      <3>3. Bounds!Cardinality(capturing) = 0
        <4> HIDE DEF capturing
        <4>. QED BY <2>1, FS_EmptySet, Counts
      <3>4. Place(k) > 0
        <4> DEFINE T == {j \in failing : j <= k}
        <4>1. k \in T /\ T \in SUBSET failing
          BY <2>5, Places
        <4> HIDE DEF failing, T
        <4>2. IsFiniteSet(T)
          BY <1>2, <4>1, FS_Subset
        <4>3. Cardinality(T) \in Nat /\ Cardinality(T) # 0
          BY <4>1, <4>2, FS_CardinalityType, FS_EmptySet
        <4>. QED BY <4>3, Counts DEF T
      <3>5. shown'[k] = "diagnostic"
        <4>1. k \in ks
          BY <2>5
        <4> HIDE DEF failing, capturing, Place
        <4>. QED BY <1>1, <2>2, <2>5, <3>3, <3>4, <4>1
      <3>. QED BY <2>5, <3>1, <3>2, <3>5 DEF Valued
    <2>. QED BY <2>3, <2>4, <2>5
  <1>16. ShowingInv'
    BY <1>13, <1>14, <1>15 DEF ShowingInv
  <1>. QED BY <1>5, <1>8, <1>12, <1>16

----------------------------------------------------------------------------
\* Each step.

LEMMA BoundsStart == Bounds!BoundariesInit => BoundsInv
  <1> SUFFICES ASSUME Bounds!BoundariesInit PROVE BoundsInv
    OBVIOUS
  <1>1. 1 \in Bounds!Boundary /\ 1 \in Bounds!Node
    BY BoundConstants, Places DEF Bounds!Boundary
  <1>2. Bounds!Run(1, 1) \in Entry
    BY <1>1 DEF Bounds!Run, Entry
  <1>3. queued = <<Bounds!Run(1, 1)>> /\ pending = << >> /\ live = {} /\ up = {1} /\ scheduled = {}
    BY DEF Bounds!BoundariesInit
  <1>4. mounted = [n \in Bounds!Node |-> IF n = 1 THEN 1 ELSE 0]
    BY DEF Bounds!BoundariesInit
  <1>5. BoundsTypes
    <2>1. queued \in Seq(Entry) /\ pending \in Seq(Bounds!Kid \X Nat)
      BY <1>2, <1>3
    <2>2. mounted \in [Bounds!Node -> Nat]
      BY <1>4
    <2>. QED BY <1>1, <1>3, <2>1, <2>2 DEF BoundsTypes, Bounds!BoundariesInit
  <1>6. RenderingInv
    <2>1. Coming(Bounds!Run(1, mounted[1]))
      <3>1. mounted[1] = 1
        BY <1>1, <1>4
      <3>. QED BY <1>3, <3>1 DEF Coming, In
    <2>. QED BY <1>1, <1>3, <2>1 DEF RenderingInv, Bounds!NothingLeft
  <1>7. AroundInv
    BY <1>3 DEF AroundInv, Bounds!Boundary
  <1>8. ShowingInv
    BY <1>3 DEF ShowingInv, Hearing, Rendered
  <1>. QED BY <1>5, <1>6, <1>7, <1>8 DEF BoundsInv

\* A microtask that is due, and the rest of them.
LEMMA DueIs ==
    ASSUME BoundsInv, NEW do, Bounds!Due(do)
    PROVE  /\ queued # << >> /\ Head(queued) \in Entry /\ Head(queued).do = do
           /\ Tail(queued) \in Seq(Entry)
           /\ \A e : Coming(e) /\ e # Head(queued) => In(e, Tail(queued))
  <1>1. queued \in Seq(Entry) /\ queued # << >> /\ Head(queued).do = do
    BY DEF BoundsInv, BoundsTypes, Bounds!Due
  <1>. QED BY <1>1, InTail DEF Coming

\* The effect of a list starts.
LEMMA RunListStep == ASSUME BoundsInv, Bounds!RunList PROVE BoundsInv'
  <1> DEFINE run == Head(queued)
  <1>0. BoundsTypes /\ RenderingInv /\ AroundInv /\ ShowingInv
    BY DEF BoundsInv
  <1>1. /\ run \in Entry /\ run.do = "run" /\ Tail(queued) \in Seq(Entry)
        /\ \A e : Coming(e) /\ e # run => In(e, Tail(queued))
    BY DueIs DEF Bounds!RunList
  <1>2. run.node \in Bounds!Boundary
    BY <1>1 DEF Entry
  <1>3. /\ \A c \in Hearing : In(Bounds!Notify(c), Tail(queued))
        /\ pending # << >> => In(Bounds!Flush, Tail(queued))
    <2>1. \A c : Bounds!Notify(c) # run
      BY <1>1 DEF Bounds!Notify
    <2>2. Bounds!Flush # run
      BY <1>1 DEF Bounds!Flush
    <2> HIDE DEF run
    <2>. QED BY <1>0, <1>1, <2>1, <2>2 DEF ShowingInv, RenderingInv
  <1>4. CASE run.node \in up /\ run.mount = mounted[run.node]
    <2>1. Bounds!Render(run.node, error, scheduled, Tail(queued))
      BY <1>4 DEF Bounds!RunList
    <2>2. Answered(run.node, scheduled, Tail(queued))
      BY <1>1, <1>3 DEF Answered, Hearing
    <2>3. UNCHANGED <<onErrorThrows, fallbackThrows, broken>>
      BY DEF Bounds!RunList
    <2> HIDE DEF run
    <2>. QED BY <1>2, <1>4, <2>1, <2>2, <2>3, RenderKeeps
  <1>5. CASE ~(run.node \in up /\ run.mount = mounted[run.node])
    <2>1. queued' = Tail(queued) /\ UNCHANGED <<onErrorThrows, fallbackThrows, broken, error,
             scheduled, disposed, offered, mounted, up, live, shown, pending>>
      BY <1>5 DEF Bounds!RunList, Bounds!Nothing
    <2>2. \A n \in up : Bounds!Run(n, mounted[n]) # run
      BY <1>5 DEF Bounds!Run
    <2> HIDE DEF run
    <2>3. BoundsTypes'
      BY <1>0, <1>1, <2>1 DEF BoundsTypes
    <2>4. RenderingInv'
      <3>1. \A n \in up : Coming(Bounds!Run(n, mounted[n])) => In(Bounds!Run(n, mounted[n]), queued')
        BY <1>1, <2>1, <2>2
      <3>2. pending' # << >> => Coming(Bounds!Flush)'
        BY <1>3, <2>1 DEF Coming
      <3>3. Bounds!NothingLeft'
        BY <1>0, <2>1 DEF RenderingInv, Bounds!NothingLeft
      <3>. QED BY <1>0, <2>1, <3>1, <3>2, <3>3 DEF RenderingInv, Rendered, Coming, Bounds!Run
    <2>5. AroundInv'
      BY <1>0, <2>1 DEF AroundInv, Rendered
    <2>6. ShowingInv'
      <3>1. \A c \in Hearing' : Coming(Bounds!Notify(c))'
        BY <1>3, <2>1 DEF Hearing, Coming, Bounds!Notify
      <3>. QED BY <1>0, <2>1, <3>1 DEF ShowingInv, Rendered, Showing, Valued, Hearing
    <2>. QED BY <2>3, <2>4, <2>5, <2>6 DEF BoundsInv
  <1>. QED BY <1>4, <1>5

\* The effects of dynamic values start.
LEMMA FlushMountsStep == ASSUME BoundsInv, Bounds!FlushMounts PROVE BoundsInv'
  <1> DEFINE started == {p \in ToSet(pending) : p[1] \in up /\ p[2] = mounted[p[1]]}
             ks == {p[1] : p \in started}
  <1>0. BoundsTypes /\ RenderingInv /\ AroundInv /\ ShowingInv
    BY DEF BoundsInv
  <1>1. /\ Head(queued) \in Entry /\ Head(queued).do = "flush" /\ Tail(queued) \in Seq(Entry)
        /\ \A e : Coming(e) /\ e # Head(queued) => In(e, Tail(queued))
    BY DueIs DEF Bounds!FlushMounts
  <1>2. /\ live' = live \cup started /\ pending' = << >>
        /\ Bounds!Evaluate(ks, broken, Tail(queued))
        /\ UNCHANGED <<onErrorThrows, fallbackThrows, broken, disposed, offered, mounted, up>>
    BY DEF Bounds!FlushMounts, Bounds!ToSet, ToSet
  <1>3. ToSet(pending) \subseteq Bounds!Kid \X Nat /\ \A e : In(e, pending) => e \in ToSet(pending)
    BY <1>0 DEF BoundsTypes, ToSet, In
  <1>4. \A c \in Hearing : In(Bounds!Notify(c), Tail(queued))
    <2>1. \A c : Bounds!Notify(c) # Head(queued)
      BY <1>1 DEF Bounds!Notify
    <2>. QED BY <1>0, <1>1, <2>1 DEF ShowingInv
  <1>5. ks \in SUBSET (up \cap Bounds!Kid)
    BY <1>3
  <1>6. /\ started \subseteq Bounds!Kid \X Nat
        /\ \A k \in up \cap Bounds!Kid : <<k, mounted[k]>> \in started => k \in ks
    BY <1>3
  <1>7. BoundsTypes' /\ AroundInv' /\ ShowingInv' /\ \A e : In(e, Tail(queued)) => Coming(e)'
    <2>1. broken \in SUBSET Bounds!Kid /\ live \subseteq Bounds!Node \X Nat
      BY <1>0 DEF BoundsTypes
    <2>2. live' \subseteq Bounds!Node \X Nat
      BY <1>2, <1>6, <2>1, Places
    <2>3. pending' \in Seq(Bounds!Kid \X Nat)
      BY <1>2
    <2>4. live \subseteq live' /\ \A x \in live' : x \in live \/ x[1] \in Bounds!Kid
      BY <1>2, <1>6
    <2>5. \A k \in (up \cap Bounds!Kid) \ ks :
             Rendered(k)' => Rendered(k) /\ (k \in broken \ Components <=> k \in broken \ Components)
      BY <1>2, <1>6 DEF Rendered
    <2> HIDE DEF ks, started
    <2>. QED BY <1>1, <1>2, <1>4, <1>5, <2>1, <2>2, <2>3, <2>4, <2>5, EvaluateKeeps
  <1>8. RenderingInv'
    <2>1. Bounds!NothingLeft'
      BY <1>0, <1>2 DEF RenderingInv, Bounds!NothingLeft
    <2>2. ASSUME NEW n \in up
          PROVE  \/ Rendered(n)'
                 \/ n \in Bounds!Boundary /\ Coming(Bounds!Run(n, mounted[n]))'
      <3>1. CASE Rendered(n)
        <4> HIDE DEF started
        <4>1. mounted' = mounted /\ live \subseteq live'
          BY <1>2
        <4>2. <<n, mounted'[n]>> \in live'
          BY <3>1, <4>1 DEF Rendered
        <4>3. Rendered(n)'
          BY <4>2 DEF Rendered
        <4>. QED BY <4>3
      <3>2. CASE n \in Bounds!Boundary /\ Coming(Bounds!Run(n, mounted[n]))
        <4>1. Bounds!Run(n, mounted[n]) # Head(queued)
          BY <1>1 DEF Bounds!Run
        <4>2. mounted' = mounted
          BY <1>2
        <4>. QED BY <1>1, <1>7, <3>2, <4>1, <4>2 DEF Coming, Bounds!Run
      <3>3. CASE In(<<n, mounted[n]>>, pending)
        <4>1. <<n, mounted[n]>> \in started
          BY <1>3, <3>3
        <4> HIDE DEF started
        <4>2. mounted' = mounted /\ started \subseteq live'
          BY <1>2
        <4>3. <<n, mounted'[n]>> \in live'
          BY <4>1, <4>2
        <4>4. Rendered(n)'
          BY <4>3 DEF Rendered
        <4>. QED BY <4>4
      <3>. QED BY <1>0, <3>1, <3>2, <3>3 DEF RenderingInv
    <2>. QED BY <1>2, <2>1, <2>2 DEF RenderingInv
  <1>. QED BY <1>7, <1>8 DEF BoundsInv

\* Signals change.
LEMMA ChangedStep == ASSUME BoundsInv, Bounds!Change PROVE BoundsInv'
  <1> DEFINE ks == {k \in Bounds!Kid \ Components : /\ <<k, mounted[k]>> \in live
                                                   /\ (k \in broken) # (k \in broken')}
  <1>0. BoundsTypes /\ RenderingInv /\ AroundInv /\ ShowingInv
    BY DEF BoundsInv
  <1>1. /\ broken' \in SUBSET Bounds!Kid /\ Bounds!Evaluate(ks, broken', queued)
        /\ UNCHANGED <<onErrorThrows, fallbackThrows, disposed, offered, mounted, up, live, pending>>
    BY DEF Bounds!Change
  <1>2. ks \in SUBSET (up \cap Bounds!Kid)
    BY <1>0 DEF RenderingInv, Bounds!NothingLeft
  <1>3. BoundsTypes' /\ AroundInv' /\ ShowingInv' /\ \A e : In(e, queued) => Coming(e)'
    <2>1. /\ queued \in Seq(Entry) /\ live' \subseteq Bounds!Node \X Nat
          /\ pending' \in Seq(Bounds!Kid \X Nat)
      BY <1>0, <1>1 DEF BoundsTypes
    <2>2. \A c \in Hearing : In(Bounds!Notify(c), queued)
      BY <1>0 DEF ShowingInv, Coming
    <2>3. \A k \in (up \cap Bounds!Kid) \ ks :
             Rendered(k)' => Rendered(k) /\ (k \in broken \ Components <=> k \in broken' \ Components)
      BY <1>1 DEF Rendered
    <2> HIDE DEF ks
    <2>. QED BY <1>1, <1>2, <2>1, <2>2, <2>3, EvaluateKeeps
  <1>4. RenderingInv'
    <2>1. Bounds!NothingLeft'
      BY <1>0, <1>1 DEF RenderingInv, Bounds!NothingLeft
    <2>2. \A e : Coming(e) => Coming(e)'
      BY <1>3 DEF Coming
    <2>3. mounted' = mounted /\ live' = live /\ up' = up /\ pending' = pending
      BY <1>1
    <2>4. \A n : Coming(Bounds!Run(n, mounted[n])) => Coming(Bounds!Run(n, mounted[n]))'
      BY <2>2, <2>3 DEF Coming, Bounds!Run
    <2>5. Coming(Bounds!Flush) => Coming(Bounds!Flush)'
      BY <2>2 DEF Coming, Bounds!Flush
    <2>. QED BY <1>0, <2>1, <2>3, <2>4, <2>5 DEF RenderingInv, Rendered
  <1>. QED BY <1>3, <1>4 DEF BoundsInv

\* A notification arrives.
LEMMA NotifiedStep == ASSUME BoundsInv, Bounds!Notified PROVE BoundsInv'
  <1> DEFINE b == Head(queued).node
             due == IF b \in disposed THEN scheduled ELSE scheduled \ {b}
  <1>0. /\ BoundsTypes /\ RenderingInv /\ AroundInv /\ ShowingInv
        /\ scheduled \subseteq Bounds!Boundary
    BY DEF BoundsInv, BoundsTypes
  <1>1. /\ Head(queued) \in Entry /\ Head(queued).do = "notify" /\ Tail(queued) \in Seq(Entry)
        /\ \A e : Coming(e) /\ e # Head(queued) => In(e, Tail(queued))
    BY DueIs DEF Bounds!Notified
  <1>2. b \in Bounds!Boundary
    BY <1>1 DEF Entry
  <1>3. UNCHANGED <<onErrorThrows, fallbackThrows, broken>>
    BY DEF Bounds!Notified
  <1>4. IF b \notin disposed /\ <<b, mounted[b]>> \in live
        THEN Bounds!Render(b, error, due, Tail(queued))
        ELSE /\ queued' = Tail(queued) /\ scheduled' = due
             /\ UNCHANGED <<error, disposed, offered, mounted, up, live, shown, pending>>
    BY DEF Bounds!Notified
  <1>5. /\ \A c \in due \ disposed : In(Bounds!Notify(c), Tail(queued))
        /\ \A n, m : Coming(Bounds!Run(n, m)) => In(Bounds!Run(n, m), Tail(queued))
        /\ pending # << >> => In(Bounds!Flush, Tail(queued))
    <2>1. \A c : c # b => Bounds!Notify(c) # Head(queued)
      BY DEF Bounds!Notify
    <2>2. Bounds!Flush # Head(queued) /\ \A n, m : Bounds!Run(n, m) # Head(queued)
      BY <1>1 DEF Bounds!Flush, Bounds!Run
    <2>3. \A c \in due \ disposed : c # b /\ c \in Hearing
      BY DEF Hearing
    <2> HIDE DEF b, due
    <2>. QED BY <1>0, <1>1, <2>1, <2>2, <2>3 DEF ShowingInv, RenderingInv
  <1>6. due \in SUBSET scheduled /\ scheduled \ {b} \subseteq due
    OBVIOUS
  <1> HIDE DEF b
  <1>7. CASE b \notin disposed /\ <<b, mounted[b]>> \in live
    <2>1. b \in up
      BY <1>0, <1>7 DEF RenderingInv, Bounds!NothingLeft
    <2>2. Answered(b, due, Tail(queued)) /\ Bounds!Render(b, error, due, Tail(queued))
      BY <1>1, <1>4, <1>5, <1>7 DEF Answered
    <2> HIDE DEF due
    <2>. QED BY <1>2, <1>3, <1>6, <2>1, <2>2, RenderKeeps
  <1>8. CASE ~(b \notin disposed /\ <<b, mounted[b]>> \in live)
    <2>1. /\ queued' = Tail(queued) /\ scheduled' = due
          /\ UNCHANGED <<error, disposed, offered, mounted, up, live, shown, pending>>
      BY <1>4, <1>8
    <2>2. BoundsTypes'
      BY <1>0, <1>1, <1>3, <1>6, <2>1 DEF BoundsTypes
    <2>3. RenderingInv'
      <3>1. Bounds!NothingLeft'
        BY <1>0, <2>1 DEF RenderingInv, Bounds!NothingLeft
      <3>2. \A n \in up : Coming(Bounds!Run(n, mounted[n])) => Coming(Bounds!Run(n, mounted[n]))'
        BY <1>5, <2>1 DEF Coming, Bounds!Run
      <3>3. pending' # << >> => Coming(Bounds!Flush)'
        BY <1>5, <2>1 DEF Coming, Bounds!Flush
      <3>. QED BY <1>0, <2>1, <3>1, <3>2, <3>3 DEF RenderingInv, Rendered
    \* Whoever is still to be told above a mounted node is not the one just told.
    <2>4. \A n \in up, c \in Bounds!Boundary : c < n => c \notin disposed /\ Rendered(c)
      BY <1>0 DEF AroundInv
    <2>5. \A c \in Bounds!Boundary : c \notin disposed /\ Rendered(c) => c # b
      BY <1>8 DEF Rendered
    <2>6. AroundInv'
      BY <1>0, <2>1, <2>4, <2>5 DEF AroundInv, Rendered
    <2>7. \A c \in Hearing : c # b => c \in Hearing'
      <3>1. disposed' = disposed /\ scheduled \ {b} \subseteq scheduled'
        BY <1>6, <2>1
      <3>. QED BY <3>1 DEF Hearing
    <2>8. ShowingInv'
      <3>1. \A c \in Hearing' : Coming(Bounds!Notify(c))'
        BY <1>5, <2>1 DEF Hearing, Coming, Bounds!Notify
      <3>2. ASSUME NEW n \in up \cap Bounds!Boundary, Rendered(n)
            PROVE  Showing(n)' \/ \E c \in Hearing' : c <= n
        <4>1. CASE Showing(n)
          BY <1>3, <2>1, <4>1 DEF Showing
        <4>2. CASE \E c \in Hearing : c <= n
          <5>1. PICK c \in Hearing : c <= n
            BY <4>2
          <5>2. c \in Bounds!Boundary /\ c \notin disposed
            BY <1>0 DEF Hearing
          <5>3. c = n \/ c < n
            BY <5>1, <5>2, Places
          <5>4. Rendered(c)
            BY <2>4, <3>2, <5>2, <5>3
          <5>. QED BY <2>5, <2>7, <5>1, <5>2, <5>4
        <4>. QED BY <1>0, <3>2, <4>1, <4>2 DEF ShowingInv
      <3>3. ASSUME NEW k \in up \cap Bounds!Kid, Rendered(k) PROVE Valued(k)' \/ Hearing' # {}
        <4>1. CASE Valued(k)
          BY <1>3, <2>1, <4>1 DEF Valued
        <4>2. CASE Hearing # {}
          <5>1. PICK c \in Hearing : TRUE
            BY <4>2
          <5>2. c \in Bounds!Boundary /\ c \notin disposed
            BY <1>0 DEF Hearing
          <5>3. c < k
            BY <5>2, BoundConstants DEF Bounds!Boundary, Bounds!Kid
          <5>4. c # b
            BY <2>4, <2>5, <5>2, <5>3
          <5>. QED BY <2>7, <5>1, <5>4
        <4>. QED BY <1>0, <3>3, <4>1, <4>2 DEF ShowingInv
      <3>4. up' = up /\ \A n : Rendered(n)' <=> Rendered(n)
        BY <2>1 DEF Rendered
      <3>. QED BY <3>1, <3>2, <3>3, <3>4 DEF ShowingInv
    <2>. QED BY <2>2, <2>3, <2>6, <2>8 DEF BoundsInv
  <1>. QED BY <1>7, <1>8

\* An error is cleared.
LEMMA ResetStep == ASSUME BoundsInv, NEW b \in Bounds!Boundary, Bounds!Reset(b) PROVE BoundsInv'
  <1>0. /\ BoundsTypes /\ RenderingInv /\ AroundInv /\ ShowingInv
        /\ error \subseteq Bounds!Boundary
    BY DEF BoundsInv, BoundsTypes
  <1>1. /\ UNCHANGED <<onErrorThrows, fallbackThrows, broken>> /\ b \notin disposed
        /\ IF <<b, mounted[b]>> \in live
           THEN Bounds!Render(b, error \ {b}, scheduled, queued)
           ELSE /\ error' = error \ {b}
                /\ UNCHANGED <<scheduled, disposed, offered, mounted, up, live, shown, pending, queued>>
    BY DEF Bounds!Reset
  <1>2. CASE <<b, mounted[b]>> \in live
    <2>1. b \in up
      BY <1>0, <1>2 DEF RenderingInv, Bounds!NothingLeft
    <2>2. Answered(b, scheduled, queued)
      BY <1>0 DEF Answered, BoundsTypes, ShowingInv, RenderingInv, Hearing, Coming
    <2>. QED BY <1>1, <1>2, <2>1, <2>2, RenderKeeps
  <1>3. CASE <<b, mounted[b]>> \notin live
    <2>1. /\ error' = error \ {b}
          /\ UNCHANGED <<scheduled, disposed, offered, mounted, up, live, shown, pending, queued>>
      BY <1>1, <1>3
    <2>2. BoundsTypes'
      BY <1>0, <1>1, <2>1 DEF BoundsTypes
    <2>3. Hearing' = Hearing /\ \A n : Rendered(n)' <=> Rendered(n)
      BY <2>1 DEF Hearing, Rendered
    <2>4. RenderingInv'
      <3>1. Bounds!NothingLeft' /\ queued' = queued /\ mounted' = mounted /\ up' = up
        BY <1>0, <2>1 DEF RenderingInv, Bounds!NothingLeft
      <3>2. \A n : Coming(Bounds!Run(n, mounted[n])) => Coming(Bounds!Run(n, mounted[n]))'
        BY <3>1 DEF Coming, Bounds!Run
      <3>3. Coming(Bounds!Flush) => Coming(Bounds!Flush)'
        BY <3>1 DEF Coming, Bounds!Flush
      <3>. QED BY <1>0, <2>1, <2>3, <3>1, <3>2, <3>3 DEF RenderingInv
    <2>5. AroundInv'
      BY <1>0, <2>1, <2>3 DEF AroundInv
    <2>6. ShowingInv'
      <3>1. \A c \in Hearing' : Coming(Bounds!Notify(c))'
        BY <1>0, <2>1, <2>3 DEF ShowingInv, Coming, Bounds!Notify
      <3>2. \A n \in Bounds!Boundary : Rendered(n) /\ Showing(n) => Showing(n)'
        BY <1>1, <1>3, <2>1 DEF Showing, Rendered
      <3>3. \A k : Valued(k) => Valued(k)'
        BY <1>1, <2>1 DEF Valued
      <3>. QED BY <1>0, <2>1, <2>3, <3>1, <3>2, <3>3 DEF ShowingInv
    <2>. QED BY <2>2, <2>4, <2>5, <2>6 DEF BoundsInv
  <1>. QED BY <1>2, <1>3

\* All is unmounted.
LEMMA UnmountedStep == ASSUME BoundsInv, Bounds!Unmount PROVE BoundsInv'
  <1>0. /\ BoundsTypes /\ RenderingInv /\ AroundInv /\ ShowingInv
    BY DEF BoundsInv
  <1>1. /\ up' = {} /\ live' = {x \in live : x[1] \notin up}
        /\ shown' = [n \in Bounds!Node |-> "nothing"]
        /\ disposed' = disposed \cup (up \cap Bounds!Boundary)
        /\ error' = error \ up /\ scheduled' = scheduled \ up
        /\ UNCHANGED <<onErrorThrows, fallbackThrows, broken, offered, mounted, pending, queued>>
    BY DEF Bounds!Unmount
  <1>2. live' = {}
    BY <1>0, <1>1 DEF RenderingInv, Bounds!NothingLeft
  <1>3. BoundsTypes'
    BY <1>0, <1>1, <1>2 DEF BoundsTypes
  <1>4. RenderingInv'
    <2>1. Coming(Bounds!Flush) => Coming(Bounds!Flush)'
      BY <1>1 DEF Coming, Bounds!Flush
    <2>. QED BY <1>0, <1>1, <1>2, <2>1 DEF RenderingInv, Bounds!NothingLeft
  <1>5. AroundInv'
    BY <1>1 DEF AroundInv
  <1>6. ShowingInv'
    <2>1. \A c \in Hearing' : Coming(Bounds!Notify(c))'
      BY <1>0, <1>1 DEF ShowingInv, Hearing, Coming, Bounds!Notify
    <2>. QED BY <1>1, <2>1 DEF ShowingInv
  <1>. QED BY <1>3, <1>4, <1>5, <1>6 DEF BoundsInv

\* Every action keeps the invariant of the boundaries.
LEMMA BoundsStep == ASSUME BoundsInv, [Bounds!BoundariesNext]_bounding PROVE BoundsInv'
  <1>1. CASE UNCHANGED bounding
    <2>1. UNCHANGED <<onErrorThrows, fallbackThrows, broken, error, scheduled, disposed, offered,
                      mounted, up, live, shown, pending, queued>>
      BY <1>1 DEF bounding
    <2>2. BoundsTypes'
      BY <2>1 DEF BoundsInv, BoundsTypes
    <2>3. \A n : Coming(Bounds!Run(n, mounted[n])) => Coming(Bounds!Run(n, mounted[n]))'
      BY <2>1 DEF Coming, Bounds!Run
    <2>4. Coming(Bounds!Flush) => Coming(Bounds!Flush)'
      BY <2>1 DEF Coming, Bounds!Flush
    <2>5. Hearing' = Hearing /\ \A n : Rendered(n)' <=> Rendered(n)
      BY <2>1 DEF Hearing, Rendered
    <2>6. RenderingInv'
      BY <2>1, <2>3, <2>4, <2>5 DEF BoundsInv, RenderingInv, Bounds!NothingLeft
    <2>7. AroundInv'
      BY <2>1, <2>5 DEF BoundsInv, AroundInv
    <2>8. ShowingInv'
      <3>1. \A c \in Hearing' : Coming(Bounds!Notify(c))'
        BY <2>1, <2>5 DEF BoundsInv, ShowingInv, Coming, Bounds!Notify
      <3>2. \A n : (Showing(n) => Showing(n)') /\ (Valued(n) => Valued(n)')
        BY <2>1 DEF Showing, Valued
      <3>. QED BY <2>1, <2>5, <3>1, <3>2 DEF BoundsInv, ShowingInv
    <2>. QED BY <2>2, <2>6, <2>7, <2>8 DEF BoundsInv
  <1>2. ASSUME NEW b \in Bounds!Boundary, Bounds!Reset(b) PROVE BoundsInv'
    BY <1>2, ResetStep
  <1>. QED
    BY <1>1, <1>2, RunListStep, FlushMountsStep, NotifiedStep, ChangedStep, UnmountedStep
       DEF Bounds!BoundariesNext, Bounds!Microtask

\* At rest nobody is left to be told.
LEMMA BoundsInvTells ==
    BoundsInv => Bounds!BoundariesTyped /\ Bounds!NothingLeft /\ Bounds!FailuresAreShown
  <1> SUFFICES ASSUME BoundsInv
               PROVE  Bounds!BoundariesTyped /\ Bounds!NothingLeft /\ Bounds!FailuresAreShown
    OBVIOUS
  <1>0. BoundsTypes /\ RenderingInv /\ AroundInv /\ ShowingInv
    BY DEF BoundsInv
  <1>1. Bounds!BoundariesTyped
    <2>1. Entry \subseteq [do : {"run", "notify", "flush"}, node : 0..Depth, mount : Nat]
      BY BoundConstants DEF Entry, Bounds!Boundary
    <2>2. queued \in Seq([do : {"run", "notify", "flush"}, node : 0..Depth, mount : Nat])
      BY <1>0, <2>1, SeqMonotonic DEF BoundsTypes
    <2>. QED BY <1>0, <2>2 DEF BoundsTypes, Bounds!BoundariesTyped
  <1>2. ASSUME queued = << >>
        PROVE  /\ Hearing = {} /\ \A n \in up : Rendered(n)
    <2>1. \A e : ~Coming(e)
      BY <1>2 DEF Coming, In
    <2>2. pending = << >>
      BY <1>0, <2>1 DEF RenderingInv
    <2>3. \A e : ~In(e, pending)
      BY <2>2 DEF In
    <2>. QED BY <1>0, <2>1, <2>3 DEF RenderingInv, ShowingInv
  <1>3. Bounds!FailuresAreShown
    <2> SUFFICES ASSUME queued = << >>
                 PROVE  /\ \A n \in up : <<n, mounted[n]>> \in live
                        /\ \A b \in up \cap Bounds!Boundary :
                              \/ shown[b] = CASE b \in disposed -> "nothing"
                                              [] b \in (error \cap fallbackThrows) \ disposed -> "diagnostic"
                                              [] b \in error \ (fallbackThrows \cup disposed) -> "fallback"
                                              [] b \notin error \cup disposed -> "children"
                              \/ shown[b] = "diagnostic" /\ 1..b \subseteq onErrorThrows
                        /\ \A k \in up \cap Bounds!Kid :
                              IF k \in broken \ Components
                              THEN shown[k] = "diagnostic" /\ Bounds!Boundary \subseteq onErrorThrows
                              ELSE shown[k] = "value"
      BY DEF Bounds!FailuresAreShown, Bounds!AtRest
    <2>1. Hearing = {} /\ \A n \in up : Rendered(n)
      BY <1>2
    <2>2. /\ \A b \in up \cap Bounds!Boundary : Showing(b)
          /\ \A k \in up \cap Bounds!Kid : Valued(k)
      BY <1>0, <2>1 DEF ShowingInv
    <2>3. \A n \in up : <<n, mounted[n]>> \in live
      BY <2>1 DEF Rendered
    <2>4. ASSUME NEW b \in up \cap Bounds!Boundary
          PROVE  \/ shown[b] = CASE b \in disposed -> "nothing"
                                  [] b \in (error \cap fallbackThrows) \ disposed -> "diagnostic"
                                  [] b \in error \ (fallbackThrows \cup disposed) -> "fallback"
                                  [] b \notin error \cup disposed -> "children"
                 \/ shown[b] = "diagnostic" /\ 1..b \subseteq onErrorThrows
      <3>1. /\ Showing(b)
            /\ \/ b \in disposed
               \/ b \notin disposed /\ b \notin error
               \/ b \notin disposed /\ b \in error /\ b \in fallbackThrows
               \/ b \notin disposed /\ b \in error /\ b \notin fallbackThrows
        BY <2>2
      <3>2. CASE shown[b] = "diagnostic" /\ 1..b \subseteq onErrorThrows
        BY <3>2
      <3>3. CASE b \in disposed /\ shown[b] = "nothing"
        BY <3>3
      <3>4. CASE b \notin disposed /\ b \notin error /\ shown[b] = "children"
        BY <3>4
      <3>5. CASE b \notin disposed /\ b \in error /\ b \in fallbackThrows /\ shown[b] = "diagnostic"
        BY <3>5
      <3>6. CASE b \notin disposed /\ b \in error /\ b \notin fallbackThrows /\ shown[b] = "fallback"
        BY <3>6
      <3>. QED BY <3>1, <3>2, <3>3, <3>4, <3>5, <3>6 DEF Showing
    <2>5. \A k \in up \cap Bounds!Kid :
             IF k \in broken \ Components
             THEN shown[k] = "diagnostic" /\ Bounds!Boundary \subseteq onErrorThrows
             ELSE shown[k] = "value"
      BY <2>2 DEF Valued
    <2>. QED BY <2>3, <2>4, <2>5
  <1>. QED BY <1>0, <1>1, <1>3 DEF RenderingInv

----------------------------------------------------------------------------
\* What runs beside each other on a page: every step is one of the part that runs, and
\* leaves the state of the others alone.

ScreenVars == <<part, vars, layerVars, mounts, patching, hydrating, bounding, storeVars,
                suspending, listing>>

\* What leaves every component that is proved about alone.
Apart == UNCHANGED <<part, vars, layerVars, mounts, bounding, storeVars, suspending>>

LEMMA EffectsApart ==
    ASSUME EffectNext
    PROVE  Next /\ UNCHANGED <<part, layerVars, mounts, bounding, storeVars, suspending>>
  BY DEF EffectNext, OfEffect, Next, Trigger

LEMMA LayersApart ==
    ASSUME BuildNext \/ OfLayers(DisposeLayers)
    PROVE  LayersNext /\ UNCHANGED <<part, vars, mounts, bounding, storeVars, suspending>>
  BY DEF BuildNext, OfLayers, LayersNext

LEMMA PageApart ==
    ASSUME PageNext
    PROVE  \/ LayersNext /\ UNCHANGED <<part, vars, mounts, bounding, storeVars, suspending>>
           \/ Mount!MountNext /\ UNCHANGED <<part, vars, layerVars, bounding, storeVars, suspending>>
           \/ Apart
  <1>1. CASE OfLayers(DisposeLayers)
    BY <1>1, LayersApart
  <1>2. CASE \E m \in 1..MaxMounts :
               \/ OfMount(Mount!MountCalled(m)) \/ OfMount(Mount!Cleaned(m))
               \/ OfMount(Mount!Built(m)) \/ OfMount(Mount!BuildFails(m))
               \/ OfMount(Mount!Shown(m)) \/ OfMount(Mount!ShowFails(m))
               \/ OfMount(Mount!Failed(m)) \/ OfMount(Mount!Unmount(m))
               \/ OfMount(Mount!Disposed(m))
    BY <1>2 DEF OfMount, Mount!MountNext, Mount!Call
  <1>3. CASE \/ OfPatch(Dom!Rendered) \/ OfPatch(Dom!PatchChild) \/ OfPatch(Dom!PatchEnds)
             \/ OfPatch(Dom!PropsFlushed)
    BY <1>3 DEF OfPatch, Apart
  <1>4. CASE \/ OfHydration(Dom!claimElement) \/ OfHydration(Dom!MountText)
             \/ OfHydration(Dom!dropUnclaimed)
    BY <1>4 DEF OfHydration, Apart
  <1>. QED BY <1>1, <1>2, <1>3, <1>4 DEF PageNext

LEMMA StoresApart ==
    ASSUME StateNext
    PROVE  StoreNext /\ UNCHANGED <<part, vars, layerVars, mounts, bounding, suspending>>
  BY DEF StateNext, OfStore, StoreNext

LEMMA SuspenseApart ==
    ASSUME SuspenseNext
    PROVE  Bounds!SuspenseNext /\ UNCHANGED <<part, vars, layerVars, mounts, bounding, storeVars>>
  BY DEF SuspenseNext, OfSuspense, Bounds!SuspenseNext

LEMMA BoundariesApart ==
    ASSUME BoundsNext
    PROVE  Bounds!BoundariesNext /\ UNCHANGED <<part, vars, layerVars, mounts, storeVars, suspending>>
  BY DEF BoundsNext, OfBounds, Bounds!BoundariesNext, Bounds!Microtask, Bounds!Boundary

LEMMA ListsApart == ASSUME OfList(Keyed!ListNext) PROVE Apart
  BY DEF OfList, Apart

LEMMA ScreenParts ==
    ASSUME [MCScreenNext]_ScreenVars
    PROVE  /\ part' = part
           /\ [Next]_vars /\ [LayersNext]_layerVars /\ [Mount!MountNext]_mounts
           /\ [Bounds!BoundariesNext]_bounding
           /\ [StoreNext]_storeVars /\ [Bounds!SuspenseNext]_suspending
  <1>1. CASE EffectNext
    BY <1>1, EffectsApart
  <1>2. CASE BuildNext
    BY <1>2, LayersApart
  <1>3. CASE PageNext
    BY <1>3, PageApart DEF Apart
  <1>4. CASE StateNext
    BY <1>4, StoresApart
  <1>5. CASE SuspenseNext
    BY <1>5, SuspenseApart
  <1>6. CASE BoundsNext
    BY <1>6, BoundariesApart
  <1>7. CASE OfList(Keyed!ListNext)
    BY <1>7, ListsApart DEF Apart
  <1>8. CASE UNCHANGED ScreenVars
    BY <1>8 DEF ScreenVars
  <1>. QED BY <1>1, <1>2, <1>3, <1>4, <1>5, <1>6, <1>7, <1>8 DEF MCScreenNext

\* Whichever part runs, the invariants of all of them hold.
ScreenInv == EffectInv /\ BuildInv /\ MountInv /\ BoundsInv /\ StoreInv /\ SuspenseInv

LEMMA ScreenStarts == MCScreenInit => ScreenInv
  <1>. SUFFICES ASSUME MCScreenInit PROVE ScreenInv
    OBVIOUS
  <1>1. /\ Init /\ LayersInit /\ Mount!MountInit /\ Bounds!BoundariesInit
        /\ StoreInit /\ Bounds!SuspenseInit
    BY DEF MCScreenInit
  <1>2. LayersAssumption
    BY LayersKnown
  <1>. QED
    BY <1>1, <1>2, EffectInit, BuildInit, MountStart, BoundsStart, StoreStart, SuspenseStart
    DEF ScreenInv

LEMMA ScreenStep == ScreenInv /\ [MCScreenNext]_ScreenVars => ScreenInv'
  <1>. SUFFICES ASSUME ScreenInv, [MCScreenNext]_ScreenVars PROVE ScreenInv'
    OBVIOUS
  <1>1. EffectInv'
    BY ScreenParts, EffectStep DEF ScreenInv
  <1>2. BuildInv'
    BY ScreenParts, BuildStep DEF ScreenInv
  <1>3. MountInv'
    BY ScreenParts, MountStep DEF ScreenInv
  <1>4. StoreInv'
    BY ScreenParts, StoreStep DEF ScreenInv
  <1>5. SuspenseInv'
    BY ScreenParts, SuspenseStep DEF ScreenInv
  <1>6. BoundsInv'
    BY ScreenParts, BoundsStep DEF ScreenInv
  <1>. QED BY <1>1, <1>2, <1>3, <1>4, <1>5, <1>6 DEF ScreenInv

LEMMA ScreenInvariant == MCScreenSpec => []ScreenInv
  BY ScreenStarts, ScreenStep, PTL DEF MCScreenSpec, ScreenVars

\* The folds of what patches, adopts and lists children are left to TLC.
Proved == {"effect", "layers", "mount", "boundaries", "store", "suspense"}

\* The parts of a page that are proved about keep their types, for all of their constants.
THEOREM ScreenTyped == MCScreenSpec => [](part \in Proved => AllTyped)
  <1>1. ScreenInv => (part \in Proved => AllTyped)
    <2>. SUFFICES ASSUME ScreenInv, part \in Proved PROVE AllTyped
      OBVIOUS
    <2>1. TypeOK /\ LayersTyped /\ Mount!MountTyped
      BY DEF ScreenInv, EffectInv, CleanupInv, SchedulingInv, TypeOK, BuildInv, MountInv
    <2>2. StoreTyped /\ Bounds!SuspenseTyped /\ Bounds!BoundariesTyped
      BY StoreInvTells, SuspenseInvTells, BoundsInvTells DEF ScreenInv
    <2>. QED BY <2>1, <2>2 DEF AllTyped, Proved
  <1>. QED BY ScreenInvariant, <1>1, PTL

\* Nothing a stopped or newer run of an effect made is left, and a layer is up only under
\* what it depends on, on a page whatever runs there.
THEOREM NothingOutlives == MCScreenSpec => [](NothingStranded /\ LiveOnLive)
  <1>1. ScreenInv => NothingStranded /\ LiveOnLive
    BY LiveOnUp DEF ScreenInv, EffectInv, CleanupInv, NothingStranded
  <1>. QED BY ScreenInvariant, <1>1, PTL

\* Subscribers, selectors, the storage and the second copy have caught up with a store when
\* an operation returns, and superseded actions are silent: for any keys, values, bounds and
\* any mix of callbacks that write back, throw or fail (store/core/store.ts).
THEOREM StoresStayFresh == MCScreenSpec => []StateIsFresh
  <1>1. ScreenInv => StateIsFresh
    BY StoreInvTells DEF ScreenInv, StateIsFresh
  <1>. QED BY ScreenInvariant, <1>1, PTL

\* However mounts, unmounts, failures and disposals of applications interleave, the global
\* context is alive and the page shows the active mount, whole, no layer outlives a build
\* that failed, and no effect runs of what a boundary took down (BaseEffuseApp.ts,
\* runtime.ts, ErrorBoundary.ts).
THEOREM PagesHold == MCScreenSpec => [](part # "list" => PageHolds)
  <1>1. ScreenInv => (part # "list" => PageHolds)
    <2>. SUFFICES ASSUME ScreenInv, part # "list" PROVE PageHolds
      OBVIOUS
    <2>1. NothingLeftUp /\ Mount!ContextIsAlive /\ Mount!OnlyTheActiveIsUp
      BY NothingUp, MountInvTells DEF ScreenInv
    <2>2. Bounds!NothingLeft
      BY BoundsInvTells DEF ScreenInv
    <2>. QED BY <2>1, <2>2 DEF PageHolds
  <1>. QED BY ScreenInvariant, <1>1, PTL

\* A Suspense shows its children, or its fallback, for what they need now, however often that
\* changes, fails or is fetched again before it came (Suspense.ts); and at rest boundaries,
\* nested to any depth and over any number of children, each show their fallback or their
\* children, no error is lost, and a diagnostic is where nobody took it (ErrorBoundary.ts).
THEOREM FailuresAreRender == MCScreenSpec => [](part \in {"boundaries", "suspense"} => PageIsRender)
  <1>1. ScreenInv => (part \in {"boundaries", "suspense"} => PageIsRender)
    <2>. SUFFICES ASSUME ScreenInv, part \in {"boundaries", "suspense"} PROVE PageIsRender
      OBVIOUS
    <2>1. Bounds!SuspenseShows /\ Bounds!FailuresAreShown
      BY SuspenseInvTells, BoundsInvTells DEF ScreenInv
    <2>. QED BY <2>1 DEF PageIsRender
  <1>. QED BY ScreenInvariant, <1>1, PTL
=============================================================================
