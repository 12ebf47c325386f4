------------------------------- MODULE AppMount -------------------------------
(***************************************************************************)
(* Mounting applications on a page and unmounting them:                     *)
(* packages/core/src/app/BaseEffuseApp.ts, with what createLayerRuntime and  *)
(* the dispose() of a runtime (packages/core/src/layers/internal/runtime.ts) *)
(* do to the one global layer context all of them share.  A call of mount()  *)
(* names its runtime, its canvas and its mount id.                          *)
(***************************************************************************)
EXTENDS Integers

CONSTANTS App, MaxMounts,
          Overlapping      \* mount() is called while another of its app runs

MountAssumption == MaxMounts \in Nat /\ Overlapping \in BOOLEAN

Call == 1..MaxMounts

NoCall == 0

VARIABLES
    app,             \* whose each call is
    call,            \* what each call is at
    runtime, canvas, \* what each call made
    awaits,          \* the runtime whose disposal it awaits
    layerRuntime, mountedCanvas, activeMountId,    \* the fields of an app
    context,         \* whose context is the global one
    previous         \* the global context a runtime found

mountVars == <<app, call, runtime, canvas, awaits, layerRuntime, mountedCanvas,
               activeMountId, context, previous>>

MountInit ==
    /\ app \in [Call -> App]
    /\ call = [m \in Call |-> "idle"] /\ runtime = [m \in Call |-> "none"]
    /\ canvas = [m \in Call |-> "none"] /\ awaits = [m \in Call |-> NoCall]
    /\ layerRuntime = [a \in App |-> NoCall] /\ mountedCanvas = [a \in App |-> NoCall]
    /\ activeMountId = [a \in App |-> NoCall]
    /\ context = NoCall /\ previous = [m \in Call |-> NoCall]

Marked(r) == runtime[r] \in {"disposing", "gone"}

\* Mutation: whatever it found comes back.
restoreGlobalLayerContextBlindly(r) ==
    context' = IF r = NoCall \/ context # r THEN context ELSE previous[r]

\* The dispose() of runtime r, up to its first await: its context is marked, and the
\* context it found comes back unless that one is marked too.
restoreGlobalLayerContext(r) ==
    context' = IF r = NoCall \/ context # r THEN context
               ELSE IF previous[r] # NoCall /\ ~Marked(previous[r]) THEN previous[r] ELSE NoCall

\* cleanup() of app a up to its await; r is the runtime it disposes of, run what each
\* runtime is at otherwise.
cleanup(a, r, run) ==
    /\ layerRuntime' = [layerRuntime EXCEPT ![a] = NoCall]
    /\ mountedCanvas' = [mountedCanvas EXCEPT ![a] = NoCall]
    /\ activeMountId' = [activeMountId EXCEPT ![a] = NoCall]
    /\ canvas' = [m \in Call |-> IF m = mountedCanvas[a] THEN "gone" ELSE canvas[m]]
    /\ runtime' = [m \in Call |-> IF m = r THEN "disposing" ELSE run[m]]
    /\ restoreGlobalLayerContext(r)

\* mount(): what the app shows goes first.
MountCalled(m) ==
    /\ call[m] = "idle" /\ \A n \in Call : n < m => call[n] # "idle"
    /\ Overlapping \/ \A n \in Call : app[n] = app[m] => call[n] \in {"idle", "mounted", "over"}
    /\ cleanup(app[m], layerRuntime[app[m]], runtime)
    /\ call' = [call EXCEPT ![m] = "cleaning"]
    /\ awaits' = [awaits EXCEPT ![m] = layerRuntime[app[m]]]
    /\ UNCHANGED <<app, previous>>

Awaited(m) == \A r \in Call : awaits[m] = r => runtime[r] = "gone"

\* The disposal over, the mount becomes the active one and its runtime is built; a
\* disposal that failed ends it.
Cleaned(m) ==
    /\ call[m] = "cleaning" /\ Awaited(m)
    /\ \/ /\ activeMountId' = [activeMountId EXCEPT ![app[m]] = m]
          /\ previous' = [previous EXCEPT ![m] = context]
          /\ runtime' = [runtime EXCEPT ![m] = "building"]
          /\ call' = [call EXCEPT ![m] = "building"]
       \/ /\ awaits[m] # NoCall
          /\ call' = [call EXCEPT ![m] = "over"]
          /\ UNCHANGED <<activeMountId, previous, runtime>>
    /\ UNCHANGED <<app, canvas, awaits, layerRuntime, mountedCanvas, context>>

\* createLayerRuntime: the layers are up, the global context is this runtime's...
Built(m) ==
    /\ call[m] = "building"
    /\ runtime' = [runtime EXCEPT ![m] = "live"] /\ context' = m
    /\ call' = [call EXCEPT ![m] = "mounting"]
    /\ UNCHANGED <<app, canvas, awaits, layerRuntime, mountedCanvas, activeMountId, previous>>

\* ... or they failed: the build has rolled them back.
BuildFails(m) ==
    /\ call[m] = "building"
    /\ IF activeMountId[app[m]] = m
       THEN /\ cleanup(app[m], layerRuntime[app[m]], [runtime EXCEPT ![m] = "gone"])
            /\ awaits' = [awaits EXCEPT ![m] = layerRuntime[app[m]]]
            /\ call' = [call EXCEPT ![m] = "failing"]
       ELSE /\ runtime' = [runtime EXCEPT ![m] = "gone"]
            /\ call' = [call EXCEPT ![m] = "over"]
            /\ UNCHANGED <<canvas, awaits, layerRuntime, mountedCanvas, activeMountId, context>>
    /\ UNCHANGED <<app, previous>>

\* The root component is mounted; the fields take the new runtime and canvas.
Shown(m) ==
    /\ call[m] = "mounting"
    /\ layerRuntime' = [layerRuntime EXCEPT ![app[m]] = m]
    /\ mountedCanvas' = [mountedCanvas EXCEPT ![app[m]] = m]
    /\ canvas' = [canvas EXCEPT ![m] = "live"]
    /\ call' = [call EXCEPT ![m] = "mounted"]
    /\ UNCHANGED <<app, runtime, awaits, activeMountId, context, previous>>

\* Mutation: a mount that throws leaves what it built.
ShowFailsLeaking(m) ==
    /\ call[m] = "mounting"
    /\ call' = [call EXCEPT ![m] = "over"]
    /\ UNCHANGED <<app, runtime, canvas, awaits, layerRuntime, mountedCanvas, activeMountId,
                   context, previous>>

\* The root component throws: the runtime just built goes, when its mount is still the
\* active one.
ShowFails(m) ==
    /\ call[m] = "mounting"
    /\ IF activeMountId[app[m]] = m
       THEN /\ cleanup(app[m], m, runtime)
            /\ awaits' = [awaits EXCEPT ![m] = m]
            /\ call' = [call EXCEPT ![m] = "failing"]
       ELSE /\ layerRuntime' = [layerRuntime EXCEPT ![app[m]] = m]
            /\ call' = [call EXCEPT ![m] = "over"]
            /\ UNCHANGED <<runtime, canvas, awaits, mountedCanvas, activeMountId, context>>
    /\ UNCHANGED <<app, previous>>

\* The cleanup of a mount that failed is over, and it throws.
Failed(m) ==
    /\ call[m] = "failing" /\ Awaited(m)
    /\ call' = [call EXCEPT ![m] = "over"]
    /\ UNCHANGED <<app, runtime, canvas, awaits, layerRuntime, mountedCanvas, activeMountId,
                   context, previous>>

\* Mutation: any handle takes down what the app shows.
UnmountAny(m) ==
    /\ call[m] = "mounted" /\ activeMountId[app[m]] # NoCall
    /\ cleanup(app[m], layerRuntime[app[m]], runtime)
    /\ UNCHANGED <<app, call, awaits, previous>>

\* unmount(): a handle that is not the active one does nothing.
Unmount(m) ==
    /\ call[m] = "mounted" /\ activeMountId[app[m]] = m
    /\ cleanup(app[m], layerRuntime[app[m]], runtime)
    /\ UNCHANGED <<app, call, awaits, previous>>

\* The layers' cleanups have settled.
Disposed(m) ==
    /\ runtime[m] = "disposing"
    /\ runtime' = [runtime EXCEPT ![m] = "gone"]
    /\ UNCHANGED <<app, call, canvas, awaits, layerRuntime, mountedCanvas, activeMountId,
                   context, previous>>

MountNext ==
    \E m \in Call :
        \/ MountCalled(m) \/ Cleaned(m) \/ Built(m) \/ BuildFails(m) \/ Shown(m)
        \/ ShowFails(m) \/ Failed(m) \/ Unmount(m) \/ Disposed(m)

MountSpec == MountInit /\ [][MountNext]_mountVars

----------------------------------------------------------------------------
\* Every variable keeps its type.
MountTyped ==
    /\ app \in [Call -> App]
    /\ call \in [Call -> {"idle", "cleaning", "building", "mounting", "mounted", "failing", "over"}]
    /\ runtime \in [Call -> {"none", "building", "live", "disposing", "gone"}]
    /\ canvas \in [Call -> {"none", "live", "gone"}]
    /\ awaits \in [Call -> Call \cup {NoCall}] /\ previous \in [Call -> Call \cup {NoCall}]
    /\ layerRuntime \in [App -> Call \cup {NoCall}] /\ mountedCanvas \in [App -> Call \cup {NoCall}]
    /\ activeMountId \in [App -> Call \cup {NoCall}] /\ context \in Call \cup {NoCall}

\* In whatever order runtimes come and go, and however their apps overlap, the global
\* layer context is never that of a runtime being disposed of.
ContextIsAlive == context # NoCall => ~Marked(context)

\* What is on the page is the app's active mount, whole, and it can be unmounted: nothing
\* of an earlier mount, or of one that failed, is left, and no stale handle took it away.
OnlyTheActiveIsUp ==
    \A m \in Call :
        /\ (runtime[m] = "live" /\ call[m] # "mounting") \/ canvas[m] = "live"
              => activeMountId[app[m]] = m /\ call[m] = "mounted"
        /\ activeMountId[app[m]] = m /\ call[m] = "mounted"
              => /\ runtime[m] = "live" /\ canvas[m] = "live"
                 /\ layerRuntime[app[m]] = m /\ mountedCanvas[app[m]] = m
=============================================================================
