--------------------------------- MODULE Store ---------------------------------
(***************************************************************************)
(* A store: packages/store/src/core/store.ts and handlers/operations.ts.    *)
(*                                                                         *)
(* Everything but the end of an asynchronous action is synchronous, and      *)
(* calls the application in the middle: effects when a signal is written,    *)
(* subscribers, the bodies of batches, updates and actions.  `frames' is the  *)
(* call stack: the operations under way, each with the step that comes next   *)
(* and the code of the application it is waiting for.                       *)
(*                                                                         *)
(* A value is what the middlewares made of it.  Selectors depend on the       *)
(* whole state.  Development tools, a storage that refuses a write, and what  *)
(* key subscribers are given are left out.                                  *)
(***************************************************************************)
EXTENDS Integers, SequencesExt

CONSTANTS
    Keys,              \* in their order
    Declared,          \* those of the definition; the others are only assigned
    Value, Default,
    Manners,           \* what applications may do
    MaxCalls

Key == ToSet(Keys)
Absent == -1
Snapshot == [Key -> Value \cup {Absent}]

StoreAssumption ==
    /\ Keys \in Seq(Key) /\ Declared \subseteq Key
    /\ Value \subseteq Nat /\ Default \in Value /\ MaxCalls \in Nat
    /\ Manners \subseteq SUBSET {"effects", "subscribers", "throws", "actions", "failures",
                                 "recursion"}
ASSUME StoreKnown == StoreAssumption

VARIABLES
    manner,
    signals, atomic,   \* signalMap, atomicState
    saved,             \* what the storage holds
    selected,          \* the state each of two selectors was last computed from
    noticed,           \* the state at the last call of the subscribers
    batchDepth, frames,
    newest,            \* calls of the action
    runs,              \* its promises: the call each is of, and its token
    pendingAction,     \* the run whose token is in pendingActions
    spokeLate,         \* a superseded run has told the subscribers of its end
    lastEnd, calls

followers == <<saved, selected, noticed>>
actionVars == <<newest, runs, pendingAction, spokeLate>>
storeVars == <<manner, signals, atomic, batchDepth, frames, lastEnd, calls, followers, actionVars>>

Initial == [k \in Key |-> IF k \in Declared THEN Default ELSE Absent]

\* What was saved earlier is restored: keys that were only assigned, in one copy alone.
StoreInit ==
    /\ manner \in Manners
    /\ saved \in {Initial} \cup {[Initial EXCEPT ![k] = v] : k \in Key, v \in Value}
    /\ signals = [k \in Key |-> IF k \in Declared THEN saved[k] ELSE Absent]
    /\ atomic = saved
    /\ selected = <<signals, signals>> /\ noticed = signals
    /\ batchDepth = 0 /\ frames = << >>
    /\ newest = 0 /\ runs = << >> /\ pendingAction = 0 /\ spokeLate = FALSE
    /\ lastEnd = "none" /\ calls = 0

Top == Last(frames)

\* An operation, the step that follows, and the code of the application that runs first.
Frame(op, at, data, in) == [op |-> op, at |-> at, data |-> data, in |-> in]

\* The effects of a signal that was written; those an effect sets off run after it.
Effects(changed, below) ==
    IF changed /\ \A i \in DOMAIN below : below[i].in # "effects" THEN "effects" ELSE "nothing"

\* The application runs, and may call the store.
MayCall ==
    /\ calls < MaxCalls
    /\ frames # << >> => Top.in \in manner \cup {"body"}

Push(f) == frames' = Append(frames, f) /\ calls' = calls + 1
Become(f) == frames' = Append(Front(frames), f) /\ calls' = calls
At(step) == frames # << >> /\ Top.at = step

\* notifyAll() and notifyKey(), then persist() and updateComputed(), or nothing in a batch.
Notify(op, depth, now) ==
    IF depth = 0
    THEN noticed' = now /\ Become(Frame(op, "persist", 0, "subscribers"))
    ELSE noticed' = noticed /\ Become(Frame(op, "end", 0, "nothing"))

setValue(k, v) ==
    /\ MayCall
    /\ signals' = [signals EXCEPT ![k] = v]
    /\ Push(Frame("set", "atomic", <<k, v>>, Effects(signals[k] \notin {v, Absent}, frames)))
    /\ UNCHANGED <<manner, atomic, batchDepth, lastEnd, actionVars, followers>>

\* The rest of setValue() once effects have run.
Assigned ==
    /\ At("atomic")
    /\ atomic' = [atomic EXCEPT ![Top.data[1]] = Top.data[2]]
    /\ Notify("set", batchDepth, signals)
    /\ UNCHANGED <<manner, signals, saved, selected, batchDepth, lastEnd, actionVars>>

\* persist() and the first selector of updateComputed().
Persist ==
    /\ At("persist")
    /\ IF batchDepth > 0
       THEN Become(Frame(Top.op, "end", 0, "nothing")) /\ UNCHANGED <<saved, selected>>
       ELSE /\ saved' = signals
            /\ selected' = [selected EXCEPT ![1] = signals]
            /\ Become(Frame(Top.op, "second", signals,
                            Effects(selected[1] # signals, Front(frames))))
    /\ UNCHANGED <<manner, signals, atomic, noticed, batchDepth, lastEnd, actionVars>>

\* The second selector, of the state updateComputed() began with.
Select ==
    /\ At("second")
    /\ selected' = [selected EXCEPT ![2] = Top.data]
    /\ Become(Frame(Top.op, "end", 0, Effects(selected[2] # Top.data, Front(frames))))
    /\ UNCHANGED <<manner, signals, atomic, saved, noticed, batchDepth, lastEnd, actionVars>>

\* An operation returns.
End ==
    /\ At("end")
    /\ frames' = Front(frames) /\ calls' = calls
    /\ lastEnd' = IF Len(frames) > 1 THEN lastEnd
                  ELSE IF Top.op \in {"action", "run", "write"} THEN "action" ELSE "whole"
    /\ UNCHANGED <<manner, signals, atomic, batchDepth, actionVars, followers>>

batchUpdates ==
    /\ MayCall
    /\ batchDepth' = batchDepth + 1
    /\ Push(Frame("batch", "close", 0, "body"))
    /\ UNCHANGED <<manner, signals, atomic, lastEnd, actionVars, followers>>

\* Mutation: the followers are called before the batch has been left.
CloseLate ==
    /\ At("close")
    /\ batchDepth' = batchDepth - 1
    /\ Notify("batch", batchDepth, signals)
    /\ UNCHANGED <<manner, signals, atomic, saved, selected, lastEnd, actionVars>>

\* The body of a batch returns.
Close ==
    /\ At("close")
    /\ batchDepth' = batchDepth - 1
    /\ Notify("batch", batchDepth', signals)
    /\ UNCHANGED <<manner, signals, atomic, saved, selected, lastEnd, actionVars>>

\* updateState() as far as its updater, and resetState().
updateState ==
    /\ MayCall
    /\ Push(Frame("update", "draft", signals, "body"))
    /\ UNCHANGED <<manner, signals, atomic, batchDepth, lastEnd, actionVars, followers>>
resetState ==
    /\ MayCall
    /\ Push(Frame("reset", "write", <<Initial, 1>>, "nothing"))
    /\ UNCHANGED <<manner, signals, atomic, batchDepth, lastEnd, actionVars, followers>>

\* The updater returns with a draft of the state it was given.
Drafted ==
    /\ At("draft")
    /\ batchDepth' = batchDepth + 1
    /\ \E k \in {k \in Key : Top.data[k] # Absent}, v \in Value :
          Become(Frame("update", "write", <<[Top.data EXCEPT ![k] = v], 1>>, "nothing"))
    /\ UNCHANGED <<manner, signals, atomic, lastEnd, actionVars, followers>>

\* An update or a reset writes the signal of the key whose turn it is, if it has one.  An
\* update writes the other copy of a key once the effects of the first have run ("later":
\* those that have to wait for others), a reset the whole of it in the end.
WriteNext ==
    /\ At("write")
    /\ LET state == Top.data[1]
           turn == Top.data[2]
           over == turn > Len(Keys)
           updates == Top.op = "update" IN
       /\ atomic' = IF updates /\ Top.in # "nothing"
                    THEN [atomic EXCEPT ![Keys[turn - 1]] = state[Keys[turn - 1]]]
                    ELSE IF over /\ ~updates THEN Initial ELSE atomic
       /\ IF over
          THEN /\ batchDepth' = IF updates THEN batchDepth - 1 ELSE batchDepth
               /\ Notify(Top.op, batchDepth', signals)
               /\ UNCHANGED signals
          ELSE LET k == Keys[turn]
                   writes == Absent \notin {signals[k], state[k]} /\ signals[k] # state[k]
                   effects == Effects(writes, Front(frames)) IN
               /\ signals' = IF writes THEN [signals EXCEPT ![k] = state[k]] ELSE signals
               /\ Become(Frame(Top.op, "write", <<state, turn + 1>>,
                               IF writes /\ effects = "nothing" THEN "later" ELSE effects))
               /\ UNCHANGED <<batchDepth, noticed>>
    /\ UNCHANGED <<manner, saved, selected, lastEnd, actionVars>>

\* Mutation: a call leaves the token of the one before as it is.
ActionCalledBeside ==
    /\ MayCall /\ "actions" \in manner
    /\ "recursion" \notin manner => \A i \in DOMAIN frames : frames[i].op # "action"
    /\ newest' = newest + 1
    /\ Push(Frame("action", "return", newest', "body"))
    /\ UNCHANGED <<manner, signals, atomic, batchDepth, runs, pendingAction, spokeLate, lastEnd,
                   followers>>

\* An action is called, and the run of an earlier call cancelled.
ActionCalled ==
    /\ MayCall /\ "actions" \in manner
    /\ "recursion" \notin manner => \A i \in DOMAIN frames : frames[i].op # "action"
    /\ newest' = newest + 1
    /\ runs' = IF pendingAction = 0 THEN runs
               ELSE [runs EXCEPT ![pendingAction].cancelled = TRUE]
    /\ Push(Frame("action", "return", newest', "body"))
    /\ UNCHANGED <<manner, signals, atomic, batchDepth, pendingAction, spokeLate, lastEnd,
                   followers>>

\* The action, or what follows its first await, writes a signal by itself.
DirectWrite(k, v) ==
    /\ calls < MaxCalls /\ k \in Declared /\ signals[k] # v
    /\ IF frames = << >> THEN \E r \in DOMAIN runs : ~runs[r].over ELSE At("return")
    /\ signals' = [signals EXCEPT ![k] = v]
    /\ Push(Frame("write", "end", 0, Effects(TRUE, frames)))
    /\ UNCHANGED <<manner, atomic, batchDepth, lastEnd, actionVars, followers>>

\* The action returns, with a promise or without; the subscribers are told even in a batch.
ActionReturns ==
    /\ At("return")
    /\ \/ /\ noticed' = signals
          /\ Become(Frame("action", "end", 0, "subscribers"))
          /\ UNCHANGED <<runs, pendingAction>>
       \/ /\ runs' = Append(runs, [call |-> Top.data, cancelled |-> FALSE, over |-> FALSE])
          /\ pendingAction' = Len(runs')
          /\ Become(Frame("action", "end", 0, "nothing"))
          /\ noticed' = noticed
    /\ UNCHANGED <<manner, signals, atomic, saved, selected, batchDepth, newest, spokeLate,
                   lastEnd>>

\* The promise of an action settles: with a value, or rejected.
RunEnds(r) ==
    /\ frames = << >> /\ r \in DOMAIN runs /\ ~runs[r].over
    /\ runs' = [runs EXCEPT ![r].over = TRUE]
    /\ \/ /\ runs[r].cancelled
          /\ UNCHANGED <<pendingAction, noticed, spokeLate, frames>>
       \/ /\ ~runs[r].cancelled
          /\ pendingAction' = 0 /\ noticed' = signals
          /\ spokeLate' = (spokeLate \/ runs[r].call # newest)
          /\ frames' = <<Frame("run", "end", 0, "subscribers")>>
       \/ /\ "failures" \in manner
          /\ pendingAction' = 0 /\ UNCHANGED <<noticed, spokeLate, frames>>
    /\ UNCHANGED <<manner, signals, atomic, saved, selected, batchDepth, newest, lastEnd, calls>>

\* Code of the application throws, through every operation under way: the depth of a batch
\* is put right, that of an update is not.  Out of the end of a promise, it rejects that.
Throw ==
    /\ "throws" \in manner /\ frames # << >> /\ Top.in \in manner \cup {"body"}
    /\ batchDepth' = batchDepth - Cardinality({i \in DOMAIN frames : frames[i].at = "close"})
    /\ pendingAction' = IF frames[1].op = "run" THEN 0 ELSE pendingAction
    /\ frames' = << >> /\ lastEnd' = "cut"
    /\ UNCHANGED <<manner, signals, atomic, calls, newest, runs, spokeLate, followers>>

StoreNext ==
    \/ Assigned \/ Persist \/ Select \/ End \/ batchUpdates \/ Close
    \/ updateState \/ resetState \/ Drafted \/ WriteNext
    \/ ActionCalled \/ ActionReturns \/ Throw
    \/ \E k \in Key, v \in Value : setValue(k, v) \/ DirectWrite(k, v)
    \/ \E r \in DOMAIN runs : RunEnds(r)

StoreSpec == StoreInit /\ [][StoreNext]_storeVars

----------------------------------------------------------------------------
\* Every variable keeps its type.
StoreTyped ==
    /\ manner \in Manners
    /\ {signals, atomic, saved, noticed, selected[1], selected[2]} \subseteq Snapshot
    /\ batchDepth \in 0..MaxCalls /\ calls \in 0..MaxCalls /\ newest \in 0..MaxCalls
    /\ \A i \in DOMAIN frames :
          /\ frames[i].op \in {"set", "batch", "update", "reset", "action", "run", "write"}
          /\ frames[i].in \in {"nothing", "effects", "later", "subscribers", "body"}
    /\ runs \in Seq([call : 1..MaxCalls, cancelled : BOOLEAN, over : BOOLEAN])
    /\ pendingAction \in 0..Len(runs) /\ spokeLate \in BOOLEAN
    /\ lastEnd \in {"none", "whole", "action", "cut"}

\* Whatever follows the state has caught up when an operation has returned to the
\* application: the subscribers were told after the last change, unless a promise of an action
\* makes changes, and, if effects do not call back, the selectors and the storage hold the
\* state as it is - although subscribers call the store while it is telling them, and
\* operations are nested in batches.
StoreIsFollowed ==
    frames = << >> /\ lastEnd = "whole" /\ ~({"effects", "throws"} \subseteq manner) =>
        /\ runs = << >> => noticed = signals
        /\ "effects" \notin manner => selected = <<signals, signals>> /\ saved = signals

\* If effects do not call back and actions do not write signals by themselves, the two
\* copies of the state agree on the keys of the definition.
CopiesAgree ==
    frames = << >> /\ manner \cap {"effects", "actions", "throws"} = {} =>
        \A k \in Declared : signals[k] = atomic[k]

\* A promise superseded by a later call of its action tells the subscribers nothing, as
\* long as no run or subscriber fails and no action calls itself.
SupersededIsSilent == spokeLate => manner \cap {"failures", "throws", "recursion"} # {}

\* core/store.test.ts:126, "should support computed chaining": a selector is computed again
\* from the state an operation leaves behind.
SelectorsFollow == frames = << >> /\ lastEnd = "whole" => selected = <<signals, signals>>

\* handlers/operations.test.ts:159, "should reset batching flag even if updates throw".
BatchesEnd == frames = << >> => batchDepth = 0
=============================================================================
