----------------------------- MODULE Reactivity -----------------------------
(***************************************************************************)
(* Signals, computed signals and synchronous effects of packages/core/src:  *)
(* reactivity/dep.ts, signal.ts, computed.ts and effects/effect.ts.         *)
(*                                                                         *)
(* JavaScript runs a write and everything it sets off to the end before     *)
(* anything else, so the code's mutually recursive functions are operators  *)
(* from one graph to the next, and an action is one call of the program.    *)
(* A getter or the body of an effect is a Program: it reads a node and goes *)
(* on with what it read, writes a signal, returns, or throws.               *)
(***************************************************************************)
EXTENDS Integers, SequencesExt

CONSTANTS
    Signal, Cell, Fx,  \* signals, computed cells, effects
    Value,             \* values of signals
    Getter,            \* Getter[c]: the program of a computed
    Body,              \* Body[e]: the program of an effect; it returns what it saw
    Initial,           \* the value of every signal at first
    MaxWrites,         \* bound on the writes at top level
    MaxReads           \* bound on the reads at top level

Reading(n, next) == [op |-> "read", of |-> n, next |-> next]
Writing(s, v, next) == [op |-> "write", of |-> s, v |-> v, next |-> next]
Returning(v) == [op |-> "return", v |-> v]
Throwing == [op |-> "throw"]

Node == Signal \cup Cell
Undefined == -1      \* undefined; values are natural numbers
Failed == -2
MarkOf(c, d) == [kind |-> "markDirty", of |-> c, on |-> d]
RunOf(e) == [kind |-> "scheduleRun", of |-> e]

VARIABLES
    g,         \* the graph
    writes,    \* writes at top level so far
    reads      \* reads at top level so far

vars == <<g, writes, reads>>

\* A Set in insertion order.
With(q, x) == IF Contains(q, x) THEN q ELSE Append(q, x)
WithAll(q, xs) == FoldLeft(With, q, xs)

\* Steps of a loop or a body, none of which is reached after an exception.
Through(k, xs, Step(_, _)) == FoldLeft(LAMBDA h, x : IF h.thrown THEN h ELSE Step(h, x), k, xs)

\* The calls by which dep.ts comes back to cells and effects.
RECURSIVE Do(_, _)

----------------------------------------------------------------------------
\* dep.ts

CallAll(k, callbacks) == Through(k, callbacks, Do)

\* Mutation: the effects queued meanwhile are left for a later trigger.
FlushOnce(k) ==
    IF k.depth > 0 \/ k.pending = <<>> \/ k.thrown THEN k
    ELSE [CallAll([k EXCEPT !.pending = <<>>, !.depth = 1], k.pending) EXCEPT !.depth = 0]

\* flushPendingEffects(): a round of callbacks, then the round they queued.
Flush(k) ==
    IF k.depth > 0 \/ k.pending = <<>> \/ k.thrown THEN k
    ELSE Do([CallAll([k EXCEPT !.pending = <<>>, !.depth = 1], k.pending) EXCEPT !.depth = 0],
            [kind |-> "flush"])

Trigger(k, d) ==
    LET h == [k EXCEPT !.version[d] = @ + 1, !.global = @ + 1]
    IN IF k.subscribers[d] = <<>> THEN h
       ELSE IF k.batch > 0 THEN [h EXCEPT !.queue = WithAll(@, k.subscribers[d])]
       ELSE Do([h EXCEPT !.pending = WithAll(@, k.subscribers[d])], [kind |-> "flush"])

Subscribe(k, d, callback) ==
    LET h == [k EXCEPT !.subscribers[d] = With(@, callback)]
    IN IF d \in Cell /\ k.subscribers[d] = <<>>
       THEN Do([h EXCEPT !.observed[d] = TRUE], [kind |-> "observed", of |-> d])
       ELSE h

\* Mutation: the last subscriber leaves unreported.
UnsubscribeQuietly(k, d, callback) ==
    [k EXCEPT !.subscribers[d] = SelectSeq(@, LAMBDA x : x # callback)]

Unsubscribe(k, d, callback) ==
    IF k.subscribers[d] = <<callback>> /\ d \in Cell
    THEN Do([k EXCEPT !.subscribers[d] = <<>>, !.observed[d] = FALSE],
            [kind |-> "unobserved", of |-> d])
    ELSE [k EXCEPT !.subscribers[d] = SelectSeq(@, LAMBDA x : x # callback)]

----------------------------------------------------------------------------
\* computed.ts

Stale(k, c) == \E i \in DOMAIN k.tracked[c] : k.version[k.tracked[c][i]] # k.trackedVersions[c][i]

MarkDirty(k, c) == IF k.dirty[c] THEN k ELSE Trigger([k EXCEPT !.dirty[c] = TRUE], c)

\* cleanup()
Release(k, c) ==
    [Through(k, k.held[c], LAMBDA h, d : Unsubscribe(h, d, MarkOf(c, d)))
        EXCEPT !.held[c] = <<>>]

\* A source may have moved on while nothing was listening.
Noticed(k, c) == IF ~k.thrown /\ Stale(k, c) THEN MarkDirty(k, c) ELSE k

AttachSources(k, c) ==
    IF k.stopped[c] \/ k.held[c] # <<>> THEN k
    ELSE Noticed(Through(k, k.tracked[c], LAMBDA h, d :
            [Subscribe(h, d, MarkOf(c, d)) EXCEPT !.held[c] = Append(@, d)]), c)

SetValue(k, s, v) == IF k.value[s] = v THEN k ELSE Trigger([k EXCEPT !.value[s] = v], s)

RECURSIVE Eval(_, _, _)

\* The rest of a program, on what it has just read.
Onward(k, program, tracked) ==
    IF k.thrown THEN [graph |-> k, v |-> Undefined, tracked |-> tracked]
    ELSE LET n == program.of
         IN Eval(k, program.next[IF n \in Cell THEN k.cached[n] ELSE k.value[n]], With(tracked, n))

AfterWriting(k, program, tracked) ==
    IF k.thrown THEN [graph |-> k, v |-> Undefined, tracked |-> tracked]
    ELSE Eval(k, program.next, tracked)

\* A program run in a tracking context of its own.
Eval(k, program, tracked) ==
    CASE program.op = "read" ->
            Onward(IF program.of \in Cell THEN Do(k, [kind |-> "value", of |-> program.of]) ELSE k,
                   program, tracked)
      [] program.op = "write" -> AfterWriting(SetValue(k, program.of, program.v), program, tracked)
      [] program.op = "return" -> [graph |-> k, v |-> program.v, tracked |-> tracked]
      [] program.op = "throw" ->
            [graph |-> [k EXCEPT !.thrown = TRUE], v |-> Undefined, tracked |-> tracked]

Cached(r, c) == [r.graph EXCEPT !.cached[c] = r.v, !.dirty[c] = FALSE]

Tracking(k, c, sources) ==
    [k EXCEPT !.tracked[c] = sources, !.validated[c] = k.global,
              !.trackedVersions[c] = [i \in DOMAIN sources |-> k.version[sources[i]]]]

Attached(k, c) == IF k.observed[c] THEN AttachSources(k, c) ELSE k

Announced(k, c, changed) == IF ~k.thrown /\ changed THEN Trigger(k, c) ELSE k

\* Mutation: a recomputed cell that is observed does not hold its new sources.
ConcludedDetached(r, c) ==
    IF r.graph.thrown THEN r.graph
    ELSE Announced(Tracking(Cached(r, c), c, r.tracked), c, r.graph.cached[c] # r.v)

Concluded(r, c) ==
    IF r.graph.thrown THEN r.graph
    ELSE IF r.graph.stopped[c] THEN Cached(r, c)
    ELSE Announced(Attached(Tracking(Cached(r, c), c, r.tracked), c),
                   c, r.graph.cached[c] # r.v)

Recompute(k, c) == Concluded(Eval(Release(k, c), Getter[c], <<>>), c)

\* Mutation: the sources that are computed are not refreshed first.
RevalidateShallow(k, c) ==
    IF Stale(k, c) THEN Recompute([k EXCEPT !.validated[c] = k.global], c)
    ELSE [k EXCEPT !.validated[c] = k.global]

Revalidated(k, c) ==
    IF k.thrown THEN k
    ELSE IF k.dirty[c] \/ Stale(k, c) THEN Recompute([k EXCEPT !.validated[c] = k.global], c)
    ELSE [k EXCEPT !.validated[c] = k.global]

\* revalidate(): the sources that are computed are brought up to date first.
Revalidate(k, c) ==
    Revalidated(Through(k, SelectSeq(k.tracked[c], LAMBDA d : d \in Cell),
                        LAMBDA h, d : Do(h, [kind |-> "value", of |-> d])), c)

\* Reading value, or validate(): bring the cell up to date.
Refresh(k, c) ==
    IF k.dirty[c] THEN Recompute(k, c)
    ELSE IF ~k.observed[c] /\ ~k.stopped[c] /\ k.global # k.validated[c]
         THEN Revalidate(k, c)
         ELSE k

----------------------------------------------------------------------------
\* effect.ts

ClearSubscriptions(k, e) ==
    [Through(k, k.subscriptions[e], LAMBDA h, d : Unsubscribe(h, d, RunOf(e)))
        EXCEPT !.subscriptions[e] = <<>>]

Resubscribed(r, e) ==
    IF r.graph.thrown THEN r.graph
    ELSE Through([r.graph EXCEPT !.saw[e] = r.v], r.tracked, LAMBDA h, d :
            [Subscribe(h, d, RunOf(e)) EXCEPT !.subscriptions[e] = Append(@, d)])

\* execute(): a run that throws leaves the effect without subscriptions.
Execute(k, e) ==
    IF k.fx[e] # "active" THEN k
    ELSE Resubscribed(Eval(ClearSubscriptions(k, e), Body[e], <<>>), e)

Do(k, call) ==
    CASE call.kind = "markDirty" -> MarkDirty(k, call.of)
      [] call.kind = "scheduleRun" -> Execute(k, call.of)
      [] call.kind = "flush" -> Flush(k)
      [] call.kind = "observed" -> AttachSources(k, call.of)
      [] call.kind = "unobserved" -> Release(k, call.of)
      [] call.kind = "value" -> Refresh(k, call.of)

----------------------------------------------------------------------------
Init ==
    /\ g = [value |-> [s \in Signal |-> Initial[s]],
            version |-> [n \in Node |-> 0], global |-> 0,
            subscribers |-> [n \in Node |-> <<>>],
            pending |-> <<>>, depth |-> 0, batch |-> 0, queue |-> <<>>, thrown |-> FALSE,
            cached |-> [c \in Cell |-> Undefined], dirty |-> [c \in Cell |-> TRUE],
            tracked |-> [c \in Cell |-> <<>>], trackedVersions |-> [c \in Cell |-> <<>>],
            validated |-> [c \in Cell |-> -1], observed |-> [c \in Cell |-> FALSE],
            stopped |-> [c \in Cell |-> FALSE], held |-> [c \in Cell |-> <<>>],
            fx |-> [e \in Fx |-> "unborn"], saw |-> [e \in Fx |-> Undefined],
            subscriptions |-> [e \in Fx |-> <<>>]]
    /\ writes = 0
    /\ reads = 0

\* The program catches what an operation throws.
Becomes(k) == g' = [k EXCEPT !.thrown = FALSE]

Write(s, v) ==
    /\ writes < MaxWrites
    /\ g.value[s] # v
    /\ writes' = writes + 1
    /\ Becomes(SetValue(g, s, v))
    /\ UNCHANGED reads

Read(c) ==
    /\ reads < MaxReads
    /\ reads' = reads + 1
    /\ Becomes(Refresh(g, c))
    /\ UNCHANGED writes

\* watchEffect(): the first run.
Watch(e) ==
    /\ g.fx[e] = "unborn"
    /\ Becomes(Execute([g EXCEPT !.fx[e] = "active"], e))
    /\ UNCHANGED <<writes, reads>>

Stop(e) ==
    /\ g.fx[e] = "active"
    /\ Becomes(ClearSubscriptions([g EXCEPT !.fx[e] = "stopped"], e))
    /\ UNCHANGED <<writes, reads>>

DisposeComputed(c) ==
    /\ ~g.stopped[c]
    /\ Becomes([Release(g, c) EXCEPT !.stopped[c] = TRUE])
    /\ UNCHANGED <<writes, reads>>

StartBatch ==
    /\ g.batch = 0
    /\ writes < MaxWrites
    /\ Becomes([g EXCEPT !.batch = 1])
    /\ UNCHANGED <<writes, reads>>

\* Mutation: the callbacks of a batch are called while it is still open.
EndBatchOpen ==
    /\ g.batch = 1
    /\ Becomes([CallAll([g EXCEPT !.queue = <<>>], g.queue) EXCEPT !.batch = 0])
    /\ UNCHANGED <<writes, reads>>

EndBatch ==
    /\ g.batch = 1
    /\ Becomes(CallAll([g EXCEPT !.batch = 0, !.queue = <<>>], g.queue))
    /\ UNCHANGED <<writes, reads>>

Next ==
    \/ \E s \in Signal, v \in Value : Write(s, v)
    \/ \E c \in Cell : Read(c) \/ DisposeComputed(c)
    \/ \E e \in Fx : Watch(e) \/ Stop(e)
    \/ StartBatch \/ EndBatch

Spec == Init /\ [][Next]_vars

----------------------------------------------------------------------------
\* What a program would return if every computed were computed anew, but for
\* those disposed of, which keep the value they had.
RECURSIVE Meaning(_)
Meaning(program) ==
    CASE program.op = "read" ->
            LET n == program.of
                v == IF n \in Signal THEN g.value[n]
                     ELSE IF g.stopped[n] /\ ~g.dirty[n] THEN g.cached[n]
                     ELSE Meaning(Getter[n])
            IN IF v = Failed THEN v ELSE Meaning(program.next[v])
      [] program.op = "write" -> Meaning(program.next)
      [] program.op = "return" -> program.v
      [] program.op = "throw" -> Failed

Idle == g.batch = 0

\* The value a read of the computed gives now.
Answer(c) == LET h == Refresh(g, c) IN IF h.thrown THEN Failed ELSE h.cached[c]

\* Between two calls of the program nothing is left to be called, and a cell has
\* recorded a version for every source it tracks.
TypeOK ==
    /\ \A n \in Node : IsInjective(g.subscribers[n])
    /\ g.depth = 0 /\ g.pending = <<>> /\ g.thrown = FALSE
    /\ g.batch \in {0, 1} /\ (g.batch = 0 => g.queue = <<>>)
    /\ writes \in 0..MaxWrites /\ reads \in 0..MaxReads
    /\ \A c \in Cell : Len(g.tracked[c]) = Len(g.trackedVersions[c])

\* A computed never answers with a value its sources no longer give, whoever
\* observes it and whatever was read before.
ReadsFresh == Idle => \A c \in Cell : Answer(c) = Meaning(Reading(c, [v \in Value |-> Returning(v)]))

\* Every live effect has seen what it would see if it ran now.
EffectsCurrent ==
    Idle => \A e \in Fx : g.fx[e] = "active" => g.saw[e] = Meaning(Body[e])

\* A computed holds its sources while something depends on it, and only then.
HeldWhileObserved ==
    \A c \in Cell :
        /\ g.observed[c] = (g.subscribers[c] # <<>>)
        /\ g.held[c] # <<>> => g.observed[c]
        /\ \A n \in Node : Contains(g.held[c], n) = Contains(g.subscribers[n], MarkOf(c, n))

----------------------------------------------------------------------------
\* Programs that the runs give to cells and effects.

Bits == {0, 1}
Zeros == [s \in Signal |-> 0]

Sum(x, y) == Reading(x, [v \in Bits |-> Reading(y, [w \in Bits |-> Returning((v + w) % 2)])])
Copy(x) == Reading(x, [v \in Bits |-> Returning(v)])
Pick(x, y) == Reading(x, [v \in Bits |-> IF v = 0 THEN Returning(0) ELSE Copy(y)])
Both(x, y) == Reading(x, [v \in Bits |-> Reading(y, [w \in Bits |-> Returning(2 * v + w)])])

\* A diamond whose top reads one side only when the other is set, over a signal
\* an effect writes.
DiamondGetter == [c \in Cell |->
    CASE c = "left" -> Copy("a")
      [] c = "right" -> Pick("a", "b")
      [] c = "top" -> Sum("left", "right")]
DiamondBody == [e \in Fx |->
    CASE e = "seeTop" -> Both("a", "top")
      [] e = "copy" -> Reading("left", [v \in Bits |-> Writing("b", v, Returning(v))])]

\* A computed that fails on a value of its source.
FailingGetter == [c \in Cell |->
    Reading("a", [v \in Bits |-> IF v = 1 THEN Throwing ELSE Returning(v)])]
NoBody == [e \in Fx |-> Returning(0)]
=============================================================================
