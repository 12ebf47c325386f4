--------------------------- MODULE RequestPipeline ---------------------------
(***************************************************************************)
(* One request on its way through a server: packages/core/src/ssr/          *)
(* middleware-pipeline.ts, middleware-runtime.ts, the dispatch of            *)
(* server-routing.ts (handleLayerServerRequest, dispatchMatched) and what    *)
(* response-cache.ts answers for the handler.                               *)
(*                                                                         *)
(* covers gives what each middleware of the compiled graph matches; a        *)
(* middleware awaits its next() and then answers or throws, whatever came   *)
(* out of it.  Actions have reserved paths and routes of the API others, and *)
(* methods are those of HTTP.  A cleanup is something deferred that has yet  *)
(* to run.                                                                 *)
(***************************************************************************)
EXTENDS Integers, Sequences

CONSTANTS Path, Reserved, Method,
          Safe,           \* methods whose responses a cache keeps
          Handled,        \* paths a route or an action answers
          Cached,         \* paths of routes with a cache policy
          Scopes,         \* what a middleware may match: [paths, methods, targets]
          Middlewares,    \* how many there are, in their compiled order
          MaxRewrites     \* maxRewrites

Target == {"action", "api"}
Scope == [paths : SUBSET Path, methods : SUBSET Method, targets : SUBSET Target]

PipelineAssumption ==
    /\ Reserved \subseteq Path /\ Safe \subseteq Method
    /\ Handled \subseteq Path /\ Cached \subseteq Handled
    /\ Scopes \subseteq Scope
    /\ Middlewares \in Nat /\ MaxRewrites \in Nat

Unset == "none"

\* Whose a runtime or a cleanup is, beside the middlewares: the handler's, when the
\* request waits for it, and when a stale response is refreshed behind it.
Own == 0
Behind == -1

VARIABLES
    covers,      \* what each middleware matches
    target,      \* what the request was for when it came
    piped,       \* the host has a middleware graph
    defers,      \* the handler defers a cleanup
    current, method,   \* the request as it was replaced last
    pathname, chosen,  \* the path and the method the chain was selected for
    rewritten, seen, pass,
    turn,        \* who acts: "in", "terminal", "handler", "scope", "runtime", "out", ...
    entered,     \* the middlewares entered that have not returned
    result,      \* what comes out: Unset, "response" or "error"
    passed,      \* the middlewares that called next() in this pass
    resolved,    \* the terminal has resolved the request
    live,        \* the layer runtimes that are not disposed of
    owed,        \* the disposers, in the order they were deferred
    missed,      \* whose were deferred when the disposers had begun to run
    refresh,     \* the run behind a stale response: Unset or what it does next
    scoped,      \* cleanups of the refresh in a scope of its own
    late         \* history: its handler was yet to come when the disposers began

pipelineVars == <<covers, target, piped, defers, current, method, pathname, chosen, rewritten,
                  seen, pass, turn, entered, result, passed, resolved, live, owed, missed,
                  refresh, scoped, late>>

fixed == <<covers, target, piped, defers>>
onward == <<current, method, pathname, chosen, rewritten, seen, pass>>
cleanups == <<owed, missed, late>>
behind == <<refresh, scoped>>

\* findActionHandler() ?? findApiHandler().
Kind(path) == IF path \in Reserved THEN "action" ELSE "api"

Covers(m, path, verb, kind) ==
    path \in covers[m].paths /\ verb \in covers[m].methods /\ kind \in covers[m].targets

\* selectServerMiddlewareChain, for the target the request came with; the chain is entered
\* in the compiled order.
Chain == {m \in 1..Middlewares : Covers(m, pathname, chosen, target)}
Following(m) == m \in Chain \ entered /\ \A k \in Chain \ entered : m <= k

PipelineInit ==
    /\ covers \in [1..Middlewares -> Scopes]
    /\ piped \in BOOLEAN /\ defers \in BOOLEAN
    /\ current \in Handled /\ method \in Method /\ target = Kind(current)
    /\ pathname = current /\ chosen = method /\ rewritten = Unset
    /\ seen = {current} /\ pass = 0
    /\ turn = (IF piped THEN "in" ELSE "terminal")
    /\ entered = {} /\ result = Unset /\ passed = {} /\ resolved = FALSE
    /\ live = {} /\ owed = << >> /\ missed = {}
    /\ refresh = Unset /\ scoped = {} /\ late = FALSE

\* defer(): the loop over the disposers does not come to what is added once it has begun.
Defer(who) ==
    IF turn \in {"cleanup", "over"}
    THEN missed' = missed \cup {who} /\ UNCHANGED owed
    ELSE owed' = Append(owed, who) /\ UNCHANGED missed

NothingDeferred == UNCHANGED <<owed, missed>>

\* A middleware may defer a cleanup before it does anything else.
MayDefer(m) == NothingDeferred \/ Defer(m)

\* It calls next(), with a replacement of the request or without...
Delegate(m) ==
    /\ turn = "in" /\ Following(m)
    /\ MayDefer(m)
    /\ current' \in Path /\ method' \in Method
    /\ entered' = entered \cup {m} /\ passed' = passed \cup {m}
    /\ turn' = IF Chain \subseteq entered' THEN "terminal" ELSE "in"
    /\ UNCHANGED <<fixed, pathname, chosen, rewritten, seen, pass, result, resolved, live, late,
                   behind>>

\* ... or answers, or throws, without it.
CutShort(m) ==
    /\ turn = "in" /\ Following(m)
    /\ MayDefer(m)
    /\ result' \in {"response", "error"} /\ turn' = "out"
    /\ UNCHANGED <<fixed, onward, entered, passed, resolved, live, late, behind>>

NoChain ==
    /\ turn = "in" /\ Chain = {} /\ turn' = "terminal"
    /\ UNCHANGED <<fixed, onward, entered, result, passed, resolved, live, cleanups, behind>>

\* The client has gone: nothing further in is run.
Abort ==
    /\ piped /\ turn \in {"in", "terminal"}
    /\ result' = "error" /\ turn' = "out"
    /\ UNCHANGED <<fixed, onward, entered, passed, resolved, live, cleanups, behind>>

\* The terminal of the pipeline: a request for another path goes back.
GoBack ==
    /\ current # pathname
    /\ rewritten' = current /\ result' = "response" /\ turn' = "out"
    /\ UNCHANGED <<resolved, live, behind>>

\* dispatch() to the handler, which gets a runtime when its layers can be built.
Invoke ==
    /\ current \in Handled
    /\ \/ live' = live \cup {Own} /\ turn' = "handler" /\ UNCHANGED result
       \/ result' = "error" /\ turn' = "out" /\ UNCHANGED live
    /\ UNCHANGED behind

\* dispatch() to nobody, a 404; and ResponseCache.handle() with an entry, which is
\* refreshed behind the response when it is stale and no run for it is under way, or with
\* a run under way, whose response or failure is shared.
AnswerWithout ==
    /\ \/ current \notin Handled /\ result' = "response" /\ UNCHANGED behind
       \/ /\ current \in Cached /\ method \in Safe
          /\ \/ result' \in {"response", "error"} /\ UNCHANGED behind
             \/ result' = "response" /\ refresh' = "build" /\ UNCHANGED scoped
    /\ turn' = "out" /\ UNCHANGED live

Resolve == resolved' = TRUE /\ UNCHANGED rewritten /\ (Invoke \/ AnswerWithout)

\* Mutation: the innermost terminal resolves whatever it is given.
TerminalUnmatched ==
    /\ turn = "terminal" /\ Resolve
    /\ UNCHANGED <<fixed, current, method, pathname, chosen, seen, pass, entered, passed, cleanups>>

\* What is left of the chain is the terminal.
Terminal ==
    /\ turn = "terminal"
    /\ GoBack \/ (current = pathname /\ Resolve)
    /\ UNCHANGED <<fixed, current, method, pathname, chosen, seen, pass, entered, passed, cleanups>>

\* The layers' middleware, the contract and the handler, which may fail.
Handle ==
    /\ turn = "handler"
    /\ IF defers THEN Defer(Own) ELSE NothingDeferred
    /\ result' \in {"response", "error"}
    /\ turn' = IF piped THEN "runtime" ELSE "scope"
    /\ UNCHANGED <<fixed, onward, entered, passed, resolved, live, late, behind>>

\* Cleanups run last one first; what they throw is reported, not thrown.
RunDisposer == owed # << >> /\ owed' = SubSeq(owed, 1, Len(owed) - 1)

\* A scope of its own is disposed of before the runtime is.
DisposeScope ==
    /\ turn = "scope"
    /\ \/ RunDisposer /\ UNCHANGED turn
       \/ owed = << >> /\ turn' = "runtime" /\ UNCHANGED owed
    /\ UNCHANGED <<fixed, onward, entered, result, passed, resolved, live, missed, late, behind>>

\* Mutation: only a response makes the runtime go.
DisposeRuntimeOnSuccess ==
    /\ turn = "runtime"
    /\ live' = IF result = "response" THEN live \ {Own} ELSE live
    /\ result' \in {result, "error"}
    /\ turn' = IF piped THEN "out" ELSE "over"
    /\ UNCHANGED <<fixed, onward, entered, passed, resolved, cleanups, behind>>

\* runtime.dispose(), whose failure is the request's.
DisposeRuntime ==
    /\ turn = "runtime"
    /\ live' = live \ {Own}
    /\ result' \in {result, "error"}
    /\ turn' = IF piped THEN "out" ELSE "over"
    /\ UNCHANGED <<fixed, onward, entered, passed, resolved, cleanups, behind>>

\* A middleware gets back what it awaited, and answers or throws.
Unwind(m) ==
    /\ turn = "out" /\ m \in entered /\ \A k \in entered : k <= m
    /\ entered' = entered \ {m}
    /\ result' \in {"response", "error"}
    /\ UNCHANGED <<fixed, onward, turn, passed, resolved, live, cleanups, behind>>

\* The onion is through, and runDisposers() begins.
EndPass ==
    /\ turn = "out" /\ entered = {} /\ turn' = (IF piped THEN "cleanup" ELSE "over")
    /\ late' = (refresh \in {"build", "handler"})
    /\ UNCHANGED <<fixed, onward, entered, result, passed, resolved, live, owed, missed, behind>>

Cleanup ==
    /\ turn = "cleanup" /\ RunDisposer
    /\ UNCHANGED <<fixed, onward, turn, entered, result, passed, resolved, live, missed, late,
                   behind>>

\* The response, or the error, is final unless the path was rewritten.
Settle ==
    /\ turn = "cleanup" /\ owed = << >> /\ (result = "error" \/ rewritten = Unset)
    /\ turn' = "over"
    /\ UNCHANGED <<fixed, onward, entered, result, passed, resolved, live, cleanups, behind>>

\* Mutation: one rewrite more than maxRewrites.
RefusedOnceMore == rewritten \in Reserved \cup seen \/ pass > MaxRewrites

\* A rewrite to a reserved path, to one that was seen, or one too many.
Refused == rewritten \in Reserved \cup seen \/ pass = MaxRewrites

Again ==
    /\ turn = "cleanup" /\ owed = << >> /\ result = "response" /\ rewritten # Unset
    /\ UNCHANGED <<fixed, entered, resolved, live, cleanups, behind>>

Refuse ==
    /\ Again /\ Refused
    /\ result' = "error" /\ turn' = "over"
    /\ UNCHANGED <<onward, passed>>

\* Another pass, with a chain selected for the path and the method by now.
Rematch ==
    /\ Again /\ ~Refused
    /\ pass' = pass + 1 /\ pathname' = rewritten /\ current' = rewritten
    /\ chosen' = method /\ UNCHANGED method
    /\ seen' = seen \cup {rewritten} /\ rewritten' = Unset
    /\ result' = Unset /\ turn' = "in" /\ passed' = {}

\* The run behind a stale response, with the scope of the request it is stale for or,
\* without a graph, one of its own: dispatchMatched(), whatever has become of the request.
request == <<fixed, onward, turn, entered, result, passed, resolved, late>>

RefreshBuilds ==
    /\ refresh = "build"
    /\ \/ refresh' = "handler" /\ live' = live \cup {Behind}
       \/ refresh' = "over" /\ UNCHANGED live
    /\ UNCHANGED <<request, owed, missed, scoped>>

RefreshHandles ==
    /\ refresh = "handler"
    /\ refresh' = IF piped THEN "runtime" ELSE "scope"
    /\ IF defers /\ piped THEN Defer(Behind) ELSE NothingDeferred
    /\ scoped' = IF defers /\ ~piped THEN {Behind} ELSE scoped
    /\ UNCHANGED <<request, live>>

RefreshCleans ==
    /\ refresh = "scope"
    /\ refresh' = "runtime" /\ scoped' = {}
    /\ UNCHANGED <<request, live, owed, missed>>

RefreshDisposes ==
    /\ refresh = "runtime"
    /\ refresh' = "over" /\ live' = live \ {Behind}
    /\ UNCHANGED <<request, owed, missed, scoped>>

Refresh == RefreshBuilds \/ RefreshHandles \/ RefreshCleans \/ RefreshDisposes

PipelineNext ==
    \/ \E m \in 1..Middlewares : Delegate(m) \/ CutShort(m) \/ Unwind(m)
    \/ NoChain \/ Abort \/ Terminal \/ Handle \/ DisposeScope \/ DisposeRuntime
    \/ EndPass \/ Cleanup \/ Settle \/ Refuse \/ Rematch
    \/ Refresh

\* Middleware, handlers and cleanups settle.
PipelineSpec == PipelineInit /\ [][PipelineNext]_pipelineVars /\ WF_pipelineVars(PipelineNext)

----------------------------------------------------------------------------
\* Every variable keeps its type.
PipelineTyped ==
    /\ covers \in [1..Middlewares -> Scope] /\ target \in Target
    /\ piped \in BOOLEAN /\ defers \in BOOLEAN
    /\ {current, pathname} \subseteq Path /\ rewritten \in Path \cup {Unset}
    /\ {method, chosen} \subseteq Method
    /\ seen \subseteq Path /\ pass \in 0..MaxRewrites
    /\ turn \in {"in", "terminal", "handler", "scope", "runtime", "out", "cleanup", "over"}
    /\ entered \subseteq 1..Middlewares /\ result \in {Unset, "response", "error"}
    /\ passed \subseteq 1..Middlewares /\ resolved \in BOOLEAN
    /\ live \subseteq {Own, Behind} /\ owed \in Seq(Behind..Middlewares)
    /\ missed \subseteq Behind..Middlewares /\ late \in BOOLEAN
    /\ refresh \in {Unset, "build", "handler", "scope", "runtime", "over"}
    /\ scoped \subseteq {Behind}

\* The middleware that covers what the terminal resolves let it through.
LetThrough == \A m \in 1..Middlewares : Covers(m, current, method, Kind(current)) => m \in passed

\* "a rewrite can never skip the guards protecting its destination": the terminal runs a
\* handler, or serves a cached response, only when every middleware that covers the path,
\* the method and the kind of the handler has let it through, unless the request was
\* replaced by one of another method for the same path, or came for the other kind.
GuardsRan == resolved /\ piped => LetThrough \/ method # chosen \/ Kind(current) # target

\* The same of every rewritten request, as the comment has it (middleware-pipeline.ts:104).
DestinationGuarded == turn = "handler" /\ pass > 0 => LetThrough

\* However a request ends, there is a response or an error, its runtime is gone and its
\* disposers have run; a refresh behind it leaves no runtime either, nor anything deferred,
\* but for one that shares the scope of the request and came to defer after its disposers
\* had begun.
LeavesNothing ==
    /\ turn = "over" =>
          /\ result # Unset /\ Own \notin live
          /\ owed = << >> /\ (missed = {} \/ (piped /\ late))
    /\ refresh = "over" => Behind \notin live /\ scoped = {}

\* Rewrites never keep a request from being answered.
Answered == turn = "over"
RequestAnswered == []<>Answered
=============================================================================
