----------------------------- MODULE RouterView ------------------------------
(***************************************************************************)
(* The outlet of the router: packages/router/src/components/RouterView.ts,  *)
(* for one depth and name, with lazyRouteComponent() of core/route.ts.      *)
(*                                                                         *)
(* A page stands for the update key of its route.  Its component renders at *)
(* once ("plain"), is loaded once and kept ("lazy"), is a function that      *)
(* returns a new promise at each call ("legacy"), or there is none for this *)
(* outlet.  The view's first update is part of its mounting: if it throws    *)
(* there is no view.                                                        *)
(***************************************************************************)
EXTENDS Integers, Sequences

CONSTANTS
    Page, None,
    MaxChanges,    \* bound on changes of the route
    Hasty          \* the route changes again before the view has followed it

RouterViewAssumption == MaxChanges \in Nat /\ Page # {} /\ None \notin Page /\ Hasty \in BOOLEAN

VARIABLES
    pageKind, throws,     \* pages by kind, and those whose rendering throws
    activeRoute, changed,
    lastViewKey, matchedView,
    queuedUpdates,        \* calls of updateView queued as microtasks
    promises,             \* what became of the promises asked for
    cachedModule,         \* page: the promise kept by lazyRouteComponent, 0 if none
    renderings            \* calls of renderLazyComponent, with where their reactions are

application == <<pageKind, throws>>
outletVars == <<application, activeRoute, changed, lastViewKey, matchedView,
                queuedUpdates, promises, cachedModule, renderings>>

Rendering == DOMAIN renderings
View(p, what) == [page |-> p, what |-> what]

OutletInit ==
    /\ pageKind \in [Page -> {"plain", "lazy", "legacy", "none"}] /\ throws \in SUBSET Page
    /\ activeRoute \in {p \in Page : pageKind[p] # "plain" \/ p \notin throws} /\ changed = 0
    /\ lastViewKey = None /\ matchedView = View(None, "empty") /\ queuedUpdates = 1
    /\ promises = << >> /\ cachedModule = [p \in Page |-> 0] /\ renderings = << >>

\* A navigation commits; checkRouteChange runs within that write.
RouteChanges(p) ==
    /\ p # activeRoute /\ changed < MaxChanges
    /\ lastViewKey # None /\ (Hasty \/ queuedUpdates = 0)
    /\ activeRoute' = p /\ changed' = changed + 1
    /\ queuedUpdates' = IF lastViewKey = p THEN queuedUpdates ELSE queuedUpdates + 1
    /\ UNCHANGED <<application, lastViewKey, matchedView, promises, cachedModule, renderings>>

\* The component is asked for, or its cached promise is taken, and the fallback shown.
renderLazyComponent(p) ==
    LET cached == pageKind[p] = "lazy" /\ cachedModule[p] # 0
        q == IF cached THEN cachedModule[p] ELSE Len(promises) + 1
    IN /\ promises' = IF cached THEN promises ELSE Append(promises, "pending")
       /\ cachedModule' = IF pageKind[p] = "lazy" THEN [cachedModule EXCEPT ![p] = q]
                          ELSE cachedModule
       /\ renderings' = Append(renderings, [key |-> p, promise |-> q, phase |-> "waiting"])
       /\ lastViewKey' = p /\ matchedView' = View(p, "fallback")

\* A queued update; nothing is rendered twice in a row, and a component that throws leaves
\* everything as it was.
updateView ==
    /\ queuedUpdates > 0 /\ queuedUpdates' = queuedUpdates - 1
    /\ IF lastViewKey = activeRoute \/ (pageKind[activeRoute] = "plain" /\ activeRoute \in throws)
       THEN UNCHANGED <<lastViewKey, matchedView, promises, cachedModule, renderings>>
       ELSE IF pageKind[activeRoute] \in {"lazy", "legacy"}
       THEN renderLazyComponent(activeRoute)
       ELSE /\ lastViewKey' = activeRoute
            /\ matchedView' =
                  View(activeRoute, IF pageKind[activeRoute] = "none" THEN "empty" ELSE "content")
            /\ UNCHANGED <<promises, cachedModule, renderings>>
    /\ UNCHANGED <<application, activeRoute, changed>>

\* Only a lazy component is checked before its promise resolves.
PromiseSettles(q, how) ==
    /\ promises[q] = "pending"
    /\ how = "other" => \A p \in Page : cachedModule[p] # q
    /\ promises' = [promises EXCEPT ![q] = how]
    /\ UNCHANGED <<application, activeRoute, changed, lastViewKey, matchedView, queuedUpdates,
                   cachedModule, renderings>>

Reacted(r, phase) == renderings' = [renderings EXCEPT ![r].phase = phase]

\* Mutation: the answer is shown whatever the route is by now.
ResolvedAnyway(r) ==
    /\ renderings[r].phase = "waiting" /\ promises[renderings[r].promise] \in {"module", "other"}
    /\ LET p == renderings[r].key IN
       IF promises[renderings[r].promise] = "other"
       THEN Reacted(r, "over") /\ matchedView' = View(p, "error")
       ELSE IF p \in throws THEN Reacted(r, "caught") /\ UNCHANGED matchedView
       ELSE Reacted(r, "over") /\ matchedView' = View(p, "content")
    /\ UNCHANGED <<application, activeRoute, changed, lastViewKey, queuedUpdates, promises,
                   cachedModule>>

\* The promise has been kept: the component is rendered if its page is still the active one.
Resolved(r) ==
    /\ renderings[r].phase = "waiting" /\ promises[renderings[r].promise] \in {"module", "other"}
    /\ LET p == renderings[r].key IN
       IF activeRoute # p THEN Reacted(r, "over") /\ UNCHANGED matchedView
       ELSE IF promises[renderings[r].promise] = "other"
       THEN Reacted(r, "over") /\ matchedView' = View(p, "error")
       ELSE IF p \in throws THEN Reacted(r, "caught") /\ UNCHANGED matchedView
       ELSE Reacted(r, "over") /\ matchedView' = View(p, "content")
    /\ UNCHANGED <<application, activeRoute, changed, lastViewKey, queuedUpdates, promises,
                   cachedModule>>

\* It has been broken, or the rendering threw.
Rejected(r) ==
    /\ \/ renderings[r].phase = "caught"
       \/ renderings[r].phase = "waiting" /\ promises[renderings[r].promise] = "failed"
    /\ Reacted(r, "over")
    /\ matchedView' = IF activeRoute = renderings[r].key THEN View(activeRoute, "error")
                      ELSE matchedView
    /\ UNCHANGED <<application, activeRoute, changed, lastViewKey, queuedUpdates, promises,
                   cachedModule>>

OutletNext ==
    \/ \E p \in Page : RouteChanges(p)
    \/ updateView
    \/ \E q \in DOMAIN promises, how \in {"module", "other", "failed"} : PromiseSettles(q, how)
    \/ \E r \in Rendering : Resolved(r) \/ Rejected(r)

OutletSpec == OutletInit /\ [][OutletNext]_outletVars

----------------------------------------------------------------------------
\* Every variable keeps its type.
OutletTyped ==
    /\ pageKind \in [Page -> {"plain", "lazy", "legacy", "none"}] /\ throws \subseteq Page
    /\ activeRoute \in Page /\ changed \in 0..MaxChanges
    /\ lastViewKey \in Page \cup {None} /\ queuedUpdates \in 0..(MaxChanges + 1)
    /\ matchedView \in [page : Page \cup {None}, what : {"empty", "content", "fallback", "error"}]
    /\ promises \in Seq({"pending", "module", "other", "failed"})
    /\ cachedModule \in [Page -> 0..Len(promises)]
    /\ renderings \in Seq([key : Page, promise : 1..Len(promises),
                           phase : {"waiting", "caught", "over"}])

\* What a page shows once its promise, if there is one, is settled.
Due(p) ==
    CASE pageKind[p] = "none" -> {"empty"}
      [] pageKind[p] = "plain" -> {"content"}
      [] pageKind[p] = "legacy" -> {"content", "error"}
      [] pageKind[p] = "lazy" ->
            {IF promises[cachedModule[p]] = "module" /\ p \notin throws THEN "content" ELSE "error"}

\* The view has followed the route, and no answer for its page is outstanding.
AtRest ==
    /\ queuedUpdates = 0
    /\ \A r \in Rendering : renderings[r].key = activeRoute => renderings[r].phase = "over"

\* However late and in whatever order components are loaded, the view comes to rest on the
\* page of the route, with what became of its component (RouterView.ts updateView and
\* renderLazyComponent), where it follows each change and no component throws at once.
ViewFollowsRoute ==
    ~Hasty /\ (\A p \in throws : pageKind[p] # "plain") /\ AtRest =>
        matchedView.page = activeRoute /\ matchedView.what \in Due(activeRoute)
=============================================================================
