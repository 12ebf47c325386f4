---------------------------- MODULE AwaitedValues ----------------------------
(***************************************************************************)
(* Three values that are asked for again before they were answered.         *)
(*                                                                         *)
(* The Await component (packages/core/src/components/Await.ts): a fetch is   *)
(* numbered by its promiseId; the promise it waits for settles when it likes.*)
(*                                                                         *)
(* A signal derived from stores by an asynchronous selector:                *)
(* deriveFromAsync (packages/store/src/reactivity/derived.ts),              *)
(* createSelectorAsync (selectors.ts) and computedAsync                     *)
(* (composition/compose.ts), three copies of one algorithm.  A run of the    *)
(* selector has a cancellation token of its own.                            *)
(*                                                                         *)
(* The locale of an i18n instance (packages/i18n/src/i18n.ts): setLocale,    *)
(* addTranslations and the loads they share.  A call of setLocale() is       *)
(* numbered by its transition.                                              *)
(***************************************************************************)
EXTENDS Integers

CONSTANTS MaxFetches

AwaitAssumption == MaxFetches \in Nat

PromiseId == 1..MaxFetches

VARIABLES
    ofSignal, defer,     \* the promise comes in a signal; nothing starts by itself
    activated, subscribed, unmounted,
    currentPromiseId,
    fetch,               \* each promise: "none", "pending", "settled" or "delivered"
    view                 \* the fetch whose result is rendered, 0 while pending

awaitVars == <<ofSignal, defer, activated, subscribed, unmounted, currentPromiseId, fetch, view>>

AwaitInit ==
    /\ ofSignal \in BOOLEAN /\ defer \in BOOLEAN
    /\ activated = FALSE /\ subscribed = FALSE /\ unmounted = FALSE
    /\ currentPromiseId = 0 /\ fetch = [p \in PromiseId |-> "none"] /\ view = 0

startFetch ==
    /\ currentPromiseId < MaxFetches
    /\ currentPromiseId' = currentPromiseId + 1
    /\ fetch' = [fetch EXCEPT ![currentPromiseId + 1] = "pending"]
    /\ view' = 0

activate == activated' = TRUE /\ subscribed' = (subscribed \/ (ofSignal /\ ~activated))

\* The children are read for the first time...
Render ==
    /\ ~activated /\ ~unmounted
    /\ activate
    /\ IF defer THEN UNCHANGED <<currentPromiseId, fetch, view>> ELSE startFetch
    /\ UNCHANGED <<ofSignal, defer, unmounted>>

\* ... or _start() or _refresh() is called.
Start ==
    /\ ~unmounted
    /\ activate /\ startFetch
    /\ UNCHANGED <<ofSignal, defer, unmounted>>

\* The signal has another promise.
PromiseChanges ==
    /\ subscribed /\ startFetch
    /\ UNCHANGED <<ofSignal, defer, activated, subscribed, unmounted>>

PromiseSettles(p) ==
    /\ fetch[p] = "pending"
    /\ fetch' = [fetch EXCEPT ![p] = "settled"]
    /\ UNCHANGED <<ofSignal, defer, activated, subscribed, unmounted, currentPromiseId, view>>

\* Mutation: the result of any fetch is taken.
DeliverAny(p) ==
    /\ fetch[p] = "settled"
    /\ fetch' = [fetch EXCEPT ![p] = "delivered"]
    /\ view' = IF unmounted THEN view ELSE p
    /\ UNCHANGED <<ofSignal, defer, activated, subscribed, unmounted, currentPromiseId>>

\* The reaction to a settled promise runs in a microtask of its own.
Deliver(p) ==
    /\ fetch[p] = "settled"
    /\ fetch' = [fetch EXCEPT ![p] = "delivered"]
    /\ view' = IF unmounted \/ p # currentPromiseId THEN view ELSE p
    /\ UNCHANGED <<ofSignal, defer, activated, subscribed, unmounted, currentPromiseId>>

AwaitDispose ==
    /\ ~unmounted /\ unmounted' = TRUE /\ subscribed' = FALSE
    /\ UNCHANGED <<ofSignal, defer, activated, currentPromiseId, fetch, view>>

AwaitNext ==
    \/ Render \/ Start \/ PromiseChanges \/ AwaitDispose
    \/ \E p \in PromiseId : PromiseSettles(p) \/ Deliver(p)

AwaitSpec == AwaitInit /\ [][AwaitNext]_awaitVars

----------------------------------------------------------------------------
\* Every variable keeps its type.
AwaitTyped ==
    /\ ofSignal \in BOOLEAN /\ defer \in BOOLEAN /\ activated \in BOOLEAN
    /\ subscribed \in BOOLEAN /\ unmounted \in BOOLEAN
    /\ currentPromiseId \in 0..MaxFetches /\ view \in 0..MaxFetches
    /\ fetch \in [PromiseId -> {"none", "pending", "settled", "delivered"}]

Latest == INSTANCE Newest WITH asked <- currentPromiseId, shown <- view, closed <- unmounted

\* However promises are replaced and in whatever order they settle, only the result of
\* the newest is rendered, and nothing changes once the component is gone.
AwaitIsNewest == Latest!NewestSpec

-----------------------------------------------------------------------------
CONSTANTS MaxUpdates

DerivedAsyncAssumption == MaxUpdates \in Nat \ {0}

Update == 1..MaxUpdates

VARIABLES
    updates,       \* runs started
    selecting,     \* each run: "none", "running", "fulfilled", "rejected", "handled",
                   \* "over", or "threw" when the selector made no promise
    isCancelled,   \* the token of each run
    derived,       \* the run whose value the signal has, 0 for the initial value
    pending,
    released       \* cleanup() was called

selectVars == <<updates, selecting, isCancelled, derived, pending, released>>

\* update() runs once at creation.
SelectInit ==
    /\ updates = 1 /\ selecting = [u \in Update |-> IF u = 1 THEN "running" ELSE "none"]
    /\ isCancelled = [u \in Update |-> FALSE]
    /\ derived = 0 /\ pending = TRUE /\ released = FALSE

\* Mutation: a new run forgets to cancel the one before.
updateKeeping ==
    /\ ~released /\ updates < MaxUpdates
    /\ updates' = updates + 1
    /\ \E how \in {"running", "threw"} : selecting' = [selecting EXCEPT ![updates + 1] = how]
    /\ pending' = TRUE
    /\ UNCHANGED <<isCancelled, derived, released>>

\* A store has changed.
update ==
    /\ ~released /\ updates < MaxUpdates
    /\ updates' = updates + 1
    /\ isCancelled' = [isCancelled EXCEPT ![updates] = TRUE]
    /\ \E how \in {"running", "threw"} : selecting' = [selecting EXCEPT ![updates + 1] = how]
    /\ pending' = TRUE
    /\ UNCHANGED <<derived, released>>

SelectorSettles(u) ==
    /\ selecting[u] = "running"
    /\ \E how \in {"fulfilled", "rejected"} : selecting' = [selecting EXCEPT ![u] = how]
    /\ UNCHANGED <<updates, isCancelled, derived, pending, released>>

\* then() and catch(), which swallows.
TakeValue(u) ==
    /\ selecting[u] \in {"fulfilled", "rejected"}
    /\ derived' = IF selecting[u] = "fulfilled" /\ ~isCancelled[u] THEN u ELSE derived
    /\ selecting' = [selecting EXCEPT ![u] = "handled"]
    /\ UNCHANGED <<updates, isCancelled, pending, released>>

\* Mutation: any run that ends ends the waiting.
EndPendingAlways(u) ==
    /\ selecting[u] = "handled"
    /\ pending' = FALSE
    /\ selecting' = [selecting EXCEPT ![u] = "over"]
    /\ UNCHANGED <<updates, isCancelled, derived, released>>

\* finally()
EndPending(u) ==
    /\ selecting[u] = "handled"
    /\ pending' = (pending /\ isCancelled[u])
    /\ selecting' = [selecting EXCEPT ![u] = "over"]
    /\ UNCHANGED <<updates, isCancelled, derived, released>>

cleanupDerived ==
    /\ ~released /\ released' = TRUE
    /\ isCancelled' = [isCancelled EXCEPT ![updates] = TRUE]
    /\ UNCHANGED <<updates, selecting, derived, pending>>

SelectNext ==
    \/ update \/ cleanupDerived
    \/ \E u \in Update : SelectorSettles(u) \/ TakeValue(u) \/ EndPending(u)

SelectSpec == SelectInit /\ [][SelectNext]_selectVars

----------------------------------------------------------------------------
\* Every variable keeps its type.
SelectTyped ==
    /\ updates \in Update /\ derived \in 0..MaxUpdates
    /\ selecting \in [Update -> {"none", "running", "fulfilled", "rejected", "handled", "over", "threw"}]
    /\ isCancelled \in [Update -> BOOLEAN] /\ pending \in BOOLEAN /\ released \in BOOLEAN

Values == INSTANCE Newest WITH asked <- updates, shown <- derived, closed <- released

\* A value comes from the newest run of the selector, whichever ends last, and none
\* comes after cleanup().
DerivedIsNewest == Values!NewestSpec

\* Until cleanup(), pending says that the newest run has not ended; a selector that throws
\* at once never does.
PendingIsTrue == ~released => pending = (selecting[updates] # "over")

-----------------------------------------------------------------------------
CONSTANTS Language, Default, MaxCalls

LocaleAssumption == Default \in Language /\ MaxCalls \in Nat

Transition == 1..MaxCalls

VARIABLES
    localeTransition,
    want, asking,       \* the locale of each call, and what the call is at: "none",
                        \* "loading", "loaded", "rejected", "returned" or "threw"
    locale,             \* the call whose locale is active, 0 for the default one
    stored,             \* the call whose locale is persisted
    translations,       \* of each locale: {} or where they come from
    pendingLoads        \* of each locale: "none", "running", "loaded" or "rejected"

localeVars == <<localeTransition, want, asking, locale, stored, translations, pendingLoads>>

LocaleInit ==
    /\ localeTransition = 0 /\ want = [c \in Transition |-> Default]
    /\ asking = [c \in Transition |-> "none"] /\ locale = 0 /\ stored = 0
    /\ translations = [l \in Language |-> IF l = Default THEN {"options"} ELSE {}]
    /\ pendingLoads = [l \in Language |-> "none"]

\* The active locale; nothing is activated before its translations are there.
Active == IF locale = 0 THEN Default ELSE want[locale]

\* The rest of setLocale() after its await.
Activate(c) ==
    /\ asking' = [asking EXCEPT ![c] = "returned"]
    /\ IF c = localeTransition' THEN locale' = c /\ stored' = c ELSE UNCHANGED <<locale, stored>>

\* Translations that are there are used at once; a load that runs is shared.
setLocale(l) ==
    LET c == localeTransition + 1 IN
    /\ localeTransition < MaxCalls
    /\ localeTransition' = c /\ want' = [want EXCEPT ![c] = l]
    /\ IF translations[l] # {}
       THEN Activate(c) /\ UNCHANGED pendingLoads
       ELSE /\ asking' = [asking EXCEPT
                            ![c] = IF pendingLoads[l] = "rejected" THEN "rejected" ELSE "loading"]
            /\ pendingLoads' = IF pendingLoads[l] = "none"
                               THEN [pendingLoads EXCEPT ![l] = "running"] ELSE pendingLoads
            /\ UNCHANGED <<locale, stored>>
    /\ UNCHANGED translations

\* The loader has answered: its translations replace what is there.
LoadEnds(l) ==
    /\ pendingLoads[l] = "running"
    /\ \E how \in {"loaded", "rejected"} :
          /\ pendingLoads' = [pendingLoads EXCEPT ![l] = how]
          /\ translations' = IF how = "loaded" THEN [translations EXCEPT ![l] = {"loader"}]
                             ELSE translations
          /\ asking' = [c \in Transition |-> IF asking[c] = "loading" /\ want[c] = l
                                             THEN how ELSE asking[c]]
    /\ UNCHANGED <<localeTransition, want, locale, stored>>

\* finally() forgets the load, so that a failed one can be tried again.
Forget(l) ==
    /\ pendingLoads[l] \in {"loaded", "rejected"}
    /\ pendingLoads' = [pendingLoads EXCEPT ![l] = "none"]
    /\ UNCHANGED <<localeTransition, want, asking, locale, stored, translations>>

\* Mutation: whoever was loaded activates its locale.
ResumeAny(c) ==
    /\ asking[c] \in {"loaded", "rejected"}
    /\ asking' = [asking EXCEPT ![c] = IF asking[c] = "loaded" THEN "returned" ELSE "threw"]
    /\ IF asking[c] = "loaded" THEN locale' = c /\ stored' = c ELSE UNCHANGED <<locale, stored>>
    /\ UNCHANGED <<localeTransition, want, translations, pendingLoads>>

\* Mutation: a load that failed activates its locale as well.
ResumeFailed(c) ==
    /\ asking[c] \in {"loaded", "rejected"}
    /\ UNCHANGED localeTransition /\ Activate(c)
    /\ UNCHANGED <<want, translations, pendingLoads>>

\* A call goes on in a microtask of its own; a failed load is thrown to its caller.
Resume(c) ==
    /\ UNCHANGED localeTransition
    /\ \/ asking[c] = "loaded" /\ Activate(c)
       \/ /\ asking[c] = "rejected"
          /\ asking' = [asking EXCEPT ![c] = "threw"] /\ UNCHANGED <<locale, stored>>
    /\ UNCHANGED <<want, translations, pendingLoads>>

addTranslations(l) ==
    /\ translations' = [translations EXCEPT ![l] = @ \cup {"added"}]
    /\ UNCHANGED <<localeTransition, want, asking, locale, stored, pendingLoads>>

LocaleNext ==
    \/ \E l \in Language : setLocale(l) \/ LoadEnds(l) \/ Forget(l) \/ addTranslations(l)
    \/ \E c \in Transition : Resume(c)

\* Loaders need not answer.
LocaleSpec == LocaleInit /\ [][LocaleNext]_localeVars

----------------------------------------------------------------------------
\* Every variable keeps its type.
LocaleTyped ==
    /\ localeTransition \in 0..MaxCalls /\ {locale, stored} \subseteq 0..MaxCalls
    /\ want \in [Transition -> Language]
    /\ asking \in [Transition -> {"none", "loading", "loaded", "rejected", "returned", "threw"}]
    /\ translations \in [Language -> SUBSET {"options", "loader", "added"}]
    /\ pendingLoads \in [Language -> {"none", "running", "loaded", "rejected"}]

Requested == INSTANCE Newest WITH asked <- localeTransition, shown <- locale, closed <- FALSE

\* "only the latest requested locale becomes active", however loads end (README.md:49).
LocaleIsNewest == Requested!NewestSpec

\* A failed load leaves "the current locale" as it was: what is active has translations, and
\* what is persisted is what is active.
ActiveIsTranslated == translations[Active] # {} /\ stored = locale
=============================================================================
