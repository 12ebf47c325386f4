-------------------------------- MODULE SignIn --------------------------------
(***************************************************************************)
(* Signing in through a provider: createOAuthClient of                       *)
(* packages/auth/src/server/oauth/flow.ts, for browsers whose tabs share a   *)
(* cookie and a server whose replicas share a store.                        *)
(*                                                                         *)
(* Browsers, the store and the provider are external.  The provider sends    *)
(* the browser back with a code, which it takes once; the address it sends   *)
(* it to may be opened again, or in another browser.  Discovery, the token   *)
(* request and the checks of its answer fail or do not; PKCE, signatures and *)
(* redirect addresses are data.                                             *)
(***************************************************************************)
EXTENDS Integers, FiniteSets

CONSTANTS
    Browser, Flow,   \* Flow: the random states, in the order they are drawn
    None,
    Call,            \* requests that open a callback address, in their order
    MaxFaults        \* bound on what fails

SignInAssumption ==
    /\ Flow \subseteq Nat /\ Call \subseteq Nat /\ MaxFaults \in Nat
    /\ None \notin Browser /\ None \notin Flow

VARIABLES
    startedIn,    \* flow: the browser it was started in
    phase,        \* flow: "unused", "stored", "away" (at the provider), "back" with a code
                  \* or "declined"
    over,         \* flows started more than flowTtlMs ago
    flows,        \* the store: flows with a record
    cookie,       \* browser: the flow its cookie names
    calls,        \* each callback: its flow and browser, the cookie it came with, where it is
    faults,
    codes,        \* at the provider: flows whose code it would take
    presented,    \* flow: how often its code was presented
    doubled,      \* observer: flows with two callbacks at a time
    disturbed     \* observer: flows whose browser did something else since they began

atProvider == <<codes, presented>>
observers == <<doubled, disturbed>>
signInVars == <<startedIn, phase, over, flows, cookie, calls, faults, atProvider, observers>>

NoCall == [flow |-> None, browser |-> None, jar |-> None, at |-> "unused"]
UnderWay == {"read", "delete", "check", "exchange", "verify"}

SignInInit ==
    /\ startedIn = [f \in Flow |-> None] /\ phase = [f \in Flow |-> "unused"]
    /\ over = {} /\ flows = {} /\ cookie = [b \in Browser |-> None]
    /\ calls = [c \in Call |-> NoCall] /\ faults = 0
    /\ codes = {} /\ presented = [f \in Flow |-> 0]
    /\ doubled = {} /\ disturbed = {}

StartedBy(b) == {f \in Flow : startedIn[f] = b}

\* start(): the record is stored.
start(b, f) ==
    /\ phase[f] = "unused" /\ \A g \in Flow : g < f => phase[g] # "unused"
    /\ startedIn' = [startedIn EXCEPT ![f] = b] /\ phase' = [phase EXCEPT ![f] = "stored"]
    /\ flows' = flows \cup {f}
    /\ disturbed' = disturbed \cup StartedBy(b) \cup (IF StartedBy(b) = {} THEN {} ELSE {f})
    /\ UNCHANGED <<over, cookie, calls, faults, atProvider, doubled>>

\* Its answer arrives: the browser keeps the cookie and goes to the provider.
StartAnswered(f) ==
    /\ phase[f] = "stored"
    /\ phase' = [phase EXCEPT ![f] = "away"]
    /\ cookie' = [cookie EXCEPT ![startedIn[f]] = f]
    /\ UNCHANGED <<startedIn, over, flows, calls, faults, atProvider, observers>>

\* The provider has asked the user.
Authorised(f) ==
    /\ phase[f] = "away"
    /\ phase' = [phase EXCEPT ![f] = "back"] /\ codes' = codes \cup {f}
    /\ UNCHANGED <<startedIn, over, flows, cookie, calls, faults, presented, observers>>

\* It reports an error instead.
Declined(f) ==
    /\ phase[f] = "away"
    /\ phase' = [phase EXCEPT ![f] = "declined"]
    /\ UNCHANGED <<startedIn, over, flows, cookie, calls, faults, atProvider, observers>>

Go(c, to) == calls' = [calls EXCEPT ![c].at = to]

\* Mutation: a request without a cookie is taken to belong here.
ComesFromHereLax(jar, f) == jar \in {None, f}

\* Mutation: the cookie is looked for under a name it does not have.
ComesFromHereMisnamed(jar, f) == FALSE

\* The browser binding.
ComesFromHere(jar, f) == jar = f

\* callback(): a browser opens the address the provider sent it to, with its cookie.
callback(c, b, f) ==
    /\ phase[f] \in {"back", "declined"} /\ calls[c].at = "unused"
    /\ \A d \in Call : d < c => calls[d].at # "unused"
    /\ calls' = [calls EXCEPT ![c] =
                   [flow |-> f, browser |-> b, jar |-> cookie[b],
                    at |-> IF phase[f] = "back" /\ ComesFromHere(cookie[b], f)
                           THEN "read" ELSE "refused"]]
    /\ LET others == {d \in Call : calls[d].flow = f /\ calls[d].at \in UnderWay}
       IN doubled' = IF others = {} THEN doubled ELSE doubled \cup {f}
    /\ disturbed' = disturbed \cup
          (StartedBy(b) \ {g \in {f} : \A d \in Call : calls[d].flow = f => calls[d].browser # b})
    /\ UNCHANGED <<startedIn, phase, over, flows, cookie, faults, atProvider>>

\* flows.get(state)
ReadRecord(c) ==
    /\ calls[c].at = "read"
    /\ Go(c, IF calls[c].flow \in flows THEN "delete" ELSE "refused")
    /\ UNCHANGED <<startedIn, phase, over, flows, cookie, faults, atProvider, observers>>

\* Mutation: the record is deleted with the success.
DeleteRecordLater(c) ==
    /\ calls[c].at = "delete"
    /\ Go(c, IF calls[c].flow \in over THEN "refused" ELSE "check")
    /\ UNCHANGED <<startedIn, phase, over, flows, cookie, faults, atProvider, observers>>

\* flows.delete(state), and the check of the record's age.
DeleteRecord(c) ==
    /\ calls[c].at = "delete"
    /\ flows' = flows \ {calls[c].flow}
    /\ Go(c, IF calls[c].flow \in over THEN "refused" ELSE "check")
    /\ UNCHANGED <<startedIn, phase, over, cookie, faults, atProvider, observers>>

\* The provider's metadata are there, and the code is sent.
PresentCode(c) ==
    /\ calls[c].at = "check"
    /\ presented' = [presented EXCEPT ![calls[c].flow] = @ + 1]
    /\ Go(c, "exchange")
    /\ UNCHANGED <<startedIn, phase, over, flows, cookie, faults, codes, observers>>

\* The provider takes a code it has not seen.
Exchange(c) ==
    /\ calls[c].at = "exchange"
    /\ codes' = codes \ {calls[c].flow}
    /\ Go(c, IF calls[c].flow \in codes THEN "verify" ELSE "refused")
    /\ UNCHANGED <<startedIn, phase, over, flows, cookie, faults, presented, observers>>

\* The id token, or the identity that the access token leads to, is in order.
Verified(c) ==
    /\ calls[c].at = "verify"
    /\ Go(c, "signed in")
    /\ UNCHANGED <<startedIn, phase, over, flows, cookie, faults, atProvider, observers>>

\* An await that fails or brings what is refused, before or after the provider took the code.
CallFails(c) ==
    /\ calls[c].at \in {"check", "exchange", "verify"} /\ faults < MaxFaults
    /\ faults' = faults + 1
    /\ codes' \in IF calls[c].at = "exchange" THEN {codes, codes \ {calls[c].flow}} ELSE {codes}
    /\ Go(c, "refused")
    /\ UNCHANGED <<startedIn, phase, over, flows, cookie, presented, observers>>

\* The answer of callback() clears the cookie the request came with, by its name.
CallAnswered(c) ==
    /\ calls[c].at \in {"signed in", "refused"}
    /\ cookie' = IF calls[c].jar = None THEN cookie
                 ELSE [cookie EXCEPT ![calls[c].browser] = None]
    /\ Go(c, IF calls[c].at = "signed in" THEN "in" ELSE "out")
    /\ UNCHANGED <<startedIn, phase, over, flows, faults, atProvider, observers>>

\* flowTtlMs is over; the driver may drop the record and the browser its cookie, or later.
Lapse(f) ==
    /\ phase[f] # "unused" /\ f \notin over
    /\ over' = over \cup {f}
    /\ flows' \in {flows, flows \ {f}}
    /\ cookie' \in {cookie, [b \in Browser |-> IF cookie[b] = f THEN None ELSE cookie[b]]}
    /\ UNCHANGED <<startedIn, phase, calls, faults, atProvider, observers>>

SignInNext ==
    \/ \E f \in Flow :
        \/ StartAnswered(f) \/ Authorised(f) \/ Declined(f) \/ Lapse(f)
        \/ \E b \in Browser : start(b, f) \/ \E c \in Call : callback(c, b, f)
    \/ \E c \in Call :
        \/ ReadRecord(c) \/ DeleteRecord(c) \/ PresentCode(c) \/ Exchange(c)
        \/ Verified(c) \/ CallFails(c) \/ CallAnswered(c)

----------------------------------------------------------------------------
\* Every variable keeps its type.
SignInTyped ==
    /\ startedIn \in [Flow -> Browser \cup {None}]
    /\ phase \in [Flow -> {"unused", "stored", "away", "back", "declined"}]
    /\ over \subseteq Flow /\ flows \subseteq Flow /\ codes \subseteq Flow
    /\ cookie \in [Browser -> Flow \cup {None}]
    /\ calls \in [Call -> [flow : Flow \cup {None}, browser : Browser \cup {None},
                           jar : Flow \cup {None},
                           at : UnderWay \cup {"unused", "refused", "signed in", "in", "out"}]]
    /\ presented \in [Flow -> Nat] /\ faults \in 0..MaxFaults
    /\ doubled \subseteq Flow /\ disturbed \subseteq Flow

\* The code of a flow is presented once, unless a second callback overlapped the first: the
\* record is read and deleted in two steps.
CodePresentedOnce == \A f \in Flow \ doubled : presented[f] <= 1

\* Whoever is signed in began the flow in the same browser, and one callback of a flow signs in.
SignedInWhereStarted ==
    LET signedIn == {c \in Call : calls[c].at \in {"signed in", "in"}}
    IN /\ \A c \in signedIn : calls[c].browser = startedIn[calls[c].flow]
       /\ \A c, d \in signedIn : calls[c].flow = calls[d].flow => c = d

\* A callback is refused for a reason: the user declined, it came late, something failed, it is not the first
\* of its browser or not from the one that began it, or that browser began another sign-in or
\* opened another callback.
RefusedForReason ==
    \A c \in Call :
        calls[c].at \in {"refused", "out"} /\ faults = 0 =>
            \/ calls[c].flow \in over \cup disturbed
            \/ calls[c].browser # startedIn[calls[c].flow]
            \/ phase[calls[c].flow] = "declined"
=============================================================================
