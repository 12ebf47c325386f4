-------------------------------- MODULE MCTabs --------------------------------
(***************************************************************************)
(* The two protocols browser tabs speak, for TLC: the synced signal and the *)
(* election of a leader.  They share a transport but neither state nor a    *)
(* channel, so no step of one can disturb a property of the other: a        *)
(* behaviour runs the one that part names and leaves the other at rest.     *)
(***************************************************************************)
EXTENDS SyncedSignal, FiniteSets

CONSTANTS
    Early,           \* the tabs open from the start where the others open late
    Latecomers,      \* the tabs that may open late
    CrowdTab, CrowdHeartbeat, CrowdTimeout, CrowdCrashes, CrowdSplitCap,
    PairTab, PairHeartbeat, PairTimeout, PairDelay, PairInboxCap,
    PairCrashes, PairSuspends, PairSplitCap

ASSUME LateAssumption == Early \subseteq Tab /\ Latecomers \subseteq Tab

VARIABLES
    part,       \* "signal", "late", "crowd" or "pair"
    tabPhase, leader, known, silent, timer, tabInbox, crashes, suspends, split

elections == <<tabPhase, leader, known, silent, timer, tabInbox, crashes, suspends, split>>

\* An effect of tab 2 clamps "c" to "a"; the others leave the signal alone.
ClampInTab2 ==
    [t \in Tab |-> [v \in Value |-> IF t = 2 /\ v = "c" THEN "a" ELSE v]]

\* Applications that leave the signal alone.
NoReaction == [t \in Tab |-> [v \in Value |-> v]]

\* The signal where some tabs open late.
Late == INSTANCE SyncedSignal WITH Founders <- Early

\* Tabs with prompt delivery, some of which may crash.
Crowd == INSTANCE LeaderElection
    WITH Tab <- CrowdTab, Heartbeat <- CrowdHeartbeat, Timeout <- CrowdTimeout,
         Delay <- 0, InboxCap <- 1, MaxCrashes <- CrowdCrashes, MaxSuspends <- 0,
         SplitCap <- CrowdSplitCap, phase <- tabPhase, inbox <- tabInbox

\* Tabs with delayed delivery, some of which may crash and some be suspended.
Pair == INSTANCE LeaderElection
    WITH Tab <- PairTab, Heartbeat <- PairHeartbeat, Timeout <- PairTimeout,
         Delay <- PairDelay, InboxCap <- PairInboxCap, MaxCrashes <- PairCrashes,
         MaxSuspends <- PairSuspends, SplitCap <- PairSplitCap,
         phase <- tabPhase, inbox <- tabInbox

ASSUME CrowdAssumption == Crowd!Parameters
ASSUME PairAssumption == Pair!Parameters

TabsInit ==
    /\ part \in {"signal", "late", "crowd", "pair"}
    /\ IF part = "late" THEN Late!Init ELSE Init
    /\ IF part = "crowd" THEN Crowd!Init ELSE Pair!Init

OfSignal(step) == part \in {"signal", "late"} /\ step /\ UNCHANGED <<part, elections>>
OfCrowd(step) == part = "crowd" /\ step /\ UNCHANGED <<part, vars>>
OfPair(step) == part = "pair" /\ step /\ UNCHANGED <<part, vars>>

SignalNext ==
    \/ \E t \in Latecomers : OfSignal(Open(t))
    \/ \E t \in Tab :
        \/ OfSignal(OnUpdate(t))
        \/ OfSignal(OnRequest(t))
        \/ OfSignal(Dispose(t))
        \/ OfSignal(Sleep(t))
        \/ OfSignal(Lose(t))
        \/ OfSignal(Wake(t))
        \/ \E v \in Value : OfSignal(Write(t, v))
    \/ OfSignal(Tick)

\* Nobody in the crowd is suspended, so Suspend, Wake and Lose are never enabled.
CrowdNext ==
    \/ \E t \in CrowdTab :
        \/ OfCrowd(Crowd!TickLeading(t))
        \/ OfCrowd(Crowd!TickFollowing(t))
        \/ OfCrowd(Crowd!TickClaiming(t))
        \/ OfCrowd(Crowd!Confirm(t))
        \/ OfCrowd(Crowd!OnHeartbeat(t))
        \/ OfCrowd(Crowd!OnClaim(t))
        \/ OfCrowd(Crowd!OnResign(t))
        \/ OfCrowd(Crowd!Join(t))
        \/ OfCrowd(Crowd!Dispose(t))
        \/ OfCrowd(Crowd!Crash(t))
    \/ OfCrowd(Crowd!Advance)

PairNext ==
    \/ \E t \in PairTab :
        \/ OfPair(Pair!TickLeading(t))
        \/ OfPair(Pair!TickFollowing(t))
        \/ OfPair(Pair!TickClaiming(t))
        \/ OfPair(Pair!Confirm(t))
        \/ OfPair(Pair!OnHeartbeat(t))
        \/ OfPair(Pair!OnClaim(t))
        \/ OfPair(Pair!OnResign(t))
        \/ OfPair(Pair!Join(t))
        \/ OfPair(Pair!Dispose(t))
        \/ OfPair(Pair!Crash(t))
        \/ OfPair(Pair!Suspend(t))
        \/ OfPair(Pair!Wake(t))
        \/ OfPair(Pair!Lose(t))
    \/ OfPair(Pair!Advance)

TabsNext == SignalNext \/ CrowdNext \/ PairNext

\* What LeaderElection!Fairness asks, of the pair.
TabsFairness ==
    /\ WF_elections(OfPair(Pair!Advance))
    /\ \A t \in PairTab :
          /\ WF_elections(OfPair(Pair!Timers(t)))
          /\ WF_elections(OfPair(Pair!Messages(t)))
          /\ WF_elections(OfPair(Pair!Wake(t)))

TabsSpec == TabsInit /\ [][TabsNext]_<<part, vars, elections>> /\ TabsFairness

----------------------------------------------------------------------------
\* Every component keeps its types.
AllTyped ==
    /\ TypeOK
    /\ part = "crowd" => Crowd!TypeOK
    /\ part = "pair" => Pair!TypeOK

\* With nothing left in flight, all open tabs hold the same value, if all opened before
\* the first write, and each shows what its own effect makes of the value it holds.
OpenedTogetherAgree == part = "signal" => Agreement

\* Whenever tabs that hear one another have nothing left to do, at most one leads, and two
\* never both lead for longer than a heartbeat and its delivery.
LeadersGiveWay ==
    /\ part = "crowd" => Crowd!SettledSingleLeader
    /\ part = "pair" => Pair!SplitHeals

\* Once tabs stop coming and going, exactly one of those left leads for good.
ElectsOne == <>[](part = "pair" /\ Pair!Open # {} => Cardinality(Pair!Leaders) = 1)
=============================================================================
