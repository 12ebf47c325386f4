------------------------------ MODULE StoreProofs ------------------------------
(***************************************************************************)
(* What is proved of a store: that whatever follows its state has caught up   *)
(* when an operation returns, however operations are nested.                  *)
(***************************************************************************)
EXTENDS Store, FiniteSetTheorems, SequenceTheorems, TLAPS

----------------------------------------------------------------------------
\* Stores, for every set of keys and values and every manner of applications.  An
\* operation under way that has not told the followers yet will tell them of all that was
\* done within it, because batchDepth counts the frames that hold it up: whatever is put off
\* is put off by an operation further down the stack.

Operations == {"set", "batch", "update", "reset"}

\* The frames an operation goes through.
FrameSet ==
    [op : {"set"}, at : {"atomic"}, data : Key \X Value, in : {"nothing", "effects"}]
    \cup [op : Operations, at : {"persist"}, data : {0}, in : {"subscribers"}]
    \cup [op : Operations, at : {"second"}, data : Snapshot, in : {"nothing", "effects"}]
    \cup [op : Operations \cup {"write"}, at : {"end"}, data : {0}, in : {"nothing", "effects"}]
    \cup [op : {"action", "run"}, at : {"end"}, data : {0}, in : {"nothing", "subscribers"}]
    \cup [op : {"batch"}, at : {"close"}, data : {0}, in : {"body"}]
    \cup [op : {"update"}, at : {"draft"}, data : Snapshot, in : {"body"}]
    \cup [op : {"update", "reset"}, at : {"write"}, data : Snapshot \X {1}, in : {"nothing"}]
    \cup [op : {"update", "reset"}, at : {"write"}, data : Snapshot \X (2..Len(Keys) + 1),
          in : {"nothing", "effects", "later"}]
    \cup [op : {"action"}, at : {"return"}, data : 1..MaxCalls, in : {"body"}]

Run == [call : 1..MaxCalls, cancelled : BOOLEAN, over : BOOLEAN]

\* The types, and who can be waiting: code the application has, or the body it was given.
StackInv ==
    /\ manner \in Manners
    /\ {signals, atomic, saved, noticed} \subseteq Snapshot
    /\ selected \in Snapshot \X Snapshot
    /\ frames \in Seq(FrameSet) /\ runs \in Seq(Run)
    /\ batchDepth \in Nat /\ calls \in 0..MaxCalls /\ newest \in 0..calls
    /\ pendingAction \in 0..Len(runs) /\ spokeLate \in BOOLEAN
    /\ lastEnd \in {"none", "whole", "action", "cut"}
    /\ \A i \in 1..Len(frames) - 1 : frames[i].in \in manner \cup {"body"}

\* Nothing of the application that throws runs while an update holds the followers up.
Calm == ~({"effects", "throws"} \subseteq manner)

Batching(f) == f.at = "close" \/ (f.op = "update" /\ f.at = "write")
Batched == {i \in 1..Len(frames) : Batching(frames[i])}
Drafts == {i \in 1..Len(frames) : frames[i].at = "draft"}

\* The depth counts what holds the followers up.
DepthInv ==
    /\ Cardinality(Batched) <= batchDepth /\ batchDepth + Cardinality(Drafts) <= calls
    /\ Calm => batchDepth = Cardinality(Batched)

\* An operation that has yet to tell the subscribers.
Unfinished(f) == f.at \in {"atomic", "close", "draft", "write", "return"}

NoticeInv ==
    Calm /\ runs = << >> /\ (frames # << >> \/ lastEnd # "cut") =>
        noticed = signals \/ \E i \in 1..Len(frames) : Unfinished(frames[i])

\* The selectors and the storage, when effects do not call back: the last disjunct is
\* what an operation leaves, the others are why it may not have yet.
FollowInv ==
    "effects" \notin manner =>
        /\ \A i \in 1..Len(frames) : frames[i].at = "second" => frames[i].data = signals
        /\ \/ frames = << >> /\ lastEnd # "whole"
           \/ frames # << >> /\ frames[1].op \in {"action", "run", "write"}
           \/ \E i \in 1..Len(frames) : Unfinished(frames[i]) \/ frames[i].at = "persist"
           \/ /\ saved = signals /\ selected[1] = signals
              /\ \/ selected[2] = signals
                 \/ frames # << >> /\ frames[Len(frames)].at = "second"

\* The two copies, when nothing calls back while they are written.
Plain == manner \cap {"effects", "actions", "throws"} = {}
Written(f, n) == f.data[1][Keys[n]]
CopyInv ==
    /\ \A k \in Declared : signals[k] # Absent
    /\ \A i \in 1..Len(frames), k \in Declared :
          /\ frames[i].at = "draft" => frames[i].data[k] # Absent
          /\ frames[i].at = "write" => frames[i].data[1][k] # Absent
          /\ frames[i].at = "write" /\ frames[i].op = "reset" => frames[i].data[1] = Initial
    /\ "actions" \notin manner => runs = << >> /\ \A i \in 1..Len(frames) : frames[i].at # "return"
    /\ Plain =>
          /\ \A i \in 1..Len(frames) :
                /\ frames[i].at = "atomic" => signals[frames[i].data[1]] = frames[i].data[2]
                /\ frames[i].at = "write" =>
                      \A n \in 1..frames[i].data[2] - 1 :
                          Keys[n] \in Declared => signals[Keys[n]] = Written(frames[i], n)
          /\ \A k \in Declared :
                \/ signals[k] = atomic[k]
                \/ \E i \in 1..Len(frames) :
                      \/ frames[i].at = "atomic" /\ frames[i].data[1] = k
                      \/ frames[i].at = "write" /\ frames[i].op = "reset"
                      \/ /\ frames[i].at = "write" /\ frames[i].op = "update"
                         /\ frames[i].in # "nothing"
                         /\ Keys[frames[i].data[2] - 1] = k

\* The runs of an action that does not call itself: only the last is neither over nor
\* cancelled, and none while the action runs.
Orderly == manner \cap {"failures", "throws", "recursion"} = {}
SilenceInv ==
    Orderly =>
        /\ ~spokeLate
        /\ \A r \in 1..Len(runs) : ~runs[r].over /\ ~runs[r].cancelled =>
              /\ r = pendingAction /\ runs[r].call = newest
              /\ \A i \in 1..Len(frames) : frames[i].at # "return"
        /\ \A i, j \in 1..Len(frames) : frames[i].op = "action" /\ frames[j].op = "action" => i = j
        /\ \A i \in 1..Len(frames) : frames[i].at = "return" => frames[i].data = newest

StoreInv == StackInv /\ DepthInv /\ NoticeInv /\ FollowInv /\ CopyInv /\ SilenceInv

LEMMA StoreConstants ==
    /\ Keys \in Seq(Key) /\ Len(Keys) \in Nat /\ Declared \subseteq Key
    /\ Value \subseteq Nat /\ Default \in Value /\ MaxCalls \in Nat
    /\ Manners \subseteq SUBSET {"effects", "subscribers", "throws", "actions", "failures",
                                 "recursion"}
    /\ \A k \in Key : \E n \in 1..Len(Keys) : Keys[n] = k
    /\ \A n \in 1..Len(Keys) : Keys[n] \in Key
    /\ Initial \in Snapshot /\ Absent \notin Value
    /\ \A k \in Declared : Initial[k] # Absent
  <1>1. Keys \in Seq(Key) /\ Len(Keys) \in Nat /\ DOMAIN Keys = 1..Len(Keys)
    BY StoreKnown DEF StoreAssumption
  <1>2. \A k \in Key : \E n \in 1..Len(Keys) : Keys[n] = k
    BY <1>1 DEF Key, ToSet
  <1>. QED
    BY <1>1, <1>2, StoreKnown
       DEF StoreAssumption, Initial, Snapshot, Absent

\* What a frame is at tells what it holds and what it waits for.
LEMMA FrameTells ==
    ASSUME NEW f \in FrameSet
    PROVE  /\ f.at = "atomic" => /\ f.op = "set" /\ f.data \in Key \X Value
                                 /\ f.in \in {"nothing", "effects"}
           /\ f.at = "persist" => f.op \in Operations /\ f.in = "subscribers"
           /\ f.at = "second" => /\ f.op \in Operations /\ f.data \in Snapshot
                                 /\ f.in \in {"nothing", "effects"}
           /\ f.at = "end" => \/ f.op \in Operations \cup {"write"} /\ f.in \in {"nothing", "effects"}
                              \/ f.op \in {"action", "run"} /\ f.in \in {"nothing", "subscribers"}
           /\ f.at = "close" => f.op = "batch" /\ f.in = "body"
           /\ f.at = "draft" => f.op = "update" /\ f.data \in Snapshot /\ f.in = "body"
           /\ f.at = "write" => /\ f.op \in {"update", "reset"}
                                /\ f.data \in Snapshot \X (1..Len(Keys) + 1)
                                /\ f.in \in {"nothing", "effects", "later"}
                                /\ f.in # "nothing" => f.data[2] > 1
           /\ f.at = "return" => f.op = "action" /\ f.data \in 1..MaxCalls /\ f.in = "body"
           /\ f.at \in {"atomic", "persist", "second", "end", "close", "draft", "write", "return"}
           /\ f.op \in {"set", "batch", "update", "reset", "action", "run", "write"}
           /\ f.in \in {"nothing", "effects", "later", "subscribers", "body"}
  BY StoreConstants DEF FrameSet, Operations

LEMMA FrameKinds ==
    /\ \A k \in Key, v \in Value, e \in {"nothing", "effects"} :
          Frame("set", "atomic", <<k, v>>, e) \in FrameSet
    /\ \A op \in Operations :
          /\ Frame(op, "persist", 0, "subscribers") \in FrameSet
          /\ \A s \in Snapshot, e \in {"nothing", "effects"} :
                Frame(op, "second", s, e) \in FrameSet
    /\ \A op \in Operations \cup {"write"}, e \in {"nothing", "effects"} :
          Frame(op, "end", 0, e) \in FrameSet
    /\ \A op \in {"action", "run"}, e \in {"nothing", "subscribers"} :
          Frame(op, "end", 0, e) \in FrameSet
    /\ Frame("batch", "close", 0, "body") \in FrameSet
    /\ \A s \in Snapshot : Frame("update", "draft", s, "body") \in FrameSet
    /\ \A op \in {"update", "reset"}, s \in Snapshot :
          Frame(op, "write", <<s, 1>>, "nothing") \in FrameSet
    /\ \A op \in {"update", "reset"}, s \in Snapshot, n \in 2..Len(Keys) + 1,
          e \in {"nothing", "effects", "later"} : Frame(op, "write", <<s, n>>, e) \in FrameSet
    /\ \A n \in 1..MaxCalls : Frame("action", "return", n, "body") \in FrameSet
  BY DEF FrameSet, Operations, Frame

\* What a frame is made of.
LEMMA FrameOf ==
    \A op, at, data, in :
        /\ Frame(op, at, data, in).op = op /\ Frame(op, at, data, in).at = at
        /\ Frame(op, at, data, in).data = data /\ Frame(op, at, data, in).in = in
  BY DEF Frame

\* The stack with a frame more, another one on top, or the last one gone.
Pushed(f) ==
    /\ frames' \in Seq(FrameSet) /\ Len(frames') = Len(frames) + 1 /\ frames' # << >>
    /\ \A i \in 1..Len(frames) : frames'[i] = frames[i]
    /\ frames'[Len(frames) + 1] = f
Became(f) ==
    /\ frames' \in Seq(FrameSet) /\ Len(frames') = Len(frames) /\ Len(frames) > 0
    /\ frames' # << >> /\ frames # << >>
    /\ \A i \in 1..Len(frames) - 1 : frames'[i] = frames[i]
    /\ frames'[Len(frames)] = f
Popped ==
    /\ frames' \in Seq(FrameSet) /\ Len(frames) > 0 /\ Len(frames') = Len(frames) - 1
    /\ \A i \in 1..Len(frames) - 1 : frames'[i] = frames[i]

LEMMA PushIs ==
    ASSUME frames \in Seq(FrameSet), NEW f \in FrameSet, frames' = Append(frames, f)
    PROVE  Pushed(f)
  BY DEF Pushed

LEMMA FrontIs ==
    ASSUME frames \in Seq(FrameSet), frames # << >>
    PROVE  /\ Len(frames) > 0 /\ Len(frames) \in Nat
           /\ Front(frames) \in Seq(FrameSet)
           /\ Len(Front(frames)) = Len(frames) - 1
           /\ \A i \in 1..Len(frames) - 1 : Front(frames)[i] = frames[i]
  <1>. DEFINE m == 1
              n == Len(frames) - 1
  <1>1. Len(frames) > 0 /\ Len(frames) \in Nat /\ \A i \in 1..Len(frames) : frames[i] \in FrameSet
    OBVIOUS
  <1>2. m \in Int /\ n \in Int /\ n >= 0 /\ m = 1 /\ \A i \in m..n : frames[i] \in FrameSet
    BY <1>1
  <1>3. Front(frames) = SubSeq(frames, m, n)
    BY DEF Front
  <1>. HIDE DEF m, n
  <1>4. /\ SubSeq(frames, m, n) \in Seq(FrameSet)
        /\ Len(SubSeq(frames, m, n)) = IF m <= n THEN n - m + 1 ELSE 0
        /\ \A i \in 1..n - m + 1 : SubSeq(frames, m, n)[i] = frames[m + i - 1]
    BY <1>2, SubSeqProperties
  <1>5. Len(SubSeq(frames, m, n)) = n /\ \A i \in 1..n : SubSeq(frames, m, n)[i] = frames[i]
    BY <1>2, <1>4
  <1>. QED BY <1>1, <1>3, <1>4, <1>5 DEF n

LEMMA BecomeIs ==
    ASSUME frames \in Seq(FrameSet), frames # << >>, NEW f \in FrameSet,
           frames' = Append(Front(frames), f)
    PROVE  Became(f)
  <1>. DEFINE rest == Front(frames)
  <1>1. /\ Len(frames) > 0 /\ Len(frames) \in Nat /\ rest \in Seq(FrameSet)
        /\ Len(rest) = Len(frames) - 1
        /\ \A i \in 1..Len(frames) - 1 : rest[i] = frames[i]
        /\ frames' = Append(rest, f)
    BY FrontIs
  <1>. HIDE DEF rest
  <1>. QED BY <1>1 DEF Became

LEMMA PopIs ==
    ASSUME frames \in Seq(FrameSet), frames # << >>, frames' = Front(frames)
    PROVE  Popped
  BY FrontIs DEF Popped

LEMMA TopIs == ASSUME frames \in Seq(FrameSet), frames # << >>
               PROVE  /\ Top = frames[Len(frames)] /\ Top \in FrameSet
                      /\ Len(frames) \in Nat /\ Len(frames) > 0
  BY DEF Top, Last

\* A set that gains or loses a number, or stays.
LEMMA CountMore ==
    ASSUME NEW S, IsFiniteSet(S), NEW x
    PROVE  /\ Cardinality(S) \in Nat
           /\ IsFiniteSet(S \cup {x}) /\ IsFiniteSet(S \ {x})
           /\ x \notin S => Cardinality(S \cup {x}) = Cardinality(S) + 1
           /\ x \in S => Cardinality(S \ {x}) = Cardinality(S) - 1 /\ Cardinality(S) > 0
  BY FS_AddElement, FS_RemoveElement, FS_CardinalityType, FS_EmptySet

LEMMA StackCounts ==
    ASSUME frames \in Seq(FrameSet)
    PROVE  /\ IsFiniteSet(Batched) /\ IsFiniteSet(Drafts)
           /\ Cardinality(Batched) \in Nat /\ Cardinality(Drafts) \in Nat
           /\ Cardinality(Batched) > 0 => \E i \in 1..Len(frames) : Batching(frames[i])
           /\ frames = << >> => Cardinality(Batched) = 0 /\ Cardinality(Drafts) = 0
  <1>1. IsFiniteSet(1..Len(frames)) /\ Batched \subseteq 1..Len(frames) /\ Drafts \subseteq 1..Len(frames)
    BY FS_Interval DEF Batched, Drafts
  <1>2. /\ IsFiniteSet(Batched) /\ IsFiniteSet(Drafts)
        /\ Cardinality(Batched) \in Nat /\ Cardinality(Drafts) \in Nat
    BY <1>1, FS_Subset, FS_CardinalityType
  <1>3. Cardinality(Batched) > 0 => Batched # {}
    BY <1>2, FS_EmptySet
  <1>4. frames = << >> => Batched = {} /\ Drafts = {}
    BY DEF Batched, Drafts
  <1>. QED BY <1>2, <1>3, <1>4, FS_EmptySet DEF Batched

LEMMA PushCounts ==
    ASSUME frames \in Seq(FrameSet), NEW f, Pushed(f)
    PROVE  /\ Cardinality(Batched') = Cardinality(Batched) + (IF Batching(f) THEN 1 ELSE 0)
           /\ Cardinality(Drafts') = Cardinality(Drafts) + (IF f.at = "draft" THEN 1 ELSE 0)
  <1>1. /\ Batched' = IF Batching(f) THEN Batched \cup {Len(frames) + 1} ELSE Batched
        /\ Drafts' = IF f.at = "draft" THEN Drafts \cup {Len(frames) + 1} ELSE Drafts
        /\ Len(frames) + 1 \notin Batched /\ Len(frames) + 1 \notin Drafts
    BY DEF Pushed, Batched, Drafts, Batching
  <1>. QED BY <1>1, StackCounts, CountMore

LEMMA BecomeCounts ==
    ASSUME frames \in Seq(FrameSet), NEW f, Became(f), NEW t, t = frames[Len(frames)]
    PROVE  /\ Cardinality(Batched') = Cardinality(Batched) - (IF Batching(t) THEN 1 ELSE 0)
                                          + (IF Batching(f) THEN 1 ELSE 0)
           /\ Cardinality(Drafts') = Cardinality(Drafts) - (IF t.at = "draft" THEN 1 ELSE 0)
                                          + (IF f.at = "draft" THEN 1 ELSE 0)
           /\ Cardinality(Batched) > (IF Batching(t) THEN 1 ELSE 0) =>
                  \E i \in 1..Len(frames) - 1 : Batching(frames[i])
  <1>. DEFINE n == Len(frames)
  <1>1. /\ Batched' = IF Batching(f) THEN (Batched \ {n}) \cup {n} ELSE Batched \ {n}
        /\ Drafts' = IF f.at = "draft" THEN (Drafts \ {n}) \cup {n} ELSE Drafts \ {n}
        /\ n \in Batched <=> Batching(t)
        /\ n \in Drafts <=> t.at = "draft"
    BY DEF Became, Batched, Drafts, Batching
  <1>. HIDE DEF n
  <1>2. /\ n \notin Batched => Batched \ {n} = Batched
        /\ n \notin Drafts => Drafts \ {n} = Drafts
        /\ n \notin Batched \ {n} /\ n \notin Drafts \ {n}
    OBVIOUS
  <1>3. /\ IsFiniteSet(Batched) /\ IsFiniteSet(Drafts)
        /\ IsFiniteSet(Batched \ {n}) /\ IsFiniteSet(Drafts \ {n})
    BY StackCounts, CountMore
  <1>4. /\ Cardinality(Batched \ {n}) = Cardinality(Batched) - (IF Batching(t) THEN 1 ELSE 0)
        /\ Cardinality(Drafts \ {n}) = Cardinality(Drafts) - (IF t.at = "draft" THEN 1 ELSE 0)
        /\ Cardinality(Batched) \in Nat /\ Cardinality(Drafts) \in Nat
    <2>1. /\ Batching(t) => Cardinality(Batched \ {n}) = Cardinality(Batched) - 1
          /\ t.at = "draft" => Cardinality(Drafts \ {n}) = Cardinality(Drafts) - 1
          /\ Cardinality(Batched) \in Nat /\ Cardinality(Drafts) \in Nat
      BY <1>1, <1>3, CountMore
    <2>2. ~Batching(t) => Cardinality(Batched \ {n}) = Cardinality(Batched)
      BY <1>1, <1>2
    <2>3. t.at # "draft" => Cardinality(Drafts \ {n}) = Cardinality(Drafts)
      BY <1>1, <1>2
    <2>. QED BY <2>1, <2>2, <2>3
  <1>5. /\ Cardinality((Batched \ {n}) \cup {n}) = Cardinality(Batched \ {n}) + 1
        /\ Cardinality((Drafts \ {n}) \cup {n}) = Cardinality(Drafts \ {n}) + 1
    BY <1>2, <1>3, CountMore
  <1>6. Cardinality(Batched \ {n}) > 0 => \E i \in 1..Len(frames) - 1 : Batching(frames[i])
    <2>1. Batched \ {n} # {} => \E i \in 1..Len(frames) - 1 : Batching(frames[i])
      BY DEF n, Batched, Became
    <2>. QED BY <1>3, <2>1, FS_EmptySet
  <1>7. /\ Cardinality(Batched') = Cardinality(Batched \ {n}) + (IF Batching(f) THEN 1 ELSE 0)
        /\ Cardinality(Drafts') = Cardinality(Drafts \ {n}) + (IF f.at = "draft" THEN 1 ELSE 0)
    BY <1>1, <1>5, <1>4
  <1>. QED BY <1>4, <1>6, <1>7

LEMMA PopCounts ==
    ASSUME frames \in Seq(FrameSet), Popped, frames[Len(frames)].at = "end"
    PROVE  Batched' = Batched /\ Drafts' = Drafts
  BY DEF Popped, Batched, Drafts, Batching


\* A frame that waits for what the application has.
LEMMA WaitingIs ==
    ASSUME StackInv, NEW f \in FrameSet, f.in \in manner \cup {"body"}
    PROVE  /\ "effects" \notin manner =>
                 f.at \notin {"atomic", "second", "write"} /\ (f.at = "end" => f.op \in {"action", "run"})
           /\ f.op = "update" /\ f.at = "write" => "effects" \in manner
  <1>1. manner \subseteq {"effects", "subscribers", "throws", "actions", "failures", "recursion"}
    BY StoreConstants DEF StackInv
  <1>2. f.in \in {"effects", "subscribers", "body"}
    BY <1>1, FrameTells
  <1>. QED BY <1>2, FrameTells

LEMMA CallersWait ==
    ASSUME StackInv, MayCall
    PROVE  /\ calls < MaxCalls /\ calls + 1 \in 1..MaxCalls
           /\ \A i \in 1..Len(frames) : frames[i].in \in manner \cup {"body"}
  <1>1. calls < MaxCalls /\ calls + 1 \in 1..MaxCalls
    BY StoreConstants DEF MayCall, StackInv
  <1>2. CASE frames = << >>
    BY <1>1, <1>2
  <1>3. CASE frames # << >>
    BY <1>1, <1>3, TopIs DEF MayCall, StackInv
  <1>. QED BY <1>2, <1>3

\* The action's frames and runs as they were, but for frames that are not of the action.
Aside ==
    /\ UNCHANGED <<manner, newest, runs, pendingAction, spokeLate>>
    /\ \A i \in 1..Len(frames') :
          \/ frames'[i].op # "action" /\ frames'[i].at # "return"
          \/ /\ i \in 1..Len(frames) /\ frames'[i].op = frames[i].op
             /\ frames'[i].at = "return" => frames[i].at = "return" /\ frames[i].data = frames'[i].data

LEMMA SilenceStays == ASSUME SilenceInv, Aside PROVE SilenceInv'
  <1>. SUFFICES ASSUME Orderly' PROVE SilenceInv'
    BY DEF SilenceInv
  <1>1. Orderly
    BY DEF Orderly, Aside
  <1>2. ~spokeLate'
    BY <1>1 DEF SilenceInv, Aside
  <1>3. \A i \in 1..Len(frames') : frames'[i].at = "return" =>
            i \in 1..Len(frames) /\ frames[i].at = "return" /\ frames[i].data = frames'[i].data
    BY DEF Aside
  <1>4. \A i \in 1..Len(frames') : frames'[i].op = "action" =>
            i \in 1..Len(frames) /\ frames[i].op = "action"
    BY DEF Aside
  <1>. QED BY <1>1, <1>2, <1>3, <1>4 DEF SilenceInv, Aside

\* An operation begins.
LEMMA OpenedStep ==
    ASSUME StoreInv, NEW f \in FrameSet, MayCall, Pushed(f), calls' = calls + 1,
           f.at \in {"atomic", "close", "draft"} \/ (f.at = "write" /\ f.op = "reset"),
           f.at = "close" => batchDepth' = batchDepth + 1,
           f.at # "close" => batchDepth' = batchDepth,
           signals' \in Snapshot,
           UNCHANGED <<manner, atomic, lastEnd, noticed, saved, selected, newest, runs,
                       pendingAction, spokeLate>>
    PROVE  StackInv' /\ DepthInv' /\ NoticeInv' /\ FollowInv' /\ SilenceInv'
  <1>1. /\ StackInv /\ calls + 1 \in 1..MaxCalls
        /\ \A i \in 1..Len(frames) : frames[i].in \in manner \cup {"body"}
        /\ frames \in Seq(FrameSet) /\ Len(frames) \in Nat
        /\ frames[Len(frames) + 1] = frames[Len(frames) + 1]
    BY CallersWait DEF StoreInv, StackInv
  <1>2. StackInv'
    <2>1. batchDepth' \in Nat
      BY DEF StoreInv, StackInv
    <2>. QED BY <1>1, <2>1 DEF StackInv, Pushed
  <1>3. DepthInv'
    <2>1. Batching(f) <=> f.at = "close"
      BY FrameTells DEF Batching
    <2>2. /\ Cardinality(Batched') = Cardinality(Batched) + (IF f.at = "close" THEN 1 ELSE 0)
          /\ Cardinality(Drafts') = Cardinality(Drafts) + (IF f.at = "draft" THEN 1 ELSE 0)
          /\ Cardinality(Batched) \in Nat /\ Cardinality(Drafts) \in Nat
      BY <1>1, <2>1, PushCounts, StackCounts
    <2>3. batchDepth \in Nat /\ batchDepth' = batchDepth + (IF f.at = "close" THEN 1 ELSE 0)
      BY DEF StoreInv, StackInv
    <2>. QED BY <1>1, <2>2, <2>3 DEF StoreInv, StackInv, DepthInv, Calm
  <1>4. Len(frames) + 1 \in 1..Len(frames') /\ Unfinished(frames'[Len(frames) + 1])
    BY <1>1 DEF Pushed, Unfinished
  <1>5. NoticeInv'
    BY <1>4 DEF NoticeInv, Unfinished
  <1>6. FollowInv'
    <2>1. ASSUME "effects" \notin manner, NEW i \in 1..Len(frames') PROVE frames'[i].at # "second"
      <3>1. CASE i = Len(frames) + 1
        BY <3>1 DEF Pushed
      <3>2. CASE i \in 1..Len(frames)
        BY <1>1, <2>1, <3>2, WaitingIs DEF Pushed
      <3>. QED BY <1>1, <3>1, <3>2 DEF Pushed
    <2>. QED BY <1>4, <2>1 DEF FollowInv, Unfinished
  <1>7. SilenceInv'
    <2>1. f.op # "action" /\ f.at # "return"
      BY FrameTells
    <2>2. Aside
      BY <1>1, <2>1 DEF Aside, Pushed
    <2>. QED BY <2>2, SilenceStays DEF StoreInv
  <1>. QED BY <1>2, <1>3, <1>5, <1>6, <1>7

\* The copies, where an operation begins that writes nothing yet.
LEMMA OpenedCopies ==
    ASSUME StoreInv, NEW f \in FrameSet, Pushed(f), MayCall,
           UNCHANGED <<manner, signals, atomic, runs>>,
           f.at = "draft" => f.data = signals,
           f.at = "write" => f.op = "reset" /\ f.data = <<Initial, 1>>,
           f.at \in {"close", "draft", "write", "end"}
    PROVE  CopyInv'
  <1>1. /\ StackInv /\ CopyInv /\ frames \in Seq(FrameSet) /\ Len(frames) \in Nat
        /\ \A i \in 1..Len(frames) : frames[i].in \in manner \cup {"body"} /\ frames[i] \in FrameSet
    BY CallersWait DEF StoreInv, StackInv
  <1>2. /\ Len(frames') = Len(frames) + 1 /\ frames'[Len(frames) + 1] = f
        /\ \A i \in 1..Len(frames) : frames'[i] = frames[i] /\ i \in 1..Len(frames')
    BY <1>1 DEF Pushed
  <1>3. \A i \in 1..Len(frames') : i \in 1..Len(frames) \/ i = Len(frames) + 1
    BY <1>1, <1>2
  <1>4. "effects" \notin manner => \A i \in 1..Len(frames) : frames[i].at \notin {"atomic", "write"}
    BY <1>1, WaitingIs
  <1>5. \A k \in Declared : signals'[k] # Absent
    BY <1>1 DEF CopyInv
  <1>6. ASSUME NEW i \in 1..Len(frames'), NEW k \in Declared
        PROVE  /\ frames'[i].at = "draft" => frames'[i].data[k] # Absent
               /\ frames'[i].at = "write" => frames'[i].data[1][k] # Absent
               /\ frames'[i].at = "write" /\ frames'[i].op = "reset" =>
                      frames'[i].data[1] = Initial
    <2>1. CASE i \in 1..Len(frames)
      BY <1>1, <1>2, <2>1 DEF CopyInv
    <2>2. CASE i = Len(frames) + 1
      <3>1. frames'[i] = f
        BY <1>2, <2>2
      <3>2. f.at = "draft" => f.data[k] # Absent
        BY <1>5
      <3>3. f.at = "write" => f.data[1] = Initial /\ Initial[k] # Absent
        BY StoreConstants
      <3>. QED BY <3>1, <3>2, <3>3
    <2>. QED BY <1>3, <2>1, <2>2
  <1>7. "actions" \notin manner => runs' = << >> /\ \A i \in 1..Len(frames') : frames'[i].at # "return"
    BY <1>1, <1>2, <1>3 DEF CopyInv
  <1>8. ASSUME Plain
        PROVE  /\ \A i \in 1..Len(frames') :
                     /\ frames'[i].at # "atomic"
                     /\ frames'[i].at = "write" => frames'[i].data[2] = 1
               /\ \A k \in Declared : signals'[k] = atomic'[k]
    BY <1>1, <1>2, <1>3, <1>4, <1>8 DEF CopyInv, Plain
  <1>. QED BY <1>5, <1>6, <1>7, <1>8 DEF CopyInv, Plain

LEMMA SetStep ==
    ASSUME StoreInv, NEW k \in Key, NEW v \in Value, setValue(k, v) PROVE StoreInv'
  <1>1. PICK f \in FrameSet :
            frames' = Append(frames, f) /\ f.at = "atomic" /\ f.data = <<k, v>> /\ f.op = "set"
    <2>1. ASSUME NEW e
          PROVE  /\ Effects(e, frames) \in {"nothing", "effects"}
      BY DEF Effects
    <2>. QED BY <2>1, FrameKinds, FrameOf DEF setValue, Push
  <1>2. Pushed(f) /\ calls' = calls + 1 /\ MayCall
    BY <1>1, PushIs DEF setValue, Push, StoreInv, StackInv
  <1>3. /\ signals' = [signals EXCEPT ![k] = v] /\ signals' \in Snapshot
        /\ signals \in Snapshot
        /\ UNCHANGED <<manner, atomic, batchDepth, lastEnd, noticed, saved, selected, newest, runs,
                       pendingAction, spokeLate>>
    BY StoreConstants
       DEF setValue, actionVars, followers, StoreInv, StackInv, Snapshot
  <1>4. StackInv' /\ DepthInv' /\ NoticeInv' /\ FollowInv' /\ SilenceInv'
    <2>1. (f.at = "close" => batchDepth' = batchDepth + 1) /\ (f.at # "close" => batchDepth' = batchDepth)
      BY <1>1, <1>3
    <2>2. f.at \in {"atomic", "close", "draft"}
      BY <1>1
    <2>. QED BY <1>1, <1>2, <1>3, <2>1, <2>2, OpenedStep
  <1>5. CopyInv'
    <2>1. /\ StackInv /\ CopyInv /\ frames \in Seq(FrameSet) /\ Len(frames) \in Nat
          /\ \A i \in 1..Len(frames) : frames[i].in \in manner \cup {"body"} /\ frames[i] \in FrameSet
      <3>1. StackInv /\ CopyInv
        BY DEF StoreInv
      <3>2. frames \in Seq(FrameSet) /\ Len(frames) \in Nat
        BY <3>1 DEF StackInv
      <3>3. \A i \in 1..Len(frames) : frames[i] \in FrameSet
        BY <3>2
      <3>4. \A i \in 1..Len(frames) : frames[i].in \in manner \cup {"body"}
        BY <1>2, <3>1, CallersWait
      <3>. QED BY <3>1, <3>2, <3>3, <3>4
    <2>2. /\ Len(frames') = Len(frames) + 1 /\ frames'[Len(frames) + 1] = f
          /\ \A i \in 1..Len(frames) : frames'[i] = frames[i] /\ i \in 1..Len(frames')
          /\ \A i \in 1..Len(frames') : i \in 1..Len(frames) \/ i = Len(frames) + 1
      BY <1>2, <2>1 DEF Pushed
    <2>3. /\ signals'[k] = v /\ v # Absent
          /\ \A j \in Key \ {k} : signals'[j] = signals[j]
      BY <1>3, StoreConstants DEF Snapshot
    <2>4. \A j \in Declared : j \in Key /\ signals'[j] # Absent
      <3>1. \A j \in Declared : j \in Key /\ signals[j] # Absent
        BY <2>1, StoreConstants DEF CopyInv
      <3>. QED BY <2>3, <3>1
    <2>5. /\ \A i \in 1..Len(frames'), j \in Declared :
                /\ frames'[i].at = "draft" => frames'[i].data[j] # Absent
                /\ frames'[i].at = "write" => frames'[i].data[1][j] # Absent
                /\ frames'[i].at = "write" /\ frames'[i].op = "reset" =>
                       frames'[i].data[1] = Initial
          /\ "actions" \notin manner =>
                runs' = << >> /\ \A i \in 1..Len(frames') : frames'[i].at # "return"
      BY <1>1, <1>3, <2>1, <2>2 DEF CopyInv
    <2>6. ASSUME Plain
          PROVE  /\ \A i \in 1..Len(frames) : frames[i].at \notin {"atomic", "write"}
                 /\ \A j \in Declared : signals[j] = atomic[j]
      BY <2>1, <2>6, WaitingIs DEF CopyInv, Plain
    <2>7. ASSUME Plain
          PROVE  \A i \in 1..Len(frames') :
                    /\ frames'[i].at = "atomic" => signals'[frames'[i].data[1]] = frames'[i].data[2]
                    /\ frames'[i].at # "write"
      BY <1>1, <2>2, <2>3, <2>6, <2>7
    <2>8. ASSUME Plain, NEW j \in Declared
          PROVE  \/ signals'[j] = atomic'[j]
                 \/ \E i \in 1..Len(frames') : frames'[i].at = "atomic" /\ frames'[i].data[1] = j
      <3>1. CASE j = k
        BY <1>1, <2>1, <2>2, <3>1
      <3>2. CASE j # k
        BY <1>3, <2>3, <2>4, <2>6, <2>8, <3>2
      <3>. QED BY <3>1, <3>2
    <2>. QED BY <1>3, <2>4, <2>5, <2>7, <2>8 DEF CopyInv, Plain
  <1>. QED BY <1>4, <1>5 DEF StoreInv

\* The operations that call the application before they write.
LEMMA OpenStep ==
    ASSUME StoreInv, batchUpdates \/ updateState \/ resetState PROVE StoreInv'
  <1>1. ASSUME NEW f \in FrameSet, frames' = Append(frames, f), calls' = calls + 1, MayCall,
               f.at \in {"close", "draft"} \/ (f.at = "write" /\ f.op = "reset"),
               f.at = "draft" => f.data = signals,
               f.at = "write" => f.data = <<Initial, 1>>,
               f.at = "close" => batchDepth' = batchDepth + 1,
               f.at # "close" => batchDepth' = batchDepth,
               UNCHANGED <<manner, signals, atomic, lastEnd, noticed, saved, selected, newest, runs,
                           pendingAction, spokeLate>>
        PROVE  StoreInv'
    <2>1. Pushed(f)
      BY <1>1, PushIs DEF StoreInv, StackInv
    <2>2. signals' \in Snapshot
      BY <1>1 DEF StoreInv, StackInv
    <2>3. StackInv' /\ DepthInv' /\ NoticeInv' /\ FollowInv' /\ SilenceInv'
      BY <1>1, <2>1, <2>2, OpenedStep
    <2>4. CopyInv'
      BY <1>1, <2>1, OpenedCopies
    <2>. QED BY <2>3, <2>4 DEF StoreInv
  <1>2. CASE batchUpdates
    <2>1. PICK f \in FrameSet : frames' = Append(frames, f) /\ f.at = "close"
      BY <1>2, FrameKinds, FrameOf DEF batchUpdates, Push
    <2>2. /\ calls' = calls + 1 /\ MayCall
          /\ batchDepth' = batchDepth + 1
          /\ UNCHANGED <<manner, signals, atomic, lastEnd, noticed, saved, selected, newest, runs,
                         pendingAction, spokeLate>>
      BY <1>2, <2>1 DEF batchUpdates, Push, actionVars, followers
    <2>. QED BY <1>1, <2>1, <2>2
  <1>3. CASE updateState
    <2>1. PICK f \in FrameSet :
              frames' = Append(frames, f) /\ f.at = "draft" /\ f.data = signals
      BY <1>3, FrameKinds, FrameOf DEF StoreInv, StackInv, updateState, Push
    <2>2. /\ calls' = calls + 1 /\ MayCall
          /\ UNCHANGED <<batchDepth, manner, signals, atomic, lastEnd, noticed, saved, selected,
                         newest, runs, pendingAction, spokeLate>>
      BY <1>3, <2>1 DEF updateState, Push, actionVars, followers
    <2>. QED BY <1>1, <2>1, <2>2
  <1>4. CASE resetState
    <2>1. Frame("reset", "write", <<Initial, 1>>, "nothing") \in FrameSet
      BY FrameKinds, StoreConstants
    <2>. QED BY <1>1, <1>4, <2>1, FrameOf
             DEF resetState, Push, actionVars, followers
  <1>. QED BY <1>2, <1>3, <1>4


\* The operation on top goes on to its next step, and no other frame is touched.
GoesOn(f, t) ==
    /\ frames # << >> /\ t = frames[Len(frames)] /\ Became(f) /\ calls' = calls
    /\ UNCHANGED <<manner, lastEnd>>

LEMMA GoesOnIs ==
    ASSUME StackInv, NEW f \in FrameSet, NEW t \in FrameSet, GoesOn(f, t)
    PROVE  /\ Len(frames) \in Nat /\ Len(frames) > 0 /\ Len(frames') = Len(frames)
           /\ frames \in Seq(FrameSet) /\ frames' \in Seq(FrameSet) /\ frames' # << >>
           /\ frames[Len(frames)] = t /\ frames'[Len(frames)] = f
           /\ \A i \in 1..Len(frames) - 1 :
                 /\ frames'[i] = frames[i] /\ i \in 1..Len(frames) /\ frames[i] \in FrameSet
                 /\ frames[i].in \in manner \cup {"body"}
           /\ \A i \in 1..Len(frames) : i \in 1..Len(frames) - 1 \/ i = Len(frames)
           /\ Len(frames) \in 1..Len(frames)
  BY DEF StackInv, GoesOn, Became

\* The types, the depth and the silence of an operation that goes on.
LEMMA GoesOnWell ==
    ASSUME StoreInv, NEW f \in FrameSet, NEW t \in FrameSet, GoesOn(f, t),
           f.op # "action", f.at # "return",
           batchDepth' = batchDepth + (IF Batching(f) THEN 1 ELSE 0) - (IF Batching(t) THEN 1 ELSE 0),
           f.at = "draft" => t.at = "draft",
           Batching(f) => Batching(t) \/ t.at = "draft",
           t.at = "draft" => f.at = "draft" \/ Batching(f),
           {signals', atomic', saved', noticed'} \subseteq Snapshot,
           selected' \in Snapshot \X Snapshot,
           UNCHANGED <<newest, runs, pendingAction, spokeLate>>
    PROVE  StackInv' /\ DepthInv' /\ SilenceInv'
  <1>1. /\ Len(frames) \in Nat /\ Len(frames) > 0 /\ Len(frames') = Len(frames)
        /\ frames \in Seq(FrameSet) /\ frames' \in Seq(FrameSet)
        /\ frames[Len(frames)] = t /\ frames'[Len(frames)] = f
        /\ \A i \in 1..Len(frames) - 1 :
              /\ frames'[i] = frames[i] /\ i \in 1..Len(frames)
              /\ frames[i].in \in manner \cup {"body"}
        /\ \A i \in 1..Len(frames) : i \in 1..Len(frames) - 1 \/ i = Len(frames)
    BY GoesOnIs DEF StoreInv
  <1>2. /\ Cardinality(Batched') = Cardinality(Batched) - (IF Batching(t) THEN 1 ELSE 0)
                                          + (IF Batching(f) THEN 1 ELSE 0)
        /\ Cardinality(Drafts') = Cardinality(Drafts) - (IF t.at = "draft" THEN 1 ELSE 0)
                                          + (IF f.at = "draft" THEN 1 ELSE 0)
    BY <1>1, BecomeCounts DEF GoesOn
  <1>3. /\ Cardinality(Batched) \in Nat /\ Cardinality(Drafts) \in Nat
        /\ Cardinality(Batched') \in Nat /\ Cardinality(Drafts') \in Nat
        /\ batchDepth \in Nat /\ calls \in Nat
    <2>1. Cardinality(Batched) \in Nat /\ Cardinality(Drafts) \in Nat
      BY <1>1, StackCounts
    <2>2. Cardinality(Batched') \in Nat /\ Cardinality(Drafts') \in Nat
      <3>1. IsFiniteSet(1..Len(frames))
        BY <1>1, FS_Interval
      <3>2. Batched' \subseteq 1..Len(frames) /\ Drafts' \subseteq 1..Len(frames)
        BY <1>1 DEF Batched, Drafts
      <3>. QED BY <3>1, <3>2, FS_Subset, FS_CardinalityType
    <2>3. batchDepth \in Nat /\ calls \in Nat
      BY StoreConstants DEF StoreInv, StackInv
    <2>. QED BY <2>1, <2>2, <2>3
  <1>4. /\ Cardinality(Batched) <= batchDepth /\ batchDepth + Cardinality(Drafts) <= calls
        /\ Calm => batchDepth = Cardinality(Batched)
        /\ Calm' <=> Calm
        /\ calls' = calls
    BY DEF StoreInv, DepthInv, Calm, GoesOn
  <1>5. /\ Cardinality(Batched') <= batchDepth' /\ batchDepth' + Cardinality(Drafts') <= calls'
        /\ Calm => batchDepth' = Cardinality(Batched')
        /\ batchDepth' \in Nat
    <2>1. Batching(t) => t.at # "draft"
      BY FrameTells DEF Batching
    <2>2. Batching(f) => f.at # "draft"
      BY FrameTells DEF Batching
    <2>3. CASE Batching(f) /\ Batching(t)
      BY <1>2, <1>3, <1>4, <2>1, <2>2, <2>3
    <2>4. CASE Batching(f) /\ ~Batching(t)
      BY <1>2, <1>3, <1>4, <2>1, <2>2, <2>4
    <2>5. CASE ~Batching(f) /\ Batching(t)
      BY <1>2, <1>3, <1>4, <2>1, <2>2, <2>5
    <2>6. CASE ~Batching(f) /\ ~Batching(t)
      BY <1>2, <1>3, <1>4, <2>1, <2>2, <2>6
    <2>. QED BY <2>3, <2>4, <2>5, <2>6
  <1>6. DepthInv'
    BY <1>4, <1>5 DEF DepthInv
  <1>7. StackInv'
    <2>1. \A i \in 1..Len(frames') - 1 : frames'[i].in \in manner' \cup {"body"}
      BY <1>1 DEF GoesOn
    <2>. QED BY <1>1, <1>5, <2>1 DEF StoreInv, StackInv, GoesOn
  <1>8. SilenceInv'
    <2>1. ASSUME NEW i \in 1..Len(frames')
          PROVE  \/ frames'[i].op # "action" /\ frames'[i].at # "return"
                 \/ /\ i \in 1..Len(frames) /\ frames'[i].op = frames[i].op
                    /\ frames'[i].at = "return" =>
                           frames[i].at = "return" /\ frames[i].data = frames'[i].data
      <3>1. CASE i \in 1..Len(frames) - 1
        BY <1>1, <3>1
      <3>2. CASE i = Len(frames)
        BY <1>1, <3>2
      <3>. QED BY <1>1, <3>1, <3>2
    <2>2. Aside
      BY <2>1 DEF Aside, GoesOn
    <2>. QED BY <2>2, SilenceStays DEF StoreInv
  <1>. QED BY <1>6, <1>7, <1>8

\* With the followers held up, an operation further down the stack holds them up.
LEMMA HeldUp ==
    ASSUME StoreInv, Calm, NEW f \in FrameSet, NEW t \in FrameSet, GoesOn(f, t),
           batchDepth - (IF Batching(t) THEN 1 ELSE 0) # 0
    PROVE  \E i \in 1..Len(frames') : i # Len(frames) /\ Unfinished(frames'[i])
  <1>1. /\ Len(frames) \in Nat /\ Len(frames) > 0 /\ Len(frames') = Len(frames)
        /\ frames \in Seq(FrameSet)
        /\ \A i \in 1..Len(frames) - 1 : frames'[i] = frames[i] /\ i \in 1..Len(frames)
    BY GoesOnIs DEF StoreInv
  <1>2. /\ batchDepth = Cardinality(Batched) /\ Cardinality(Batched) \in Nat
        /\ Cardinality(Batched) > (IF Batching(t) THEN 1 ELSE 0) =>
               \E i \in 1..Len(frames) - 1 : Batching(frames[i])
    BY <1>1, StackCounts, BecomeCounts DEF StoreInv, DepthInv, GoesOn
  <1>3. Batching(t) => Cardinality(Batched) > 0
    <2>1. Batching(t) => Len(frames) \in Batched
      BY <1>1 DEF Batched, GoesOn
    <2>2. IsFiniteSet(Batched)
      BY <1>1, StackCounts
    <2>. QED BY <1>2, <2>1, <2>2, FS_EmptySet
  <1>4. Cardinality(Batched) > (IF Batching(t) THEN 1 ELSE 0)
    BY <1>2, <1>3
  <1>5. PICK i \in 1..Len(frames) - 1 : Batching(frames[i])
    BY <1>2, <1>4
  <1>. QED BY <1>1, <1>5 DEF Batching, Unfinished


\* An operation that still has to tell the followers: it writes, or has drafted what to write.
LEMMA StillUnfinished ==
    ASSUME StoreInv, NEW f \in FrameSet, NEW t \in FrameSet, GoesOn(f, t), Unfinished(f),
           UNCHANGED runs
    PROVE  NoticeInv' /\ FollowInv'
  <1>1. /\ Len(frames) \in Nat /\ Len(frames) > 0 /\ Len(frames') = Len(frames)
        /\ frames'[Len(frames)] = f /\ Len(frames) \in 1..Len(frames)
        /\ \A i \in 1..Len(frames) - 1 :
              /\ frames'[i] = frames[i] /\ frames[i] \in FrameSet
              /\ frames[i].in \in manner \cup {"body"}
        /\ \A i \in 1..Len(frames) : i \in 1..Len(frames) - 1 \/ i = Len(frames)
    BY GoesOnIs DEF StoreInv
  <1>2. Len(frames) \in 1..Len(frames') /\ Unfinished(frames'[Len(frames)])
    BY <1>1
  <1>3. NoticeInv'
    BY <1>2 DEF NoticeInv, Unfinished
  <1>4. ASSUME "effects" \notin manner, NEW i \in 1..Len(frames') PROVE frames'[i].at # "second"
    <2>1. CASE i \in 1..Len(frames) - 1
      BY <1>1, <1>4, <2>1, WaitingIs DEF StoreInv
    <2>2. CASE i = Len(frames)
      BY <1>1, <2>2 DEF Unfinished
    <2>. QED BY <1>1, <2>1, <2>2
  <1>5. FollowInv'
    BY <1>2, <1>4 DEF FollowInv, Unfinished, GoesOn
  <1>. QED BY <1>3, <1>5

\* An operation tells the followers, or leaves that to the one that holds it up.
LEMMA ToldStep ==
    ASSUME StoreInv, NEW f \in FrameSet, NEW t \in FrameSet, GoesOn(f, t),
           f.op \in Operations, t.at \in {"atomic", "close", "write"},
           UNCHANGED <<signals, saved, selected, newest, runs, pendingAction, spokeLate>>,
           atomic' \in Snapshot,
           batchDepth' = batchDepth - (IF Batching(t) THEN 1 ELSE 0),
           batchDepth' = 0 => f.at = "persist" /\ noticed' = signals,
           batchDepth' # 0 => f.at = "end" /\ noticed' = noticed
    PROVE  StackInv' /\ DepthInv' /\ NoticeInv' /\ FollowInv' /\ SilenceInv'
  <1>1. /\ Len(frames) \in Nat /\ Len(frames) > 0 /\ Len(frames') = Len(frames)
        /\ frames'[Len(frames)] = f /\ Len(frames) \in 1..Len(frames)
        /\ \A i \in 1..Len(frames) - 1 : frames'[i] = frames[i] /\ i \in 1..Len(frames)
        /\ \A i \in 1..Len(frames) : i \in 1..Len(frames) - 1 \/ i = Len(frames)
        /\ frames' # << >> /\ frames # << >>
    BY GoesOnIs DEF StoreInv
  <1>2. f.at \in {"persist", "end"} /\ ~Batching(f) /\ f.op # "action" /\ f.at # "return"
    BY DEF Batching, Operations
  <1>3. /\ {signals', atomic', saved', noticed'} \subseteq Snapshot
        /\ selected' \in Snapshot \X Snapshot
    BY DEF StoreInv, StackInv
  <1>4. StackInv' /\ DepthInv' /\ SilenceInv'
    <2>1. batchDepth \in Nat
      BY DEF StoreInv, StackInv
    <2>2. batchDepth' = batchDepth + (IF Batching(f) THEN 1 ELSE 0) - (IF Batching(t) THEN 1 ELSE 0)
      BY <1>2, <2>1
    <2>. QED BY <1>2, <1>3, <2>2, GoesOnWell
  <1>5. ASSUME Calm, batchDepth' # 0
        PROVE  \E i \in 1..Len(frames') : i # Len(frames) /\ Unfinished(frames'[i])
    BY <1>5, HeldUp
  <1>6. NoticeInv'
    <2>1. CASE batchDepth' = 0
      BY <2>1 DEF NoticeInv
    <2>2. CASE batchDepth' # 0
      BY <1>5, <2>2 DEF NoticeInv, Calm, GoesOn, Unfinished
    <2>. QED BY <2>1, <2>2
  <1>7. FollowInv'
    <2>. SUFFICES ASSUME "effects" \notin manner' PROVE FollowInv'
      BY DEF FollowInv
    <2>1. "effects" \notin manner /\ Calm
      BY DEF GoesOn, Calm
    <2>2. \A i \in 1..Len(frames') : frames'[i].at = "second" => frames'[i].data = signals'
      BY <1>1, <1>2, <2>1 DEF StoreInv, FollowInv
    <2>3. \E i \in 1..Len(frames') : Unfinished(frames'[i]) \/ frames'[i].at = "persist"
      BY <1>1, <1>5, <2>1
    <2>. QED BY <2>2, <2>3 DEF FollowInv, Unfinished
  <1>. QED BY <1>4, <1>6, <1>7

\* What Notify() does, as a step of the operation on top.
LEMMA NotifyIs ==
    ASSUME StackInv, frames # << >>, NEW op \in Operations, NEW depth, NEW now,
           Notify(op, depth, now), UNCHANGED <<manner, lastEnd>>
    PROVE  \E f \in FrameSet, t \in FrameSet :
              /\ GoesOn(f, t) /\ Top = t /\ f.op = op
              /\ depth = 0 => f.at = "persist" /\ noticed' = now
              /\ depth # 0 => f.at = "end" /\ noticed' = noticed
  <1>1. frames \in Seq(FrameSet) /\ Top = frames[Len(frames)] /\ Top \in FrameSet
    BY TopIs DEF StackInv
  <1>2. PICK f \in FrameSet :
            /\ frames' = Append(Front(frames), f) /\ calls' = calls /\ f.op = op
            /\ depth = 0 => f.at = "persist" /\ noticed' = now
            /\ depth # 0 => f.at = "end" /\ noticed' = noticed
    <2>1. /\ Frame(op, "persist", 0, "subscribers") \in FrameSet
          /\ Frame(op, "end", 0, "nothing") \in FrameSet
      BY FrameKinds
    <2>2. CASE depth = 0
      BY <2>1, <2>2, FrameOf DEF Notify, Become
    <2>3. CASE depth # 0
      BY <2>1, <2>3, FrameOf DEF Notify, Become
    <2>. QED BY <2>2, <2>3
  <1>3. Became(f)
    BY <1>1, <1>2, BecomeIs
  <1>. QED BY <1>1, <1>2, <1>3 DEF GoesOn

\* The copies, when the operation on top has not written, and is not about to write.
LEMMA KeptCopies ==
    ASSUME StoreInv, NEW f \in FrameSet, NEW t \in FrameSet, GoesOn(f, t),
           UNCHANGED <<signals, atomic, runs>>, t.at \notin {"atomic", "write"},
           f.at \notin {"atomic", "return"},
           f.at = "draft" => f = t,
           f.at = "write" => /\ f.op = "update" /\ f.data[2] = 1
                             /\ \A k \in Declared : f.data[1][k] # Absent
    PROVE  CopyInv'
  <1>1. /\ Len(frames) \in Nat /\ Len(frames) > 0 /\ Len(frames') = Len(frames)
        /\ frames'[Len(frames)] = f /\ frames[Len(frames)] = t /\ Len(frames) \in 1..Len(frames)
        /\ \A i \in 1..Len(frames) - 1 : frames'[i] = frames[i] /\ i \in 1..Len(frames)
        /\ \A i \in 1..Len(frames) : i \in 1..Len(frames) - 1 \/ i = Len(frames)
    BY GoesOnIs DEF StoreInv
  <1>2. CopyInv /\ manner' = manner
    BY DEF StoreInv, GoesOn
  <1>3. \A k \in Declared : signals'[k] # Absent
    BY <1>2 DEF CopyInv
  <1>4. ASSUME NEW i \in 1..Len(frames'), NEW k \in Declared
        PROVE  /\ frames'[i].at = "draft" => frames'[i].data[k] # Absent
               /\ frames'[i].at = "write" => frames'[i].data[1][k] # Absent
               /\ frames'[i].at = "write" /\ frames'[i].op = "reset" =>
                      frames'[i].data[1] = Initial
    <2>1. CASE i \in 1..Len(frames) - 1
      BY <1>1, <1>2, <2>1 DEF CopyInv
    <2>2. CASE i = Len(frames)
      BY <1>1, <1>2, <2>2 DEF CopyInv
    <2>. QED BY <1>1, <2>1, <2>2
  <1>5. "actions" \notin manner => runs' = << >> /\ \A i \in 1..Len(frames') : frames'[i].at # "return"
    BY <1>1, <1>2 DEF CopyInv
  <1>6. ASSUME Plain, NEW i \in 1..Len(frames')
        PROVE  /\ frames'[i].at = "atomic" => signals'[frames'[i].data[1]] = frames'[i].data[2]
               /\ frames'[i].at = "write" =>
                     \A n \in 1..frames'[i].data[2] - 1 :
                         Keys[n] \in Declared => signals'[Keys[n]] = frames'[i].data[1][Keys[n]]
    <2>1. CASE i \in 1..Len(frames) - 1
      BY <1>1, <1>2, <1>6, <2>1 DEF CopyInv, Written
    <2>2. CASE i = Len(frames)
      BY <1>1, <2>2
    <2>. QED BY <1>1, <2>1, <2>2
  <1>7. ASSUME Plain, NEW k \in Declared, signals'[k] # atomic'[k]
        PROVE  \E i \in 1..Len(frames') :
                  \/ frames'[i].at = "atomic" /\ frames'[i].data[1] = k
                  \/ frames'[i].at = "write" /\ frames'[i].op = "reset"
                  \/ /\ frames'[i].at = "write" /\ frames'[i].op = "update"
                     /\ frames'[i].in # "nothing"
                     /\ Keys[frames'[i].data[2] - 1] = k
    <2>1. PICK i \in 1..Len(frames) :
                  \/ frames[i].at = "atomic" /\ frames[i].data[1] = k
                  \/ frames[i].at = "write" /\ frames[i].op = "reset"
                  \/ /\ frames[i].at = "write" /\ frames[i].op = "update"
                     /\ frames[i].in # "nothing"
                     /\ Keys[frames[i].data[2] - 1] = k
      BY <1>2, <1>7 DEF CopyInv
    <2>2. i \in 1..Len(frames) - 1
      BY <1>1, <2>1
    <2>. QED BY <1>1, <2>1, <2>2
  <1>8. Plain' <=> Plain
    BY <1>2 DEF Plain
  <1>. QED BY <1>2, <1>3, <1>4, <1>5, <1>6, <1>7, <1>8 DEF CopyInv, Written


\* The rest of setValue(): the second copy, and the followers.
LEMMA AssignedStep == ASSUME StoreInv, Assigned PROVE StoreInv'
  <1>1. frames # << >> /\ StackInv
    BY DEF Assigned, At, StoreInv
  <1>2. PICK f \in FrameSet, t \in FrameSet :
            /\ GoesOn(f, t) /\ Top = t /\ f.op = "set"
            /\ batchDepth = 0 => f.at = "persist" /\ noticed' = signals
            /\ batchDepth # 0 => f.at = "end" /\ noticed' = noticed
    <2>1. Notify("set", batchDepth, signals) /\ UNCHANGED <<manner, lastEnd>> /\ "set" \in Operations
      BY DEF Assigned, Operations
    <2>2. ASSUME NEW d, d = batchDepth, NEW now, now = signals
          PROVE  \E f \in FrameSet, t \in FrameSet :
                    /\ GoesOn(f, t) /\ Top = t /\ f.op = "set"
                    /\ d = 0 => f.at = "persist" /\ noticed' = now
                    /\ d # 0 => f.at = "end" /\ noticed' = noticed
      <3>1. Notify("set", d, now)
        BY <2>1, <2>2
      <3>. QED BY <1>1, <2>1, <3>1, NotifyIs
    <2>. QED BY <2>2
  <1>3. /\ t.at = "atomic" /\ t.data \in Key \X Value
        /\ atomic' = [atomic EXCEPT ![t.data[1]] = t.data[2]]
        /\ UNCHANGED <<signals, saved, selected, batchDepth, newest, runs, pendingAction, spokeLate>>
    BY <1>2, FrameTells DEF Assigned, At, actionVars
  <1>4. /\ atomic \in Snapshot /\ atomic' \in Snapshot /\ batchDepth \in Nat
        /\ atomic'[t.data[1]] = t.data[2]
        /\ \A k \in Key : k # t.data[1] => atomic'[k] = atomic[k]
    BY <1>1, <1>3 DEF StackInv, Snapshot
  <1>5. StackInv' /\ DepthInv' /\ NoticeInv' /\ FollowInv' /\ SilenceInv'
    <2>1. f.op \in Operations /\ ~Batching(t)
      BY <1>2, <1>3 DEF Operations, Batching
    <2>2. batchDepth' = batchDepth - (IF Batching(t) THEN 1 ELSE 0)
      BY <1>3, <1>4, <2>1
    <2>. QED BY <1>2, <1>3, <1>4, <2>1, <2>2, ToldStep
  <1>6. CopyInv'
    <2>1. /\ Len(frames) \in Nat /\ Len(frames) > 0 /\ Len(frames') = Len(frames)
          /\ frames'[Len(frames)] = f /\ frames[Len(frames)] = t /\ Len(frames) \in 1..Len(frames)
          /\ \A i \in 1..Len(frames) - 1 :
                /\ frames'[i] = frames[i] /\ i \in 1..Len(frames) /\ frames[i] \in FrameSet
                /\ frames[i].in \in manner \cup {"body"}
          /\ \A i \in 1..Len(frames) : i \in 1..Len(frames) - 1 \/ i = Len(frames)
      BY <1>1, <1>2, GoesOnIs
    <2>2. CopyInv /\ manner' = manner /\ f.at \in {"persist", "end"}
      BY <1>2 DEF StoreInv, GoesOn
    <2>3. \A k \in Declared : signals'[k] # Absent /\ k \in Key
      BY <1>3, <2>2, StoreConstants DEF CopyInv
    <2>4. \A i \in 1..Len(frames'), k \in Declared :
             /\ frames'[i].at = "draft" => frames'[i].data[k] # Absent
             /\ frames'[i].at = "write" => frames'[i].data[1][k] # Absent
             /\ frames'[i].at = "write" /\ frames'[i].op = "reset" => frames'[i].data[1] = Initial
      BY <2>1, <2>2 DEF CopyInv
    <2>5. "actions" \notin manner => runs' = << >> /\ \A i \in 1..Len(frames') : frames'[i].at # "return"
      BY <1>3, <2>1, <2>2 DEF CopyInv
    <2>6. ASSUME Plain PROVE \A i \in 1..Len(frames') : frames'[i].at \notin {"atomic", "write"}
      BY <1>1, <2>1, <2>2, <2>6, WaitingIs DEF Plain
    <2>7. ASSUME Plain, NEW k \in Declared PROVE signals'[k] = atomic'[k]
      <3>1. CASE k = t.data[1]
        BY <1>3, <1>4, <2>1, <2>2, <2>7, <3>1 DEF CopyInv
      <3>2. CASE k # t.data[1]
        <4>1. \A i \in 1..Len(frames) - 1 : frames[i].at \notin {"atomic", "write"}
          BY <1>1, <2>1, <2>7, WaitingIs DEF Plain
        <4>2. signals[k] = atomic[k]
          BY <1>3, <2>1, <2>2, <2>7, <3>2, <4>1 DEF CopyInv
        <4>. QED BY <1>3, <1>4, <2>3, <3>2, <4>2
      <3>. QED BY <3>1, <3>2
    <2>. QED BY <2>2, <2>3, <2>4, <2>5, <2>6, <2>7 DEF CopyInv, Plain
  <1>. QED BY <1>5, <1>6 DEF StoreInv

\* The body of a batch returns.
LEMMA CloseStep == ASSUME StoreInv, Close PROVE StoreInv'
  <1>1. frames # << >> /\ StackInv /\ batchDepth \in Nat
    BY DEF Close, At, StoreInv, StackInv
  <1>2. PICK f \in FrameSet, t \in FrameSet :
            /\ GoesOn(f, t) /\ Top = t /\ f.op = "batch"
            /\ batchDepth' = 0 => f.at = "persist" /\ noticed' = signals
            /\ batchDepth' # 0 => f.at = "end" /\ noticed' = noticed
    <2>1. /\ Notify("batch", batchDepth', signals) /\ UNCHANGED <<manner, lastEnd>>
          /\ "batch" \in Operations
      BY DEF Close, Operations
    <2>2. ASSUME NEW d, d = batchDepth', NEW now, now = signals
          PROVE  \E f \in FrameSet, t \in FrameSet :
                    /\ GoesOn(f, t) /\ Top = t /\ f.op = "batch"
                    /\ d = 0 => f.at = "persist" /\ noticed' = now
                    /\ d # 0 => f.at = "end" /\ noticed' = noticed
      <3>1. Notify("batch", d, now)
        BY <2>1, <2>2
      <3>. QED BY <1>1, <2>1, <3>1, NotifyIs
    <2>. QED BY <2>2
  <1>3. /\ t.at = "close" /\ batchDepth' = batchDepth - 1
        /\ UNCHANGED <<signals, atomic, saved, selected, newest, runs, pendingAction, spokeLate>>
    BY <1>2 DEF Close, At, actionVars
  <1>4. StackInv' /\ DepthInv' /\ NoticeInv' /\ FollowInv' /\ SilenceInv'
    <2>1. f.op \in Operations /\ Batching(t) /\ atomic' \in Snapshot
      BY <1>1, <1>2, <1>3 DEF Operations, Batching, StackInv
    <2>2. batchDepth' = batchDepth - (IF Batching(t) THEN 1 ELSE 0)
      BY <1>3, <2>1
    <2>. QED BY <1>2, <1>3, <2>1, <2>2, ToldStep
  <1>5. CopyInv'
    <2>1. f.at \in {"persist", "end"}
      BY <1>2
    <2>. QED BY <1>2, <1>3, <2>1, KeptCopies
  <1>. QED BY <1>4, <1>5 DEF StoreInv

\* The updater of an update returns with a draft.
LEMMA DraftedStep == ASSUME StoreInv, Drafted PROVE StoreInv'
  <1>1. frames # << >> /\ StackInv /\ batchDepth \in Nat /\ frames \in Seq(FrameSet)
    BY DEF Drafted, At, StoreInv, StackInv
  <1>2. PICK t \in FrameSet : t = Top /\ t = frames[Len(frames)] /\ Len(frames) \in 1..Len(frames)
    BY <1>1, TopIs
  <1>3. t.at = "draft" /\ t.data \in Snapshot /\ t.op = "update"
    BY <1>2, FrameTells DEF Drafted, At
  <1>4. PICK k \in Key, v \in Value :
            Become(Frame("update", "write", <<[t.data EXCEPT ![k] = v], 1>>, "nothing"))
    BY <1>2 DEF Drafted
  <1>5. [t.data EXCEPT ![k] = v] \in Snapshot
    BY <1>3 DEF Snapshot
  <1>6. PICK f \in FrameSet :
            /\ frames' = Append(Front(frames), f) /\ calls' = calls
            /\ f.op = "update" /\ f.at = "write" /\ f.data = <<[t.data EXCEPT ![k] = v], 1>>
    <2>. DEFINE draft == [t.data EXCEPT ![k] = v]
    <2>1. Frame("update", "write", <<draft, 1>>, "nothing") \in FrameSet
      BY <1>5, FrameKinds
    <2>2. /\ frames' = Append(Front(frames), Frame("update", "write", <<draft, 1>>, "nothing"))
          /\ calls' = calls
      BY <1>4 DEF Become
    <2>. HIDE DEF draft
    <2>3. /\ Frame("update", "write", <<draft, 1>>, "nothing").op = "update"
          /\ Frame("update", "write", <<draft, 1>>, "nothing").at = "write"
          /\ Frame("update", "write", <<draft, 1>>, "nothing").data = <<draft, 1>>
      BY FrameOf
    <2>. QED BY <2>1, <2>2, <2>3 DEF draft
  <1>7. /\ batchDepth' = batchDepth + 1
        /\ UNCHANGED <<manner, signals, atomic, lastEnd, noticed, saved, selected, newest, runs,
                       pendingAction, spokeLate>>
    BY DEF Drafted, actionVars, followers
  <1>8. Became(f)
    BY <1>1, <1>6, BecomeIs
  <1>9. GoesOn(f, t)
    BY <1>1, <1>2, <1>6, <1>7, <1>8 DEF GoesOn
  <1>10. StackInv' /\ DepthInv' /\ SilenceInv'
    <2>1. /\ ~Batching(t) /\ Batching(f)
          /\ {signals', atomic', saved', noticed'} \subseteq Snapshot
          /\ selected' \in Snapshot \X Snapshot
      BY <1>1, <1>3, <1>6, <1>7 DEF Batching, StackInv
    <2>2. batchDepth' = batchDepth + (IF Batching(f) THEN 1 ELSE 0) - (IF Batching(t) THEN 1 ELSE 0)
      BY <1>1, <1>7, <2>1
    <2>3. f.op # "action" /\ f.at # "return" /\ f.at # "draft"
      BY <1>6
    <2>. QED BY <1>3, <1>7, <1>9, <2>1, <2>2, <2>3, GoesOnWell
  <1>11. NoticeInv' /\ FollowInv'
    <2>1. Unfinished(f)
      BY <1>6 DEF Unfinished
    <2>. QED BY <1>7, <1>9, <2>1, StillUnfinished
  <1>12. CopyInv'
    <2>1. ASSUME NEW j \in Declared PROVE f.data[1][j] # Absent
      <3>1. t.data[j] # Absent
        BY <1>2, <1>3 DEF StoreInv, CopyInv
      <3>2. j \in Key /\ v # Absent
        BY StoreConstants
      <3>. QED BY <1>3, <1>6, <3>1, <3>2 DEF Snapshot
    <2>2. f.data[2] = 1
      BY <1>6
    <2>. QED BY <1>3, <1>6, <1>7, <1>9, <2>1, <2>2, KeptCopies
  <1>. QED BY <1>10, <1>11, <1>12 DEF StoreInv


\* The operation on top, with the frame it goes on to.
LEMMA BecomesIs ==
    ASSUME StackInv, frames # << >>, NEW f \in FrameSet, Become(f), UNCHANGED <<manner, lastEnd>>
    PROVE  \E t \in FrameSet : GoesOn(f, t) /\ Top = t
  <1>1. /\ frames \in Seq(FrameSet) /\ Top = frames[Len(frames)] /\ Top \in FrameSet
        /\ frames' = Append(Front(frames), f) /\ calls' = calls
    BY TopIs DEF StackInv, Become
  <1>2. Became(f)
    BY <1>1, BecomeIs
  <1>. QED BY <1>1, <1>2 DEF GoesOn

LEMMA EffectsAre == \A changed, below : Effects(changed, below) \in {"nothing", "effects"}
  BY DEF Effects

\* persist(), and the first of the selectors.
LEMMA PersistStep == ASSUME StoreInv, Persist PROVE StoreInv'
  <1>1. /\ frames # << >> /\ StackInv /\ frames \in Seq(FrameSet) /\ batchDepth \in Nat
        /\ UNCHANGED <<manner, signals, atomic, noticed, batchDepth, lastEnd, newest, runs,
                       pendingAction, spokeLate>>
    BY DEF Persist, At, StoreInv, StackInv, actionVars
  <1>2. Top \in FrameSet /\ Top.at = "persist" /\ Top.op \in Operations
    BY <1>1, TopIs, FrameTells DEF Persist, At
  <1>3. PICK f \in FrameSet :
            /\ Become(f) /\ f.op = Top.op
            /\ batchDepth > 0 => f.at = "end" /\ UNCHANGED <<saved, selected>>
            /\ batchDepth = 0 => /\ f.at = "second" /\ f.data = signals
                                 /\ saved' = signals /\ selected' = [selected EXCEPT ![1] = signals]
    <2>1. CASE batchDepth > 0
      <3>1. Frame(Top.op, "end", 0, "nothing") \in FrameSet
        BY <1>2, FrameKinds
      <3>. QED BY <2>1, <3>1, FrameOf DEF Persist
    <2>2. CASE batchDepth = 0
      <3>1. PICK e \in {"nothing", "effects"} :
                /\ Become(Frame(Top.op, "second", signals, e))
                /\ saved' = signals /\ selected' = [selected EXCEPT ![1] = signals]
        BY <2>2, EffectsAre DEF Persist
      <3>2. Frame(Top.op, "second", signals, e) \in FrameSet
        BY <1>1, <1>2, FrameKinds DEF StackInv
      <3>. QED BY <2>2, <3>1, <3>2, FrameOf
    <2>. QED BY <1>1, <2>1, <2>2
  <1>4. PICK t \in FrameSet : GoesOn(f, t) /\ Top = t
    BY <1>1, <1>3, BecomesIs
  <1>5. /\ Len(frames) \in Nat /\ Len(frames) > 0 /\ Len(frames') = Len(frames)
        /\ frames'[Len(frames)] = f /\ frames[Len(frames)] = t /\ Len(frames) \in 1..Len(frames)
        /\ \A i \in 1..Len(frames) - 1 : frames'[i] = frames[i] /\ i \in 1..Len(frames)
        /\ \A i \in 1..Len(frames) : i \in 1..Len(frames) - 1 \/ i = Len(frames)
        /\ frames' # << >>
    BY <1>1, <1>4, GoesOnIs
  <1>6. /\ ~Batching(t) /\ ~Batching(f) /\ f.op # "action" /\ f.at \in {"end", "second"}
        /\ t.at = "persist"
    BY <1>1, <1>2, <1>3, <1>4 DEF Batching, Operations
  <1>7. StackInv' /\ DepthInv' /\ SilenceInv'
    <2>1. {signals', atomic', saved', noticed'} \subseteq Snapshot
      BY <1>1, <1>3 DEF StackInv
    <2>2. selected' \in Snapshot \X Snapshot
      BY <1>1, <1>3 DEF StackInv
    <2>3. batchDepth' = batchDepth + (IF Batching(f) THEN 1 ELSE 0) - (IF Batching(t) THEN 1 ELSE 0)
      BY <1>1, <1>6
    <2>4. f.at # "return" /\ f.at # "draft" /\ t.at # "draft"
      BY <1>6
    <2>. QED BY <1>1, <1>4, <1>6, <2>1, <2>2, <2>3, <2>4, GoesOnWell
  <1>8. NoticeInv'
    <2>. SUFFICES ASSUME Calm', runs' = << >>
                  PROVE  noticed' = signals' \/ \E i \in 1..Len(frames') : Unfinished(frames'[i])
      BY DEF NoticeInv, Unfinished
    <2>1. noticed = signals \/ \E i \in 1..Len(frames) : Unfinished(frames[i])
      BY <1>1 DEF StoreInv, NoticeInv, Calm
    <2>2. ~Unfinished(frames[Len(frames)])
      BY <1>5, <1>6 DEF Unfinished
    <2>3. ASSUME NEW i \in 1..Len(frames), Unfinished(frames[i])
          PROVE  i \in 1..Len(frames') /\ Unfinished(frames'[i])
      BY <1>5, <2>2, <2>3
    <2>. QED BY <1>1, <2>1, <2>3
  <1>9. FollowInv'
    <2>. SUFFICES ASSUME "effects" \notin manner PROVE FollowInv'
      BY <1>1 DEF FollowInv
    <2>1. \A i \in 1..Len(frames') : frames'[i].at = "second" => frames'[i].data = signals'
      <3>1. \A i \in 1..Len(frames) : frames[i].at = "second" => frames[i].data = signals
        BY DEF StoreInv, FollowInv
      <3>2. f.at = "second" => f.data = signals
        BY <1>1, <1>3
      <3>. QED BY <1>1, <1>5, <3>1, <3>2
    <2>2. CASE batchDepth > 0
      <3>1. \E i \in 1..Len(frames') : i # Len(frames) /\ Unfinished(frames'[i])
        <4>1. Calm /\ batchDepth - (IF Batching(t) THEN 1 ELSE 0) # 0
          BY <1>1, <1>6, <2>2 DEF Calm
        <4>. QED BY <1>4, <4>1, HeldUp
      <3>. QED BY <2>1, <3>1 DEF FollowInv, Unfinished
    <2>3. CASE batchDepth = 0
      <3>1. saved' = signals' /\ selected'[1] = signals' /\ frames'[Len(frames')].at = "second"
        BY <1>1, <1>3, <1>5, <2>3 DEF StackInv
      <3>. QED BY <1>5, <2>1, <3>1 DEF FollowInv
    <2>. QED BY <1>1, <2>2, <2>3
  <1>10. CopyInv'
    BY <1>1, <1>4, <1>6, KeptCopies
  <1>. QED BY <1>7, <1>8, <1>9, <1>10 DEF StoreInv

\* The second of the selectors.
LEMMA SelectStep == ASSUME StoreInv, Select PROVE StoreInv'
  <1>1. /\ frames # << >> /\ StackInv /\ frames \in Seq(FrameSet) /\ batchDepth \in Nat
        /\ UNCHANGED <<manner, signals, atomic, saved, noticed, batchDepth, lastEnd, newest, runs,
                       pendingAction, spokeLate>>
    BY DEF Select, At, StoreInv, StackInv, actionVars
  <1>2. /\ Top \in FrameSet /\ Top.at = "second" /\ Top.op \in Operations
        /\ Top.data \in Snapshot
        /\ selected' = [selected EXCEPT ![2] = Top.data]
    BY <1>1, TopIs, FrameTells DEF Select, At
  <1>3. PICK f \in FrameSet : Become(f) /\ f.op = Top.op /\ f.at = "end"
    <2>1. PICK e \in {"nothing", "effects"} : Become(Frame(Top.op, "end", 0, e))
      BY EffectsAre DEF Select
    <2>2. Frame(Top.op, "end", 0, e) \in FrameSet
      BY <1>2, FrameKinds
    <2>. QED BY <2>1, <2>2, FrameOf
  <1>4. PICK t \in FrameSet : GoesOn(f, t) /\ Top = t
    BY <1>1, <1>3, BecomesIs
  <1>5. /\ Len(frames) \in Nat /\ Len(frames) > 0 /\ Len(frames') = Len(frames)
        /\ frames'[Len(frames)] = f /\ frames[Len(frames)] = t /\ Len(frames) \in 1..Len(frames)
        /\ \A i \in 1..Len(frames) - 1 : frames'[i] = frames[i] /\ i \in 1..Len(frames)
        /\ \A i \in 1..Len(frames) : i \in 1..Len(frames) - 1 \/ i = Len(frames)
        /\ frames' # << >>
    BY <1>1, <1>4, GoesOnIs
  <1>6. /\ ~Batching(t) /\ ~Batching(f) /\ f.op # "action" /\ f.at = "end" /\ t.at = "second"
        /\ t.op = f.op /\ t.op \in Operations
    BY <1>1, <1>2, <1>3, <1>4 DEF Batching, Operations
  <1>7. StackInv' /\ DepthInv' /\ SilenceInv'
    <2>1. {signals', atomic', saved', noticed'} \subseteq Snapshot
      BY <1>1 DEF StackInv
    <2>2. selected' \in Snapshot \X Snapshot
      BY <1>1, <1>2 DEF StackInv
    <2>3. batchDepth' = batchDepth + (IF Batching(f) THEN 1 ELSE 0) - (IF Batching(t) THEN 1 ELSE 0)
      BY <1>1, <1>6
    <2>4. f.at # "return" /\ f.at # "draft" /\ t.at # "draft"
      BY <1>6
    <2>. QED BY <1>1, <1>4, <1>6, <2>1, <2>2, <2>3, <2>4, GoesOnWell
  <1>8. NoticeInv'
    <2>. SUFFICES ASSUME Calm', runs' = << >>
                  PROVE  noticed' = signals' \/ \E i \in 1..Len(frames') : Unfinished(frames'[i])
      BY DEF NoticeInv, Unfinished
    <2>1. noticed = signals \/ \E i \in 1..Len(frames) : Unfinished(frames[i])
      BY <1>1 DEF StoreInv, NoticeInv, Calm
    <2>2. ~Unfinished(frames[Len(frames)])
      BY <1>5, <1>6 DEF Unfinished
    <2>3. ASSUME NEW i \in 1..Len(frames), Unfinished(frames[i])
          PROVE  i \in 1..Len(frames') /\ Unfinished(frames'[i])
      BY <1>5, <2>2, <2>3
    <2>. QED BY <1>1, <2>1, <2>3
  <1>9. FollowInv'
    <2>. SUFFICES ASSUME "effects" \notin manner PROVE FollowInv'
      BY <1>1 DEF FollowInv
    <2>1. \A i \in 1..Len(frames') : frames'[i].at = "second" => frames'[i].data = signals'
      <3>1. \A i \in 1..Len(frames) : frames[i].at = "second" => frames[i].data = signals
        BY DEF StoreInv, FollowInv
      <3>. QED BY <1>1, <1>5, <1>6, <3>1
    <2>2. t.data = signals
      BY <1>5, <1>6 DEF StoreInv, FollowInv
    <2>3. /\ selected'[1] = selected[1] /\ selected'[2] = signals' /\ saved' = saved
          /\ signals' = signals
      BY <1>1, <1>2, <1>4, <2>2 DEF StackInv
    <2>4. \/ frames[1].op \in {"action", "run", "write"}
          \/ \E i \in 1..Len(frames) : Unfinished(frames[i]) \/ frames[i].at = "persist"
          \/ saved = signals /\ selected[1] = signals
      BY <1>1 DEF StoreInv, FollowInv
    <2>5. CASE frames[1].op \in {"action", "run", "write"}
      <3>1. 1 \in 1..Len(frames) - 1
        BY <1>5, <1>6, <2>5 DEF Operations
      <3>2. frames'[1].op \in {"action", "run", "write"}
        BY <1>5, <2>5, <3>1
      <3>. QED BY <1>5, <2>1, <3>2 DEF FollowInv
    <2>6. ASSUME NEW i \in 1..Len(frames), Unfinished(frames[i]) \/ frames[i].at = "persist"
          PROVE  FollowInv'
      <3>1. i \in 1..Len(frames') /\ frames'[i] = frames[i]
        BY <1>5, <1>6, <2>6 DEF Unfinished
      <3>. QED BY <2>1, <2>6, <3>1 DEF FollowInv, Unfinished
    <2>7. CASE saved = signals /\ selected[1] = signals
      BY <2>1, <2>3, <2>7 DEF FollowInv
    <2>. QED BY <2>4, <2>5, <2>6, <2>7
  <1>10. CopyInv'
    BY <1>1, <1>4, <1>6, KeptCopies
  <1>. QED BY <1>7, <1>8, <1>9, <1>10 DEF StoreInv


\* An operation returns.
LEMMA EndStep == ASSUME StoreInv, End PROVE StoreInv'
  <1>1. /\ frames # << >> /\ StackInv /\ frames \in Seq(FrameSet) /\ frames' = Front(frames)
        /\ calls' = calls
        /\ UNCHANGED <<manner, signals, atomic, saved, selected, noticed, batchDepth, newest, runs,
                       pendingAction, spokeLate>>
    BY DEF End, At, StoreInv, StackInv, actionVars, followers
  <1>2. PICK t \in FrameSet : t = Top /\ t = frames[Len(frames)] /\ t.at = "end"
    BY <1>1, TopIs DEF End, At
  <1>3. Popped
    BY <1>1, PopIs
  <1>4. /\ Len(frames) \in Nat /\ Len(frames) > 0 /\ Len(frames) \in 1..Len(frames)
        /\ frames' \in Seq(FrameSet) /\ Len(frames') = Len(frames) - 1
        /\ \A i \in 1..Len(frames') : frames'[i] = frames[i] /\ i \in 1..Len(frames)
        /\ \A i \in 1..Len(frames) : i \in 1..Len(frames') \/ i = Len(frames)
    BY <1>1, <1>3 DEF Popped
  <1>5. lastEnd' = IF Len(frames) > 1 THEN lastEnd
                   ELSE IF t.op \in {"action", "run", "write"} THEN "action" ELSE "whole"
    BY <1>2 DEF End
  <1>6. StackInv'
    <2>1. \A i \in 1..Len(frames') - 1 : frames'[i].in \in manner' \cup {"body"}
      BY <1>1, <1>4 DEF StackInv
    <2>2. lastEnd' \in {"none", "whole", "action", "cut"}
      BY <1>1, <1>5 DEF StackInv
    <2>. QED BY <1>1, <1>4, <2>1, <2>2 DEF StackInv
  <1>7. DepthInv'
    <2>1. Batched' = Batched /\ Drafts' = Drafts
      BY <1>1, <1>2, <1>3, PopCounts
    <2>. QED BY <1>1, <2>1 DEF StoreInv, DepthInv, Calm
  <1>8. NoticeInv'
    <2>. SUFFICES ASSUME Calm', runs' = << >>
                  PROVE  noticed' = signals' \/ \E i \in 1..Len(frames') : Unfinished(frames'[i])
      BY DEF NoticeInv, Unfinished
    <2>1. noticed = signals \/ \E i \in 1..Len(frames) : Unfinished(frames[i])
      BY <1>1 DEF StoreInv, NoticeInv, Calm
    <2>2. ~Unfinished(frames[Len(frames)])
      BY <1>2 DEF Unfinished
    <2>3. ASSUME NEW i \in 1..Len(frames), Unfinished(frames[i])
          PROVE  i \in 1..Len(frames') /\ Unfinished(frames'[i])
      BY <1>4, <2>2, <2>3
    <2>. QED BY <1>1, <2>1, <2>3
  <1>9. FollowInv'
    <2>. SUFFICES ASSUME "effects" \notin manner PROVE FollowInv'
      BY <1>1 DEF FollowInv
    <2>1. \A i \in 1..Len(frames') : frames'[i].at = "second" => frames'[i].data = signals'
      <3>1. \A i \in 1..Len(frames) : frames[i].at = "second" => frames[i].data = signals
        BY DEF StoreInv, FollowInv
      <3>. QED BY <1>1, <1>4, <3>1
    <2>2. \/ frames[1].op \in {"action", "run", "write"}
          \/ \E i \in 1..Len(frames) : Unfinished(frames[i]) \/ frames[i].at = "persist"
          \/ saved = signals /\ selected[1] = signals /\ selected[2] = signals
      BY <1>1, <1>2 DEF StoreInv, FollowInv
    <2>3. CASE frames[1].op \in {"action", "run", "write"}
      <3>1. CASE Len(frames) = 1
        <4>1. lastEnd' = "action" /\ frames' = << >>
          BY <1>2, <1>4, <1>5, <2>3, <3>1
        <4>. QED BY <2>1, <4>1 DEF FollowInv
      <3>2. CASE Len(frames) # 1
        <4>1. 1 \in 1..Len(frames') /\ frames' # << >>
          BY <1>4, <3>2
        <4>2. frames'[1].op \in {"action", "run", "write"}
          BY <1>4, <2>3, <4>1
        <4>. QED BY <2>1, <4>1, <4>2 DEF FollowInv
      <3>. QED BY <3>1, <3>2
    <2>4. ASSUME NEW i \in 1..Len(frames), Unfinished(frames[i]) \/ frames[i].at = "persist"
          PROVE  FollowInv'
      <3>1. i \in 1..Len(frames') /\ frames'[i] = frames[i]
        BY <1>2, <1>4, <2>4 DEF Unfinished
      <3>. QED BY <2>1, <2>4, <3>1 DEF FollowInv, Unfinished
    <2>5. CASE saved = signals /\ selected[1] = signals /\ selected[2] = signals
      BY <1>1, <2>1, <2>5 DEF FollowInv
    <2>. QED BY <2>2, <2>3, <2>4, <2>5
  <1>10. CopyInv'
    <2>1. CopyInv /\ Plain' = Plain
      BY <1>1 DEF StoreInv, Plain
    <2>2. \A k \in Declared : signals'[k] # Absent
      BY <1>1, <2>1 DEF CopyInv
    <2>3. \A i \in 1..Len(frames'), k \in Declared :
             /\ frames'[i].at = "draft" => frames'[i].data[k] # Absent
             /\ frames'[i].at = "write" => frames'[i].data[1][k] # Absent
             /\ frames'[i].at = "write" /\ frames'[i].op = "reset" => frames'[i].data[1] = Initial
      BY <1>4, <2>1 DEF CopyInv
    <2>4. "actions" \notin manner => runs' = << >> /\ \A i \in 1..Len(frames') : frames'[i].at # "return"
      BY <1>1, <1>4, <2>1 DEF CopyInv
    <2>5. ASSUME Plain, NEW i \in 1..Len(frames')
          PROVE  /\ frames'[i].at = "atomic" => signals'[frames'[i].data[1]] = frames'[i].data[2]
                 /\ frames'[i].at = "write" =>
                       \A n \in 1..frames'[i].data[2] - 1 :
                           Keys[n] \in Declared => signals'[Keys[n]] = frames'[i].data[1][Keys[n]]
      BY <1>1, <1>4, <2>1, <2>5 DEF CopyInv, Written
    <2>6. ASSUME Plain, NEW k \in Declared, signals'[k] # atomic'[k]
          PROVE  \E i \in 1..Len(frames') :
                    \/ frames'[i].at = "atomic" /\ frames'[i].data[1] = k
                    \/ frames'[i].at = "write" /\ frames'[i].op = "reset"
                    \/ /\ frames'[i].at = "write" /\ frames'[i].op = "update"
                       /\ frames'[i].in # "nothing"
                       /\ Keys[frames'[i].data[2] - 1] = k
      <3>1. PICK i \in 1..Len(frames) :
                    \/ frames[i].at = "atomic" /\ frames[i].data[1] = k
                    \/ frames[i].at = "write" /\ frames[i].op = "reset"
                    \/ /\ frames[i].at = "write" /\ frames[i].op = "update"
                       /\ frames[i].in # "nothing"
                       /\ Keys[frames[i].data[2] - 1] = k
        BY <1>1, <2>1, <2>6 DEF CopyInv
      <3>2. i \in 1..Len(frames') /\ frames'[i] = frames[i]
        BY <1>2, <1>4, <3>1
      <3>. QED BY <3>1, <3>2
    <2>. QED BY <1>1, <2>1, <2>2, <2>3, <2>4, <2>5, <2>6 DEF CopyInv, Written
  <1>11. SilenceInv'
    <2>1. Aside
      BY <1>1, <1>4 DEF Aside
    <2>. QED BY <2>1, SilenceStays DEF StoreInv
  <1>. QED BY <1>6, <1>7, <1>8, <1>9, <1>10, <1>11 DEF StoreInv

\* What an update has written of the other copy, where nothing calls back.
LEMMA WrittenCopies ==
    ASSUME StoreInv, Plain, NEW t \in FrameSet, frames # << >>, t = frames[Len(frames)],
           t.at = "write", t.op = "update",
           atomic' = IF t.in # "nothing"
                     THEN [atomic EXCEPT ![Keys[t.data[2] - 1]] = t.data[1][Keys[t.data[2] - 1]]]
                     ELSE atomic
    PROVE  \A k \in Declared : signals[k] = atomic'[k]
  <1>1. /\ frames \in Seq(FrameSet) /\ Len(frames) \in Nat /\ Len(frames) > 0 /\ StackInv /\ CopyInv
        /\ Len(frames) \in 1..Len(frames)
        /\ \A i \in 1..Len(frames) - 1 : frames[i] \in FrameSet /\ frames[i].in \in manner \cup {"body"}
        /\ \A i \in 1..Len(frames) : i \in 1..Len(frames) - 1 \/ i = Len(frames)
        /\ atomic \in Snapshot
    BY DEF StoreInv, StackInv
  <1>2. \A i \in 1..Len(frames) - 1 : frames[i].at \notin {"atomic", "write"}
    BY <1>1, WaitingIs DEF Plain
  <1>3. /\ t.data \in Snapshot \X (1..Len(Keys) + 1)
        /\ t.in # "nothing" => t.data[2] > 1
    BY FrameTells
  <1>. SUFFICES ASSUME NEW k \in Declared PROVE signals[k] = atomic'[k]
    OBVIOUS
  <1>4. k \in Key
    BY StoreConstants
  <1>5. signals[k] = atomic[k] \/ (t.in # "nothing" /\ Keys[t.data[2] - 1] = k)
    BY <1>1, <1>2 DEF CopyInv
  <1>6. CASE t.in # "nothing" /\ Keys[t.data[2] - 1] = k
    <2>1. t.data[2] - 1 \in 1..t.data[2] - 1
      <3>1. Len(Keys) \in Nat
        BY StoreConstants
      <3>2. t.data[2] \in 1..Len(Keys) + 1 /\ t.data[2] > 1
        BY <1>3, <1>6
      <3>. QED BY <3>1, <3>2
    <2>2. signals[k] = t.data[1][k]
      BY <1>1, <1>6, <2>1 DEF CopyInv, Written
    <2>. QED BY <1>1, <1>4, <1>6, <2>2 DEF Snapshot
  <1>7. CASE ~(t.in # "nothing" /\ Keys[t.data[2] - 1] = k)
    BY <1>1, <1>4, <1>5, <1>7 DEF Snapshot
  <1>. QED BY <1>6, <1>7


\* An update or a reset has had the turn of every key.
LEMMA OverStep ==
    ASSUME StoreInv, WriteNext, Top.data[2] > Len(Keys) PROVE StoreInv'
  <1>1. /\ frames # << >> /\ StackInv /\ CopyInv /\ batchDepth \in Nat /\ frames \in Seq(FrameSet)
        /\ atomic \in Snapshot
        /\ UNCHANGED <<manner, saved, selected, lastEnd, newest, runs, pendingAction, spokeLate>>
    BY DEF WriteNext, At, StoreInv, StackInv, actionVars
  <1>2. /\ Top \in FrameSet /\ Top.at = "write" /\ Top.op \in {"update", "reset"}
        /\ Top.data \in Snapshot \X (1..Len(Keys) + 1)
    BY <1>1, TopIs, FrameTells DEF WriteNext, At
  <1>3. /\ signals' = signals
        /\ batchDepth' = IF Top.op = "update" THEN batchDepth - 1 ELSE batchDepth
        /\ Notify(Top.op, batchDepth', signals)
        /\ Top.op = "update" =>
              atomic' = IF Top.in # "nothing"
                        THEN [atomic EXCEPT ![Keys[Top.data[2] - 1]] =
                                  Top.data[1][Keys[Top.data[2] - 1]]]
                        ELSE atomic
        /\ Top.op # "update" => atomic' = Initial
    BY DEF WriteNext
  <1>4. PICK f \in FrameSet, t \in FrameSet :
            /\ GoesOn(f, t) /\ Top = t /\ f.op \in Operations
            /\ batchDepth' = 0 => f.at = "persist" /\ noticed' = signals
            /\ batchDepth' # 0 => f.at = "end" /\ noticed' = noticed
    <2>1. ASSUME NEW op \in Operations, op = Top.op, NEW d, d = batchDepth', NEW now, now = signals
          PROVE  \E f \in FrameSet, t \in FrameSet :
                    /\ GoesOn(f, t) /\ Top = t /\ f.op = op
                    /\ d = 0 => f.at = "persist" /\ noticed' = now
                    /\ d # 0 => f.at = "end" /\ noticed' = noticed
      <3>1. Notify(op, d, now) /\ UNCHANGED <<manner, lastEnd>>
        BY <1>1, <1>3, <2>1
      <3>. QED BY <1>1, <3>1, NotifyIs
    <2>2. Top.op \in Operations
      BY <1>2 DEF Operations
    <2>. QED BY <2>1, <2>2
  <1>5. /\ t.at = "write" /\ t.op \in {"update", "reset"} /\ f.at \in {"persist", "end"}
        /\ t.data \in Snapshot \X (1..Len(Keys) + 1) /\ t.data[2] > Len(Keys)
        /\ t = frames[Len(frames)]
    BY <1>2, <1>4 DEF GoesOn
  <1>6. atomic' \in Snapshot
    <2>1. CASE t.op = "update"
      BY <1>1, <1>3, <1>4, <1>5, <2>1 DEF Snapshot
    <2>2. CASE t.op = "reset"
      BY <1>3, <1>4, <2>2, StoreConstants
    <2>. QED BY <1>5, <2>1, <2>2
  <1>7. StackInv' /\ DepthInv' /\ NoticeInv' /\ FollowInv' /\ SilenceInv'
    <2>1. Batching(t) <=> t.op = "update"
      BY <1>5 DEF Batching
    <2>2. batchDepth' = batchDepth - (IF Batching(t) THEN 1 ELSE 0)
      BY <1>1, <1>3, <1>4, <2>1
    <2>. QED BY <1>1, <1>3, <1>4, <1>5, <1>6, <2>2, ToldStep
  <1>8. /\ Len(frames) \in Nat /\ Len(frames) > 0 /\ Len(frames') = Len(frames)
        /\ frames'[Len(frames)] = f /\ Len(frames) \in 1..Len(frames)
        /\ \A i \in 1..Len(frames) - 1 :
              /\ frames'[i] = frames[i] /\ i \in 1..Len(frames) /\ frames[i] \in FrameSet
              /\ frames[i].in \in manner \cup {"body"}
        /\ \A i \in 1..Len(frames) : i \in 1..Len(frames) - 1 \/ i = Len(frames)
    BY <1>1, <1>4, GoesOnIs
  <1>9. ASSUME Plain, NEW k \in Declared PROVE signals'[k] = atomic'[k]
    <2>1. CASE t.op = "update"
      BY <1>1, <1>3, <1>4, <1>5, <1>9, <2>1, WrittenCopies
    <2>2. CASE t.op = "reset"
      <3>1. t.data[1] = Initial
        BY <1>1, <1>5, <1>8, <1>9, <2>2 DEF CopyInv
      <3>2. PICK n \in 1..Len(Keys) : Keys[n] = k
        BY StoreConstants
      <3>3. n \in 1..t.data[2] - 1
        <4>1. Len(Keys) \in Nat
          BY StoreConstants
        <4>2. t.data[2] \in 1..Len(Keys) + 1
          BY <1>5
        <4>. QED BY <1>5, <4>1, <4>2
      <3>4. signals[k] = t.data[1][k]
        BY <1>1, <1>5, <1>8, <1>9, <3>2, <3>3 DEF CopyInv, Written
      <3>. QED BY <1>3, <1>4, <2>2, <3>1, <3>4
    <2>. QED BY <1>5, <2>1, <2>2
  <1>10. CopyInv'
    <2>1. \A k \in Declared : signals'[k] # Absent
      BY <1>1, <1>3 DEF CopyInv
    <2>2. \A i \in 1..Len(frames'), k \in Declared :
             /\ frames'[i].at = "draft" => frames'[i].data[k] # Absent
             /\ frames'[i].at = "write" => frames'[i].data[1][k] # Absent
             /\ frames'[i].at = "write" /\ frames'[i].op = "reset" => frames'[i].data[1] = Initial
      BY <1>1, <1>5, <1>8 DEF CopyInv
    <2>3. "actions" \notin manner => runs' = << >> /\ \A i \in 1..Len(frames') : frames'[i].at # "return"
      BY <1>1, <1>5, <1>8 DEF CopyInv
    <2>4. ASSUME Plain PROVE \A i \in 1..Len(frames') : frames'[i].at \notin {"atomic", "write"}
      BY <1>1, <1>5, <1>8, <2>4, WaitingIs DEF Plain
    <2>. QED BY <1>1, <1>9, <2>1, <2>2, <2>3, <2>4 DEF CopyInv, Plain
  <1>. QED BY <1>7, <1>10 DEF StoreInv

\* The key whose turn it is is written, or passed over.
LEMMA TurnStep ==
    ASSUME StoreInv, WriteNext, ~(Top.data[2] > Len(Keys)) PROVE StoreInv'
  <1>1. /\ frames # << >> /\ StackInv /\ CopyInv /\ batchDepth \in Nat /\ frames \in Seq(FrameSet)
        /\ atomic \in Snapshot /\ signals \in Snapshot
        /\ UNCHANGED <<manner, saved, selected, lastEnd, newest, runs, pendingAction, spokeLate,
                       batchDepth, noticed>>
    BY DEF WriteNext, At, StoreInv, StackInv, actionVars
  <1>2. PICK t \in FrameSet : t = Top /\ t = frames[Len(frames)]
    BY <1>1, TopIs
  <1>3. /\ t.at = "write" /\ t.op \in {"update", "reset"}
        /\ t.data[1] \in Snapshot /\ t.data[2] \in 1..Len(Keys)
        /\ t.data[2] \in Nat /\ Len(Keys) \in Nat
    <2>1. t.at = "write" /\ ~(t.data[2] > Len(Keys))
      BY <1>2 DEF WriteNext, At
    <2>2. t.op \in {"update", "reset"} /\ t.data \in Snapshot \X (1..Len(Keys) + 1)
      BY <2>1, FrameTells
    <2>3. Len(Keys) \in Nat
      BY StoreConstants
    <2>. QED BY <2>1, <2>2, <2>3
  <1>4. PICK k \in Key : k = Keys[t.data[2]]
    BY <1>3, StoreConstants
  <1>5. PICK writes \in BOOLEAN :
            writes <=> signals[k] # Absent /\ t.data[1][k] # Absent
                       /\ signals[k] # t.data[1][k]
    OBVIOUS
  <1>6. PICK e \in {"nothing", "effects", "later"} :
            /\ writes => e # "nothing"
            /\ Become(Frame(t.op, "write", <<t.data[1], t.data[2] + 1>>, e))
            /\ signals' = IF writes THEN [signals EXCEPT ![k] = t.data[1][k]] ELSE signals
    <2>1. (Absent \notin {signals[k], t.data[1][k]} /\ signals[k] # t.data[1][k]) = writes
      BY <1>5
    <2>2. PICK effects \in {"nothing", "effects"} : effects = Effects(writes, Front(frames))
      BY EffectsAre
    <2>3. /\ Become(Frame(t.op, "write", <<t.data[1], t.data[2] + 1>>,
                             IF writes /\ effects = "nothing" THEN "later" ELSE effects))
          /\ signals' = IF writes THEN [signals EXCEPT ![k] = t.data[1][k]] ELSE signals
      BY <1>2, <1>4, <2>1, <2>2 DEF WriteNext
    <2>. QED BY <2>2, <2>3
  <1>7. /\ t.op = "update" =>
              atomic' = IF t.in # "nothing"
                        THEN [atomic EXCEPT ![Keys[t.data[2] - 1]] = t.data[1][Keys[t.data[2] - 1]]]
                        ELSE atomic
        /\ t.op # "update" => atomic' = atomic
    BY <1>2 DEF WriteNext
  <1>8. PICK f \in FrameSet :
            /\ Become(f) /\ f.op = t.op /\ f.at = "write"
            /\ f.data = <<t.data[1], t.data[2] + 1>> /\ f.in = e
    <2>1. t.data[2] + 1 \in 2..Len(Keys) + 1
      BY <1>3
    <2>2. Frame(t.op, "write", <<t.data[1], t.data[2] + 1>>, e) \in FrameSet
      BY <1>3, <2>1, FrameKinds
    <2>3. \A op, at, data, in :
              /\ Frame(op, at, data, in).op = op /\ Frame(op, at, data, in).at = at
              /\ Frame(op, at, data, in).data = data /\ Frame(op, at, data, in).in = in
      BY FrameOf
    <2>. QED BY <1>6, <2>2, <2>3
  <1>9. GoesOn(f, t)
    BY <1>1, <1>2, <1>8, BecomesIs
  <1>10. atomic' \in Snapshot /\ signals' \in Snapshot
    <2>1. signals' \in Snapshot
      BY <1>1, <1>3, <1>6 DEF Snapshot
    <2>2. CASE t.op = "update"
      BY <1>1, <1>3, <1>7, <2>1, <2>2 DEF Snapshot
    <2>. QED BY <1>1, <1>7, <2>1, <2>2
  <1>11. StackInv' /\ DepthInv' /\ SilenceInv'
    <2>1. (Batching(f) <=> Batching(t)) /\ f.op # "action" /\ f.at # "return" /\ f.at # "draft"
          /\ t.at # "draft"
      BY <1>3, <1>8 DEF Batching
    <2>2. /\ {signals', atomic', saved', noticed'} \subseteq Snapshot
          /\ selected' \in Snapshot \X Snapshot
      BY <1>1, <1>10 DEF StackInv
    <2>3. batchDepth' = batchDepth + (IF Batching(f) THEN 1 ELSE 0) - (IF Batching(t) THEN 1 ELSE 0)
      BY <1>1, <2>1
    <2>. QED BY <1>1, <1>9, <2>1, <2>2, <2>3, GoesOnWell
  <1>12. NoticeInv' /\ FollowInv'
    <2>1. Unfinished(f)
      BY <1>8 DEF Unfinished
    <2>. QED BY <1>1, <1>9, <2>1, StillUnfinished
  <1>13. /\ Len(frames) \in Nat /\ Len(frames) > 0 /\ Len(frames') = Len(frames)
         /\ frames'[Len(frames)] = f /\ Len(frames) \in 1..Len(frames)
         /\ \A i \in 1..Len(frames) - 1 :
               /\ frames'[i] = frames[i] /\ i \in 1..Len(frames) /\ frames[i] \in FrameSet
               /\ frames[i].in \in manner \cup {"body"}
         /\ \A i \in 1..Len(frames) : i \in 1..Len(frames) - 1 \/ i = Len(frames)
    BY <1>1, <1>9, GoesOnIs
  <1>14. /\ \A j \in Key : j # k => signals'[j] = signals[j]
         /\ writes => signals'[k] = t.data[1][k]
         /\ ~writes => signals'[k] = signals[k]
         /\ \A j \in Declared : /\ j \in Key /\ signals[j] # Absent
                                /\ t.data[1][j] # Absent
    <2>1. \A j \in Declared : signals[j] # Absent /\ t.data[1][j] # Absent
      BY <1>1, <1>2, <1>3, <1>13 DEF CopyInv
    <2>2. \A j \in Declared : j \in Key
      BY StoreConstants
    <2>. QED BY <1>1, <1>6, <2>1, <2>2 DEF Snapshot
  <1>15. CopyInv'
    <2>1. \A j \in Declared : signals'[j] # Absent
      BY <1>14
    <2>2. \A i \in 1..Len(frames'), j \in Declared :
             /\ frames'[i].at = "draft" => frames'[i].data[j] # Absent
             /\ frames'[i].at = "write" => frames'[i].data[1][j] # Absent
             /\ frames'[i].at = "write" /\ frames'[i].op = "reset" => frames'[i].data[1] = Initial
      <3>1. f.data[1] = t.data[1]
        BY <1>8
      <3>2. ASSUME NEW i \in 1..Len(frames'), NEW j \in Declared
            PROVE  /\ frames'[i].at = "draft" => frames'[i].data[j] # Absent
                   /\ frames'[i].at = "write" => frames'[i].data[1][j] # Absent
                   /\ frames'[i].at = "write" /\ frames'[i].op = "reset" =>
                          frames'[i].data[1] = Initial
        <4>1. CASE i \in 1..Len(frames) - 1
          BY <1>1, <1>13, <4>1 DEF CopyInv
        <4>2. CASE i = Len(frames)
          BY <1>1, <1>2, <1>3, <1>8, <1>13, <1>14, <3>1, <4>2 DEF CopyInv
        <4>. QED BY <1>13, <4>1, <4>2
      <3>. QED BY <3>2
    <2>3. "actions" \notin manner => runs' = << >> /\ \A i \in 1..Len(frames') : frames'[i].at # "return"
      BY <1>1, <1>8, <1>13 DEF CopyInv
    <2>4. ASSUME Plain PROVE \A i \in 1..Len(frames) - 1 : frames'[i].at \notin {"atomic", "write"}
      BY <1>1, <1>13, <2>4, WaitingIs DEF Plain
    <2>5. ASSUME Plain, NEW n \in 1..t.data[2], Keys[n] \in Declared
          PROVE  signals'[Keys[n]] = t.data[1][Keys[n]]
      <3>1. CASE n = t.data[2]
        BY <1>4, <1>5, <1>14, <2>5, <3>1
      <3>2. CASE n # t.data[2]
        <4>1. n \in 1..t.data[2] - 1
          BY <1>3, <3>2
        <4>2. signals[Keys[n]] = t.data[1][Keys[n]]
          BY <1>1, <1>2, <1>3, <1>13, <2>5, <4>1 DEF CopyInv, Written
        <4>. QED BY <1>14, <2>5, <4>2
      <3>. QED BY <3>1, <3>2
    <2>6. ASSUME Plain, NEW i \in 1..Len(frames')
          PROVE  /\ frames'[i].at # "atomic"
                 /\ frames'[i].at = "write" =>
                       \A n \in 1..frames'[i].data[2] - 1 :
                           Keys[n] \in Declared => signals'[Keys[n]] = frames'[i].data[1][Keys[n]]
      <3>1. f.data[1] = t.data[1] /\ f.data[2] - 1 = t.data[2]
        BY <1>3, <1>8
      <3>2. CASE i = Len(frames)
        BY <1>8, <1>13, <2>5, <2>6, <3>1, <3>2
      <3>3. CASE i \in 1..Len(frames) - 1
        BY <2>4, <2>6, <3>3
      <3>. QED BY <1>13, <3>2, <3>3
    <2>7. ASSUME Plain, NEW j \in Declared, signals'[j] # atomic'[j]
          PROVE  \E i \in 1..Len(frames') :
                    \/ frames'[i].at = "write" /\ frames'[i].op = "reset"
                    \/ /\ frames'[i].at = "write" /\ frames'[i].op = "update"
                       /\ frames'[i].in # "nothing"
                       /\ Keys[frames'[i].data[2] - 1] = j
      <3>1. CASE t.op = "reset"
        BY <1>8, <1>13, <3>1
      <3>2. CASE t.op = "update"
        <4>1. signals[j] = atomic'[j]
          BY <1>1, <1>2, <1>3, <1>7, <2>7, <3>2, WrittenCopies
        <4>2. j = k /\ writes
          BY <1>14, <2>7, <4>1
        <4>3. f.data[2] - 1 = t.data[2] /\ f.in # "nothing"
          BY <1>3, <1>6, <1>8, <4>2
        <4>. QED BY <1>4, <1>8, <1>13, <3>2, <4>2, <4>3
      <3>. QED BY <1>3, <3>1, <3>2
    <2>8. Plain' <=> Plain
      BY <1>1 DEF Plain
    <2>. QED BY <1>1, <2>1, <2>2, <2>3, <2>6, <2>7, <2>8 DEF CopyInv, Written
  <1>. QED BY <1>11, <1>12, <1>15 DEF StoreInv


\* An action, or what follows its first await, writes a signal by itself.
LEMMA DirectStep ==
    ASSUME StoreInv, NEW k \in Key, NEW v \in Value, DirectWrite(k, v) PROVE StoreInv'
  <1>1. /\ StackInv /\ CopyInv /\ frames \in Seq(FrameSet) /\ Len(frames) \in Nat
        /\ signals \in Snapshot /\ calls \in 0..MaxCalls /\ calls < MaxCalls
        /\ k \in Declared /\ signals' = [signals EXCEPT ![k] = v]
        /\ UNCHANGED <<manner, atomic, batchDepth, lastEnd, noticed, saved, selected, newest, runs,
                       pendingAction, spokeLate>>
    BY DEF DirectWrite, actionVars, followers, StoreInv, StackInv
  <1>2. PICK f \in FrameSet :
            frames' = Append(frames, f) /\ calls' = calls + 1 /\ f.op = "write" /\ f.at = "end"
    <2>1. PICK e \in {"nothing", "effects"} : Push(Frame("write", "end", 0, e))
      BY EffectsAre DEF DirectWrite
    <2>2. Frame("write", "end", 0, e) \in FrameSet
      BY FrameKinds
    <2>. QED BY <2>1, <2>2, FrameOf DEF Push
  <1>3. Pushed(f)
    BY <1>1, <1>2, PushIs
  <1>4. /\ Len(frames') = Len(frames) + 1 /\ frames'[Len(frames) + 1] = f
        /\ frames' \in Seq(FrameSet) /\ frames' # << >>
        /\ \A i \in 1..Len(frames) : frames'[i] = frames[i] /\ i \in 1..Len(frames')
        /\ \A i \in 1..Len(frames') : i \in 1..Len(frames) \/ i = Len(frames) + 1
    BY <1>1, <1>3 DEF Pushed
  <1>5. \/ frames = << >> /\ runs # << >>
        \/ frames # << >> /\ Len(frames) > 0 /\ frames[Len(frames)].at = "return"
           /\ Len(frames) \in 1..Len(frames)
    <2>1. CASE frames = << >>
      BY <2>1 DEF DirectWrite
    <2>2. CASE frames # << >>
      BY <1>1, <2>2, TopIs DEF DirectWrite, At
    <2>. QED BY <2>1, <2>2
  <1>6. \A i \in 1..Len(frames) : frames[i].in \in manner \cup {"body"} /\ frames[i] \in FrameSet
    <2>1. \A i \in 1..Len(frames) : frames[i] \in FrameSet
      BY <1>1
    <2>2. ASSUME frames # << >> PROVE frames[Len(frames)].in = "body"
      BY <1>5, <2>1, <2>2, FrameTells
    <2>. QED BY <1>1, <1>5, <2>1, <2>2 DEF StackInv
  <1>7. StackInv'
    <2>1. signals' \in Snapshot
      BY <1>1 DEF Snapshot
    <2>2. calls' \in 0..MaxCalls /\ newest' \in 0..calls'
      BY <1>1, <1>2, StoreConstants DEF StackInv
    <2>3. \A i \in 1..Len(frames') - 1 : frames'[i].in \in manner' \cup {"body"}
      BY <1>1, <1>4, <1>6
    <2>. QED BY <1>1, <1>4, <2>1, <2>2, <2>3 DEF StackInv
  <1>8. DepthInv'
    <2>1. ~Batching(f)
      BY <1>2 DEF Batching
    <2>2. /\ Cardinality(Batched') = Cardinality(Batched) /\ Cardinality(Drafts') = Cardinality(Drafts)
          /\ Cardinality(Batched) \in Nat /\ Cardinality(Drafts) \in Nat
      BY <1>1, <1>2, <1>3, <2>1, PushCounts, StackCounts
    <2>. QED BY <1>1, <1>2, <2>2, StoreConstants DEF StoreInv, StackInv, DepthInv, Calm
  <1>9. runs' = << >> =>
            Len(frames) \in 1..Len(frames') /\ Unfinished(frames'[Len(frames)])
    BY <1>1, <1>4, <1>5 DEF Unfinished
  <1>10. NoticeInv'
    BY <1>9 DEF NoticeInv, Unfinished
  <1>11. FollowInv'
    <2>. SUFFICES ASSUME "effects" \notin manner PROVE FollowInv'
      BY <1>1 DEF FollowInv
    <2>1. \A i \in 1..Len(frames') : frames'[i].at # "second"
      BY <1>1, <1>2, <1>4, <1>6, WaitingIs
    <2>2. CASE frames = << >>
      <3>1. frames'[1].op = "write"
        BY <1>2, <1>4, <2>2
      <3>. QED BY <1>4, <2>1, <3>1 DEF FollowInv
    <2>3. CASE frames # << >>
      <3>1. Len(frames) \in 1..Len(frames') /\ Unfinished(frames'[Len(frames)])
        BY <1>1, <1>4, <1>5, <2>3 DEF Unfinished
      <3>. QED BY <2>1, <3>1 DEF FollowInv, Unfinished
    <2>. QED BY <2>2, <2>3
  <1>12. CopyInv'
    <2>1. "actions" \in manner
      BY <1>1, <1>5 DEF CopyInv
    <2>2. \A j \in Declared : signals'[j] # Absent
      <3>1. \A j \in Declared : j \in Key /\ signals[j] # Absent /\ v # Absent
        BY <1>1, StoreConstants DEF CopyInv
      <3>. QED BY <1>1, <3>1 DEF Snapshot
    <2>3. \A i \in 1..Len(frames'), j \in Declared :
             /\ frames'[i].at = "draft" => frames'[i].data[j] # Absent
             /\ frames'[i].at = "write" => frames'[i].data[1][j] # Absent
             /\ frames'[i].at = "write" /\ frames'[i].op = "reset" => frames'[i].data[1] = Initial
      BY <1>1, <1>2, <1>4 DEF CopyInv
    <2>. QED BY <1>1, <2>1, <2>2, <2>3 DEF CopyInv, Plain
  <1>13. SilenceInv'
    <2>1. Aside
      BY <1>1, <1>2, <1>4 DEF Aside
    <2>. QED BY <2>1, SilenceStays DEF StoreInv
  <1>. QED BY <1>7, <1>8, <1>10, <1>11, <1>12, <1>13 DEF StoreInv

\* An action is called, and the run of an earlier call cancelled.
LEMMA CalledStep == ASSUME StoreInv, ActionCalled PROVE StoreInv'
  <1>1. /\ StackInv /\ CopyInv /\ frames \in Seq(FrameSet) /\ Len(frames) \in Nat /\ MayCall
        /\ newest' = newest + 1 /\ "actions" \in manner
        /\ runs' = IF pendingAction = 0 THEN runs
                   ELSE [runs EXCEPT ![pendingAction].cancelled = TRUE]
        /\ UNCHANGED <<manner, signals, atomic, batchDepth, pendingAction, spokeLate, lastEnd,
                       noticed, saved, selected>>
        /\ "recursion" \notin manner => \A i \in 1..Len(frames) : frames[i].op # "action"
    BY DEF ActionCalled, followers, StoreInv, StackInv
  <1>2. /\ calls < MaxCalls /\ calls + 1 \in 1..MaxCalls /\ calls \in Nat /\ newest \in 0..calls
        /\ \A i \in 1..Len(frames) : frames[i].in \in manner \cup {"body"} /\ frames[i] \in FrameSet
    BY <1>1, CallersWait, StoreConstants DEF StackInv
  <1>3. PICK f \in FrameSet :
            /\ frames' = Append(frames, f) /\ calls' = calls + 1
            /\ f.op = "action" /\ f.at = "return" /\ f.data = newest'
    <2>1. newest' \in 1..MaxCalls
      <3>1. MaxCalls \in Nat
        BY StoreConstants
      <3>2. newest' = newest + 1
        BY <1>1
      <3>. QED BY <1>2, <3>1, <3>2
    <2>2. ASSUME NEW n \in 1..MaxCalls, n = newest'
          PROVE  \E f \in FrameSet :
                    /\ frames' = Append(frames, f) /\ calls' = calls + 1
                    /\ f.op = "action" /\ f.at = "return" /\ f.data = n
      <3>1. Push(Frame("action", "return", n, "body"))
        BY <2>2 DEF ActionCalled
      <3>2. Frame("action", "return", n, "body") \in FrameSet
        BY FrameKinds
      <3>. QED BY <3>1, <3>2, FrameOf DEF Push
    <2>. QED BY <2>1, <2>2
  <1>4. Pushed(f)
    BY <1>1, <1>3, PushIs
  <1>5. /\ Len(frames') = Len(frames) + 1 /\ frames'[Len(frames) + 1] = f
        /\ frames' \in Seq(FrameSet) /\ frames' # << >>
        /\ \A i \in 1..Len(frames) : frames'[i] = frames[i] /\ i \in 1..Len(frames')
        /\ \A i \in 1..Len(frames') : i \in 1..Len(frames) \/ i = Len(frames) + 1
        /\ Len(frames) + 1 \in 1..Len(frames')
    BY <1>1, <1>4 DEF Pushed
  <1>6. /\ runs' \in Seq(Run) /\ Len(runs') = Len(runs) /\ runs \in Seq(Run)
        /\ pendingAction \in 0..Len(runs) /\ Len(runs) \in Nat
        /\ \A r \in 1..Len(runs) : /\ r # pendingAction => runs'[r] = runs[r]
                                   /\ r = pendingAction => runs'[r].cancelled
    <2>1. runs \in Seq(Run) /\ pendingAction \in 0..Len(runs) /\ Len(runs) \in Nat
      BY <1>1 DEF StackInv
    <2>2. CASE pendingAction = 0
      BY <1>1, <2>1, <2>2
    <2>3. CASE pendingAction # 0
      <3>1. pendingAction \in 1..Len(runs) /\ runs[pendingAction] \in Run
        BY <2>1, <2>3
      <3>2. [runs[pendingAction] EXCEPT !.cancelled = TRUE] \in Run
        BY <3>1 DEF Run
      <3>3. runs' = [runs EXCEPT ![pendingAction] = [runs[pendingAction] EXCEPT !.cancelled = TRUE]]
        BY <1>1, <2>3
      <3>4. runs[pendingAction].cancelled \in BOOLEAN /\ [runs[pendingAction] EXCEPT !.cancelled = TRUE].cancelled
        BY <3>1 DEF Run
      <3>. QED BY <2>1, <2>3, <3>1, <3>2, <3>3, <3>4
    <2>. QED BY <2>2, <2>3
  <1>7. StackInv'
    <2>1. calls' \in 0..MaxCalls /\ newest' \in 0..calls'
      BY <1>1, <1>2, <1>3
    <2>2. \A i \in 1..Len(frames') - 1 : frames'[i].in \in manner' \cup {"body"}
      BY <1>1, <1>2, <1>5
    <2>. QED BY <1>1, <1>5, <1>6, <2>1, <2>2 DEF StackInv
  <1>8. DepthInv'
    <2>1. ~Batching(f)
      BY <1>3 DEF Batching
    <2>2. /\ Cardinality(Batched') = Cardinality(Batched) /\ Cardinality(Drafts') = Cardinality(Drafts)
          /\ Cardinality(Batched) \in Nat /\ Cardinality(Drafts) \in Nat
      BY <1>1, <1>3, <1>4, <2>1, PushCounts, StackCounts
    <2>. QED BY <1>1, <1>2, <1>3, <2>2 DEF StoreInv, StackInv, DepthInv, Calm
  <1>9. Unfinished(frames'[Len(frames) + 1])
    BY <1>3, <1>5 DEF Unfinished
  <1>10. NoticeInv'
    BY <1>5, <1>9 DEF NoticeInv, Unfinished
  <1>11. FollowInv'
    <2>1. "effects" \notin manner => \A i \in 1..Len(frames') : frames'[i].at # "second"
      BY <1>1, <1>2, <1>3, <1>5, WaitingIs
    <2>. QED BY <1>1, <1>5, <1>9, <2>1 DEF FollowInv, Unfinished
  <1>12. CopyInv'
    <2>1. \A i \in 1..Len(frames'), j \in Declared :
             /\ frames'[i].at = "draft" => frames'[i].data[j] # Absent
             /\ frames'[i].at = "write" => frames'[i].data[1][j] # Absent
             /\ frames'[i].at = "write" /\ frames'[i].op = "reset" => frames'[i].data[1] = Initial
      BY <1>1, <1>3, <1>5 DEF CopyInv
    <2>. QED BY <1>1, <2>1 DEF CopyInv, Plain
  <1>13. SilenceInv'
    <2>. SUFFICES ASSUME Orderly' PROVE SilenceInv'
      BY DEF SilenceInv
    <2>1. Orderly /\ \A i \in 1..Len(frames) : frames[i].op # "action"
      BY <1>1 DEF Orderly
    <2>2. \A i \in 1..Len(frames) : frames[i].at # "return"
      BY <1>2, <2>1, FrameTells
    <2>3. ~spokeLate'
      BY <1>1, <2>1 DEF StoreInv, SilenceInv
    <2>4. ASSUME NEW r \in 1..Len(runs') PROVE runs'[r].over \/ runs'[r].cancelled
      <3>1. CASE r = pendingAction
        BY <1>6, <2>4, <3>1
      <3>2. CASE r # pendingAction
        BY <1>6, <2>1, <2>4, <3>2 DEF StoreInv, SilenceInv
      <3>. QED BY <3>1, <3>2
    <2>5. \A i \in 1..Len(frames') :
             frames'[i].op = "action" \/ frames'[i].at = "return" =>
                 i = Len(frames) + 1 /\ frames'[i].data = newest'
      BY <1>3, <1>5, <2>1, <2>2
    <2>. QED BY <2>3, <2>4, <2>5 DEF SilenceInv
  <1>. QED BY <1>7, <1>8, <1>10, <1>11, <1>12, <1>13 DEF StoreInv


\* An action returns, with a promise or without.
LEMMA ReturnsStep == ASSUME StoreInv, ActionReturns PROVE StoreInv'
  <1>1. /\ frames # << >> /\ StackInv /\ CopyInv /\ frames \in Seq(FrameSet) /\ batchDepth \in Nat
        /\ runs \in Seq(Run) /\ Len(runs) \in Nat /\ signals \in Snapshot
        /\ UNCHANGED <<manner, signals, atomic, saved, selected, batchDepth, newest, spokeLate,
                       lastEnd>>
    BY DEF ActionReturns, At, StoreInv, StackInv
  <1>2. PICK t \in FrameSet : t = Top /\ t = frames[Len(frames)] /\ t.at = "return"
    BY <1>1, TopIs DEF ActionReturns, At
  <1>3. t.op = "action" /\ t.data \in 1..MaxCalls
    BY <1>2, FrameTells
  <1>4. PICK f \in FrameSet :
            /\ Become(f) /\ f.op = "action" /\ f.at = "end"
            /\ \/ noticed' = signals /\ UNCHANGED <<runs, pendingAction>>
               \/ /\ runs' = Append(runs, [call |-> t.data, cancelled |-> FALSE, over |-> FALSE])
                  /\ pendingAction' = Len(runs') /\ noticed' = noticed
    <2>1. PICK e \in {"nothing", "subscribers"} :
              /\ Become(Frame("action", "end", 0, e))
              /\ \/ noticed' = signals /\ UNCHANGED <<runs, pendingAction>>
                 \/ /\ runs' = Append(runs, [call |-> t.data, cancelled |-> FALSE, over |-> FALSE])
                    /\ pendingAction' = Len(runs') /\ noticed' = noticed
      BY <1>2 DEF ActionReturns
    <2>2. Frame("action", "end", 0, e) \in FrameSet
      BY FrameKinds
    <2>. QED BY <2>1, <2>2, FrameOf
  <1>5. GoesOn(f, t)
    BY <1>1, <1>2, <1>4, BecomesIs
  <1>6. /\ Len(frames) \in Nat /\ Len(frames) > 0 /\ Len(frames') = Len(frames)
        /\ frames' \in Seq(FrameSet) /\ frames' # << >>
        /\ frames'[Len(frames)] = f /\ Len(frames) \in 1..Len(frames)
        /\ \A i \in 1..Len(frames) - 1 :
              /\ frames'[i] = frames[i] /\ i \in 1..Len(frames) /\ frames[i] \in FrameSet
              /\ frames[i].in \in manner \cup {"body"}
        /\ \A i \in 1..Len(frames) : i \in 1..Len(frames) - 1 \/ i = Len(frames)
        /\ calls' = calls
    BY <1>1, <1>5, GoesOnIs DEF GoesOn
  <1>7. StackInv'
    <2>1. runs' \in Seq(Run) /\ pendingAction' \in 0..Len(runs') /\ noticed' \in Snapshot
      <3>1. CASE noticed' = signals /\ UNCHANGED <<runs, pendingAction>>
        BY <1>1, <3>1 DEF StackInv
      <3>2. CASE /\ runs' = Append(runs, [call |-> t.data, cancelled |-> FALSE, over |-> FALSE])
                 /\ pendingAction' = Len(runs') /\ noticed' = noticed
        <4>1. [call |-> t.data, cancelled |-> FALSE, over |-> FALSE] \in Run
          BY <1>3 DEF Run
        <4>2. noticed' \in Snapshot
          BY <1>1, <3>2 DEF StackInv
        <4>3. runs' \in Seq(Run) /\ Len(runs') = Len(runs) + 1
          BY <1>1, <3>2, <4>1
        <4>. QED BY <1>1, <3>2, <4>2, <4>3
      <3>. QED BY <1>4, <3>1, <3>2
    <2>2. \A i \in 1..Len(frames') - 1 : frames'[i].in \in manner' \cup {"body"}
      BY <1>1, <1>6
    <2>. QED BY <1>1, <1>6, <2>1, <2>2 DEF StackInv
  <1>8. DepthInv'
    <2>1. ~Batching(f) /\ ~Batching(t) /\ f.at # "draft" /\ t.at # "draft"
      BY <1>2, <1>3, <1>4 DEF Batching
    <2>2. Became(f)
      BY <1>5 DEF GoesOn
    <2>3. /\ Cardinality(Batched') = Cardinality(Batched) /\ Cardinality(Drafts') = Cardinality(Drafts)
          /\ Cardinality(Batched) \in Nat /\ Cardinality(Drafts) \in Nat
      <3>1. Cardinality(Batched) \in Nat /\ Cardinality(Drafts) \in Nat
        BY <1>1, StackCounts
      <3>2. /\ Cardinality(Batched') = Cardinality(Batched) - 0 + 0
            /\ Cardinality(Drafts') = Cardinality(Drafts) - 0 + 0
        BY <1>1, <1>2, <2>1, <2>2, BecomeCounts
      <3>. QED BY <3>1, <3>2
    <2>. QED BY <1>1, <1>6, <2>3 DEF StoreInv, DepthInv, Calm
  <1>9. NoticeInv'
    <2>1. runs' = << >> => noticed' = signals'
      BY <1>1, <1>4
    <2>. QED BY <2>1 DEF NoticeInv
  <1>10. FollowInv'
    <2>. SUFFICES ASSUME "effects" \notin manner PROVE FollowInv'
      BY <1>1 DEF FollowInv
    <2>1. \A i \in 1..Len(frames') : frames'[i].at # "second"
      BY <1>1, <1>4, <1>6, WaitingIs
    <2>2. CASE Len(frames) = 1
      BY <1>4, <1>6, <2>1, <2>2 DEF FollowInv
    <2>3. CASE Len(frames) # 1
      <3>1. 1 \in 1..Len(frames) - 1 /\ 1 \in 1..Len(frames')
        BY <1>6, <2>3
      <3>2. /\ frames'[1] = frames[1] /\ frames[1] \in FrameSet
            /\ frames[1].in \in manner \cup {"body"}
        BY <1>6, <3>1
      <3>3. \/ Unfinished(frames[1]) \/ frames[1].at = "persist"
            \/ frames[1].op \in {"action", "run"}
        <4>1. /\ frames[1].at \notin {"atomic", "second", "write"}
              /\ frames[1].at = "end" => frames[1].op \in {"action", "run"}
          BY <1>1, <3>2, WaitingIs
        <4>2. frames[1].at \in {"atomic", "persist", "second", "end", "close", "draft", "write", "return"}
          BY <3>2, FrameTells
        <4>. QED BY <4>1, <4>2 DEF Unfinished
      <3>. QED BY <1>6, <2>1, <3>1, <3>2, <3>3 DEF FollowInv, Unfinished
    <2>. QED BY <2>2, <2>3
  <1>11. CopyInv'
    <2>1. "actions" \in manner
      BY <1>1, <1>2, <1>6 DEF CopyInv
    <2>2. \A i \in 1..Len(frames'), j \in Declared :
             /\ frames'[i].at = "draft" => frames'[i].data[j] # Absent
             /\ frames'[i].at = "write" => frames'[i].data[1][j] # Absent
             /\ frames'[i].at = "write" /\ frames'[i].op = "reset" => frames'[i].data[1] = Initial
      BY <1>1, <1>4, <1>6 DEF CopyInv
    <2>. QED BY <1>1, <2>1, <2>2 DEF CopyInv, Plain
  <1>12. SilenceInv'
    <2>. SUFFICES ASSUME Orderly' PROVE SilenceInv'
      BY DEF SilenceInv
    <2>1. Orderly /\ ~spokeLate /\ spokeLate' = spokeLate /\ newest' = newest
      BY <1>1 DEF Orderly, StoreInv, SilenceInv
    <2>2. \A r \in 1..Len(runs) : runs[r].over \/ runs[r].cancelled
      BY <1>2, <1>6, <2>1 DEF StoreInv, SilenceInv
    <2>3. t.data = newest
      BY <1>2, <1>6, <2>1 DEF StoreInv, SilenceInv
    <2>4. \A i \in 1..Len(frames) - 1 : frames[i].op # "action"
      BY <1>2, <1>3, <1>6, <2>1 DEF StoreInv, SilenceInv
    <2>5. \A i \in 1..Len(frames') : /\ frames'[i].op = "action" => i = Len(frames)
                                     /\ frames'[i].at # "return"
      <3>1. \A i \in 1..Len(frames) - 1 : frames[i].at # "return"
        BY <1>6, <2>4, FrameTells
      <3>. QED BY <1>4, <1>6, <2>4, <3>1
    <2>6. ASSUME NEW r \in 1..Len(runs'), ~runs'[r].over, ~runs'[r].cancelled
          PROVE  r = pendingAction' /\ runs'[r].call = newest'
      <3>1. CASE noticed' = signals /\ UNCHANGED <<runs, pendingAction>>
        BY <2>2, <2>6, <3>1
      <3>2. CASE /\ runs' = Append(runs, [call |-> t.data, cancelled |-> FALSE, over |-> FALSE])
                 /\ pendingAction' = Len(runs') /\ noticed' = noticed
        <4>1. CASE r \in 1..Len(runs)
          BY <1>1, <2>2, <2>6, <3>2, <4>1
        <4>2. CASE r = Len(runs) + 1
          BY <1>1, <2>1, <2>3, <3>2, <4>2
        <4>. QED BY <1>1, <2>6, <3>2, <4>1, <4>2
      <3>. QED BY <1>4, <3>1, <3>2
    <2>. QED BY <2>1, <2>5, <2>6 DEF SilenceInv
  <1>. QED BY <1>7, <1>8, <1>9, <1>10, <1>11, <1>12 DEF StoreInv

\* The promise of an action settles.
LEMMA EndsStep == ASSUME StoreInv, NEW r \in DOMAIN runs, RunEnds(r) PROVE StoreInv'
  <1>1. /\ frames = << >> /\ StackInv /\ CopyInv /\ frames \in Seq(FrameSet) /\ Len(frames) = 0
        /\ runs \in Seq(Run) /\ Len(runs) \in Nat /\ r \in 1..Len(runs) /\ ~runs[r].over
        /\ runs' = [runs EXCEPT ![r].over = TRUE] /\ pendingAction \in 0..Len(runs)
        /\ UNCHANGED <<manner, signals, atomic, saved, selected, batchDepth, newest, lastEnd, calls>>
    BY DEF RunEnds, StoreInv, StackInv
  <1>2. /\ runs' \in Seq(Run) /\ Len(runs') = Len(runs) /\ runs' # << >>
        /\ runs'[r].over /\ \A s \in 1..Len(runs) : s # r => runs'[s] = runs[s]
    <2>1. runs[r] \in Run
      BY <1>1
    <2>2. [runs[r] EXCEPT !.over = TRUE] \in Run /\ [runs[r] EXCEPT !.over = TRUE].over
      BY <2>1 DEF Run
    <2>3. runs' = [runs EXCEPT ![r] = [runs[r] EXCEPT !.over = TRUE]]
      BY <1>1
    <2>4. /\ runs' \in Seq(Run) /\ Len(runs') = Len(runs)
          /\ runs'[r] = [runs[r] EXCEPT !.over = TRUE]
          /\ \A s \in 1..Len(runs) : s # r => runs'[s] = runs[s]
      BY <1>1, <2>2, <2>3
    <2>5. runs'[r].over
      BY <2>2, <2>4, Zenon
    <2>6. runs' # << >>
      BY <1>1, <2>4
    <2>. QED BY <2>4, <2>5, <2>6
  <1>3. "actions" \in manner
    BY <1>1 DEF CopyInv
  <1>4. \/ /\ runs[r].cancelled
           /\ UNCHANGED <<pendingAction, noticed, spokeLate, frames>>
        \/ /\ ~runs[r].cancelled /\ pendingAction' = 0 /\ noticed' = signals
           /\ spokeLate' = (spokeLate \/ runs[r].call # newest)
           /\ frames' = <<Frame("run", "end", 0, "subscribers")>>
        \/ /\ "failures" \in manner /\ pendingAction' = 0 /\ UNCHANGED <<noticed, spokeLate, frames>>
    BY DEF RunEnds
  <1>5. /\ frames' \in Seq(FrameSet) /\ Len(frames') \in {0, 1}
        /\ \A i \in 1..Len(frames') : i = 1 /\ frames'[i].op = "run" /\ frames'[i].at = "end"
        /\ pendingAction' \in 0..Len(runs') /\ spokeLate' \in BOOLEAN /\ noticed' \in Snapshot
    <2>1. Frame("run", "end", 0, "subscribers") \in FrameSet
      BY FrameKinds
    <2>2. /\ Frame("run", "end", 0, "subscribers").op = "run"
          /\ Frame("run", "end", 0, "subscribers").at = "end"
      BY FrameOf
    <2>3. /\ frames' \in Seq(FrameSet) /\ Len(frames') \in {0, 1}
          /\ \A i \in 1..Len(frames') : i = 1 /\ frames'[i].op = "run" /\ frames'[i].at = "end"
      <3>1. CASE frames' = frames
        BY <1>1, <3>1
      <3>2. ASSUME NEW f \in FrameSet, f.op = "run", f.at = "end", frames' = <<f>>
            PROVE  /\ frames' \in Seq(FrameSet) /\ Len(frames') \in {0, 1}
                   /\ \A i \in 1..Len(frames') : i = 1 /\ frames'[i].op = "run" /\ frames'[i].at = "end"
        BY <3>2
      <3>. QED BY <1>4, <2>1, <2>2, <3>1, <3>2
    <2>4. pendingAction' \in 0..Len(runs')
      BY <1>1, <1>2, <1>4
    <2>5. spokeLate' \in BOOLEAN /\ noticed' \in Snapshot
      BY <1>1, <1>4 DEF StackInv
    <2>. QED BY <2>3, <2>4, <2>5
  <1>6. \A i \in 1..Len(frames') : i = 1 /\ frames'[i].op = "run" /\ frames'[i].at = "end"
    BY <1>5
  <1>7. StackInv'
    <2>1. frames' \in Seq(FrameSet) /\ Len(frames') - 1 <= 0 /\ Len(frames') \in Nat
      BY <1>5
    <2>. QED BY <1>1, <1>2, <1>5, <2>1 DEF StackInv
  <1>8. DepthInv'
    <2>1. Batched' = {} /\ Drafts' = {} /\ Batched = {} /\ Drafts = {}
      BY <1>1, <1>6 DEF Batched, Drafts, Batching
    <2>. QED BY <1>1, <2>1 DEF StoreInv, DepthInv, Calm
  <1>9. NoticeInv'
    BY <1>2 DEF NoticeInv
  <1>10. FollowInv'
    <2>. SUFFICES ASSUME "effects" \notin manner PROVE FollowInv'
      BY <1>1 DEF FollowInv
    <2>1. CASE frames' = << >>
      BY <1>1, <2>1 DEF StoreInv, FollowInv
    <2>2. CASE frames' # << >>
      <3>1. frames'[1].op = "run" /\ \A i \in 1..Len(frames') : frames'[i].at # "second"
        BY <1>5, <1>6, <2>2
      <3>. QED BY <2>2, <3>1 DEF FollowInv
    <2>. QED BY <2>1, <2>2
  <1>11. CopyInv'
    BY <1>1, <1>3, <1>6 DEF CopyInv, Plain
  <1>12. SilenceInv'
    <2>. SUFFICES ASSUME Orderly' PROVE SilenceInv'
      BY DEF SilenceInv
    <2>1. Orderly /\ ~spokeLate /\ "failures" \notin manner
      BY <1>1 DEF Orderly, StoreInv, SilenceInv
    <2>2. \A s \in 1..Len(runs) : ~runs[s].over /\ ~runs[s].cancelled =>
              s = pendingAction /\ runs[s].call = newest
      BY <2>1 DEF StoreInv, SilenceInv
    <2>3. ~spokeLate'
      BY <1>1, <1>4, <2>1, <2>2
    <2>4. ASSUME NEW s \in 1..Len(runs'), ~runs'[s].over, ~runs'[s].cancelled
          PROVE  s = pendingAction' /\ runs'[s].call = newest'
      <3>1. s # r /\ s \in 1..Len(runs) /\ ~runs[s].over /\ ~runs[s].cancelled /\ runs'[s] = runs[s]
        BY <1>2, <2>4
      <3>2. runs[r].cancelled
        BY <1>1, <2>2, <3>1
      <3>. QED BY <1>1, <1>4, <2>1, <2>2, <3>1, <3>2
    <2>. QED BY <1>6, <2>3, <2>4 DEF SilenceInv
  <1>. QED BY <1>7, <1>8, <1>9, <1>10, <1>11, <1>12 DEF StoreInv

\* Code of the application throws, through every operation under way.
LEMMA ThrowStep == ASSUME StoreInv, Throw PROVE StoreInv'
  <1>1. /\ StackInv /\ CopyInv /\ frames # << >> /\ frames \in Seq(FrameSet) /\ batchDepth \in Nat
        /\ "throws" \in manner /\ frames' = << >> /\ lastEnd' = "cut" /\ Len(frames) \in Nat
        /\ Top.in \in manner \cup {"body"}
        /\ UNCHANGED <<manner, signals, atomic, calls, newest, runs, spokeLate, noticed, saved,
                       selected>>
        /\ pendingAction' \in {0, pendingAction}
    BY DEF Throw, followers, StoreInv, StackInv
  <1>. DEFINE Closes == {i \in DOMAIN frames : frames[i].at = "close"}
  <1>2. batchDepth' = batchDepth - Cardinality(Closes)
    BY DEF Throw
  <1>3. /\ IsFiniteSet(Batched) /\ Cardinality(Batched) \in Nat /\ Cardinality(Drafts) \in Nat
    BY <1>1, StackCounts
  <1>4. Closes \subseteq Batched
    BY <1>1 DEF Batched, Batching
  <1>5. Calm => Closes = Batched
    <2>1. \A i \in 1..Len(frames) : frames[i] \in FrameSet /\ frames[i].in \in manner \cup {"body"}
      BY <1>1, TopIs DEF StackInv
    <2>2. Calm => "effects" \notin manner
      BY <1>1 DEF Calm
    <2>3. Calm => \A i \in 1..Len(frames) : Batching(frames[i]) => frames[i].at = "close"
      BY <1>1, <2>1, <2>2, WaitingIs DEF Batching
    <2>. QED BY <1>1, <1>4, <2>3 DEF Batched
  <1>. HIDE DEF Closes
  <1>6. IsFiniteSet(Closes) /\ Cardinality(Closes) \in Nat /\ Cardinality(Closes) <= Cardinality(Batched)
    BY <1>3, <1>4, FS_Subset, FS_CardinalityType
  <1>7. /\ Cardinality(Batched) <= batchDepth /\ batchDepth + Cardinality(Drafts) <= calls
        /\ Calm => batchDepth = Cardinality(Batched)
        /\ calls \in Nat
    BY StoreConstants DEF StoreInv, StackInv, DepthInv
  <1>8. batchDepth' \in Nat /\ batchDepth' <= calls /\ (Calm => batchDepth' = 0)
    BY <1>1, <1>2, <1>3, <1>5, <1>6, <1>7
  <1>9. StackInv'
    BY <1>1, <1>8 DEF StackInv
  <1>10. DepthInv'
    <2>1. Batched' = {} /\ Drafts' = {} /\ Cardinality({}) = 0
      BY <1>1, FS_EmptySet DEF Batched, Drafts
    <2>. QED BY <1>1, <1>7, <1>8, <2>1 DEF DepthInv, Calm
  <1>11. NoticeInv' /\ FollowInv'
    BY <1>1 DEF NoticeInv, FollowInv
  <1>12. CopyInv'
    BY <1>1 DEF CopyInv, Plain
  <1>13. SilenceInv'
    BY <1>1 DEF SilenceInv, Orderly
  <1>. QED BY <1>9, <1>10, <1>11, <1>12, <1>13 DEF StoreInv


LEMMA StoreStart == ASSUME StoreInit PROVE StoreInv
  <1>1. /\ manner \in Manners
        /\ signals = [k \in Key |-> IF k \in Declared THEN saved[k] ELSE Absent]
        /\ atomic = saved /\ selected = <<signals, signals>> /\ noticed = signals
        /\ batchDepth = 0 /\ frames = << >> /\ Len(frames) = 0 /\ newest = 0 /\ runs = << >>
        /\ Len(runs) = 0 /\ pendingAction = 0 /\ spokeLate = FALSE /\ lastEnd = "none" /\ calls = 0
    BY DEF StoreInit
  <1>2. saved \in Snapshot /\ \A k \in Declared : saved[k] # Absent
    <2>1. \/ saved = Initial
          \/ \E k \in Key, v \in Value : saved = [Initial EXCEPT ![k] = v]
      BY DEF StoreInit
    <2>2. /\ Initial \in Snapshot /\ Absent \notin Value
          /\ \A k \in Declared : k \in Key /\ Initial[k] # Absent
      BY StoreConstants
    <2>3. ASSUME NEW k \in Key, NEW v \in Value, saved = [Initial EXCEPT ![k] = v]
          PROVE  saved \in Snapshot /\ \A j \in Declared : saved[j] # Absent
      BY <2>2, <2>3 DEF Snapshot
    <2>. QED BY <2>1, <2>2, <2>3
  <1>3. signals \in Snapshot /\ \A k \in Declared : signals[k] = saved[k]
    BY <1>1, <1>2, StoreConstants DEF Snapshot
  <1>4. StackInv
    <2>1. frames \in Seq(FrameSet) /\ runs \in Seq(Run)
      BY <1>1
    <2>2. calls \in 0..MaxCalls /\ newest \in 0..calls /\ pendingAction \in 0..Len(runs)
      BY <1>1, StoreConstants
    <2>3. \A i \in 1..Len(frames) - 1 : frames[i].in \in manner \cup {"body"}
      BY <1>1
    <2>4. {signals, atomic, saved, noticed} \subseteq Snapshot
      BY <1>1, <1>2, <1>3
    <2>5. selected \in Snapshot \X Snapshot
      BY <1>1, <1>3
    <2>. QED BY <1>1, <2>1, <2>2, <2>3, <2>4, <2>5 DEF StackInv
  <1>5. DepthInv
    <2>1. Batched = {} /\ Drafts = {} /\ Cardinality({}) = 0
      BY <1>1, FS_EmptySet DEF Batched, Drafts
    <2>. QED BY <1>1, <2>1 DEF DepthInv
  <1>6. NoticeInv /\ FollowInv
    BY <1>1 DEF NoticeInv, FollowInv
  <1>7. CopyInv
    BY <1>1, <1>2, <1>3 DEF CopyInv
  <1>8. SilenceInv
    BY <1>1 DEF SilenceInv
  <1>. QED BY <1>4, <1>5, <1>6, <1>7, <1>8 DEF StoreInv

LEMMA StoreStep == ASSUME StoreInv, [StoreNext]_storeVars PROVE StoreInv'
  <1>1. CASE Assigned
    BY <1>1, AssignedStep
  <1>2. CASE Persist
    BY <1>2, PersistStep
  <1>3. CASE Select
    BY <1>3, SelectStep
  <1>4. CASE End
    BY <1>4, EndStep
  <1>5. CASE batchUpdates \/ updateState \/ resetState
    BY <1>5, OpenStep
  <1>6. CASE Close
    BY <1>6, CloseStep
  <1>7. CASE Drafted
    BY <1>7, DraftedStep
  <1>8. CASE WriteNext
    BY <1>8, OverStep, TurnStep
  <1>9. CASE ActionCalled
    BY <1>9, CalledStep
  <1>10. CASE ActionReturns
    BY <1>10, ReturnsStep
  <1>11. CASE Throw
    BY <1>11, ThrowStep
  <1>12. ASSUME NEW k \in Key, NEW v \in Value, setValue(k, v) \/ DirectWrite(k, v)
         PROVE  StoreInv'
    BY <1>12, SetStep, DirectStep
  <1>13. ASSUME NEW r \in DOMAIN runs, RunEnds(r) PROVE StoreInv'
    BY <1>13, EndsStep
  <1>14. CASE UNCHANGED storeVars
    <2>1. UNCHANGED <<manner, signals, atomic, saved, selected, noticed, batchDepth, frames, newest,
                      runs, pendingAction, spokeLate, lastEnd, calls>>
      BY <1>14 DEF storeVars, followers, actionVars
    <2>2. StackInv' /\ DepthInv'
      BY <2>1 DEF StoreInv, StackInv, DepthInv, Batched, Drafts, Calm
    <2>3. NoticeInv' /\ FollowInv'
      BY <2>1 DEF StoreInv, NoticeInv, FollowInv, Calm
    <2>4. CopyInv'
      BY <2>1 DEF StoreInv, CopyInv, Plain
    <2>5. SilenceInv'
      BY <2>1 DEF StoreInv, SilenceInv, Orderly
    <2>. QED BY <2>2, <2>3, <2>4, <2>5 DEF StoreInv
  <1>. QED
    BY <1>1, <1>2, <1>3, <1>4, <1>5, <1>6, <1>7, <1>8, <1>9, <1>10, <1>11, <1>12, <1>13, <1>14
       DEF StoreNext

LEMMA StoreInvTells ==
    ASSUME StoreInv
    PROVE  /\ StoreTyped /\ StoreIsFollowed /\ CopiesAgree
           /\ SupersededIsSilent
  <1>1. StoreTyped
    <2>1. /\ selected \in Snapshot \X Snapshot /\ frames \in Seq(FrameSet)
          /\ {signals, atomic, saved, noticed} \subseteq Snapshot
          /\ batchDepth \in Nat /\ calls \in 0..MaxCalls /\ newest \in 0..calls /\ MaxCalls \in Nat
      BY StoreConstants DEF StoreInv, StackInv
    <2>2. batchDepth <= calls
      <3>1. Cardinality(Drafts) \in Nat
        BY <2>1, StackCounts
      <3>. QED BY <2>1, <3>1 DEF StoreInv, DepthInv
    <2>3. \A i \in DOMAIN frames :
              /\ frames[i].op \in {"set", "batch", "update", "reset", "action", "run", "write"}
              /\ frames[i].in \in {"nothing", "effects", "later", "subscribers", "body"}
      BY <2>1, FrameTells
    <2>. QED BY <2>1, <2>2, <2>3 DEF StoreInv, StackInv, StoreTyped, Run
  <1>2. StoreIsFollowed
    <2>. SUFFICES ASSUME frames = << >>, lastEnd = "whole", Calm
                  PROVE  /\ runs = << >> => noticed = signals
                         /\ "effects" \notin manner => selected = <<signals, signals>> /\ saved = signals
      BY DEF StoreIsFollowed, Calm
    <2>1. \A i \in 1..Len(frames) : FALSE
      OBVIOUS
    <2>2. runs = << >> => noticed = signals
      BY <2>1 DEF StoreInv, NoticeInv
    <2>3. "effects" \notin manner => saved = signals /\ selected[1] = signals /\ selected[2] = signals
      BY <2>1 DEF StoreInv, FollowInv
    <2>. QED BY <2>2, <2>3 DEF StoreInv, StackInv
  <1>3. CopiesAgree
    <2>1. Plain <=> manner \cap {"effects", "actions", "throws"} = {}
      BY DEF Plain
    <2>. QED BY <2>1 DEF StoreInv, CopyInv, CopiesAgree
  <1>4. SupersededIsSilent
    BY DEF StoreInv, SilenceInv, Orderly, SupersededIsSilent
  <1>. QED BY <1>1, <1>2, <1>3, <1>4

\* Subscribers, selectors, the storage and the second copy have caught up with a store when
\* an operation returns, and superseded actions are silent: for any keys, values and bounds
\* and any mix of callbacks that write back, throw or fail (store.ts, operations.ts).
THEOREM StoreFollows ==
    StoreSpec => [](StoreTyped /\ StoreIsFollowed /\ CopiesAgree /\ SupersededIsSilent)
  <1>1. StoreInit => StoreInv
    BY StoreStart
  <1>2. StoreInv /\ [StoreNext]_storeVars => StoreInv'
    BY StoreStep
  <1>3. StoreInv => StoreTyped /\ StoreIsFollowed /\ CopiesAgree /\ SupersededIsSilent
    BY StoreInvTells
  <1>. QED BY <1>1, <1>2, <1>3, PTL DEF StoreSpec
=============================================================================
