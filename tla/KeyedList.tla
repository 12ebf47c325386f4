------------------------------ MODULE KeyedList -------------------------------
(***************************************************************************)
(* Lists that keep the nodes of the keys they keep: the children of For      *)
(* (packages/core/src/components/For.ts) and of TransitionGroup, which reuse  *)
(* nodes alike, run by the effect of a mounted list.                         *)
(*                                                                         *)
(* A list is a sequence of keys; its items are made anew at each change, so   *)
(* an item is told by its key and the number of the change.  A node is told   *)
(* by its key and the change that made it, and carries its signals.  The      *)
(* application's functions may throw.                                        *)
(***************************************************************************)
EXTENDS Integers, SequencesExt

CONSTANTS
    Lists,         \* the lists of keys
    Windows,       \* ranges of a list that are shown
    MaxChanges     \* bound on changes

KeyedListAssumption ==
    /\ MaxChanges \in Nat /\ Lists \subseteq Seq(Nat)
    /\ \A w \in Windows : w.start \in Nat /\ w.end \in Nat /\ w.start < w.end

VARIABLES
    checked,       \* duplicate keys are refused: For, in development
    extracted,     \* there is a keyExtractor; without it the index is the key
    list, window, change,
    cachedChildren,
    entered, exited,    \* nodes whose transitions were called, in order
    forgone,            \* nodes dropped for an empty list
    shown,              \* what the list shows
    thrown,             \* a function has thrown
    since               \* key: since which change it was in every list shown, 0 if not

listVars == <<checked, extracted, list, window, change, cachedChildren, entered, exited, forgone,
              shown, thrown, since>>

Key == UNION {ToSet(l) \cup 0..(Len(l) - 1) : l \in Lists}
Name(n) == <<n.key, n.made>>
Names(children) == {Name(n) : n \in ToSet(children)}

ListInit ==
    /\ checked \in BOOLEAN /\ extracted \in BOOLEAN
    /\ list = << >> /\ window \in Windows /\ change = 0
    /\ cachedChildren = << >> /\ entered = << >> /\ exited = << >> /\ forgone = {}
    /\ shown = "nothing" /\ thrown = FALSE /\ since = [k \in Key |-> 0]

\* The part of list l that is in window w, and the index of its first item.
Start(l, w) == IF w.start < Len(l) THEN w.start ELSE Len(l)
Sliced(l, w) == SubSeq(l, Start(l, w) + 1, IF w.end < Len(l) THEN w.end ELSE Len(l))

Item(k, c) == [key |-> k, change |-> c]
KeyOf(item, index) == IF extracted THEN item.key ELSE index

Failed(p) == [p EXCEPT !.failed = TRUE]

\* A node that stays is told its item and its index.
Staying(n, item, index) == [n EXCEPT !.item = item, !.index = index]

\* In pass p, the item for this index: the node of its key stays, or one is made; f names
\* the function that throws.
Place(p, item, index, f) ==
    LET key == KeyOf(item, index)
        old == SelectLastInSeq(p.previous, LAMBDA n : n.key = key)
        node == Staying(p.previous[old], item, index)
        seen == [p EXCEPT !.seen = @ \cup {key}]
        stays == [seen EXCEPT !.previous[old] = node, !.children = Append(@, node)]
        new == [key |-> key, item |-> item, index |-> index, made |-> item.change]
        enters == [seen EXCEPT !.children = Append(@, new), !.entered = Append(@, Name(new))]
    IN CASE p.failed -> p
         [] ~p.failed /\ checked /\ key \in p.seen -> Failed(p)
         [] OTHER ->
              IF old # 0
              THEN IF f = "move" /\ p.previous[old].index # index THEN Failed(stays) ELSE stays
              ELSE CASE f = "children" -> Failed(seen)
                     [] f = "enter" -> Failed(enters)
                     [] OTHER -> enters

\* Mutation: exit is called for every node of before.
LeaveAll(p, n, f) ==
    IF p.failed THEN p
    ELSE LET left == [p EXCEPT !.exited = Append(@, Name(n))]
         IN IF f = "exit" THEN Failed(left) ELSE left

\* Afterwards, a node of before: its exit is called if its key was not seen, and where
\* nothing is checked no key is.
Leave(p, n, f) ==
    IF p.failed \/ (checked /\ n.key \in p.seen) THEN p
    ELSE LET left == [p EXCEPT !.exited = Append(@, Name(n))]
         IN IF f = "exit" THEN Failed(left) ELSE left

\* The children are asked for with list l in window w; what f names throws at position at.
Pass(l, w, f, at) ==
    LET slice == Sliced(l, w)
        At(i) == IF i = at THEN f ELSE "none"
        begun == [previous |-> cachedChildren, children |-> << >>, seen |-> {},
                  entered |-> entered, exited |-> exited, failed |-> FALSE]
        placed == FoldLeftDomain(
            LAMBDA p, i : Place(p, Item(slice[i], change + 1), Start(l, w) + i - 1, At(i)),
            begun, slice)
    IN FoldLeftDomain(LAMBDA p, i : Leave(p, placed.previous[i], At(i)), placed, placed.previous)

\* Mutation: what was placed before a failure is what the next pass reuses.
RememberedAnyway(p) == p.children

\* The nodes that the next pass may reuse.
Remembered(p) == IF p.failed THEN p.previous ELSE p.children

\* The list or its window changes and the effect of the list runs: what was shown goes, and
\* the children are mounted, or an error node.
ListChanges(l, w, f, at) ==
    LET p == Pass(l, w, f, at) IN
    /\ change < MaxChanges /\ change' = change + 1
    /\ checked \/ ~extracted \/ IsInjective(Sliced(l, w))
    /\ list' = l /\ window' = w
    /\ IF Sliced(l, w) = << >>
       THEN /\ cachedChildren' = << >> /\ shown' = "fallback"
            /\ forgone' = forgone \cup Names(cachedChildren)
            /\ since' = [k \in Key |-> 0]
            /\ UNCHANGED <<entered, exited, thrown>>
       ELSE /\ cachedChildren' = Remembered(p)
            /\ shown' = (IF p.failed THEN "error" ELSE "children")
            /\ entered' = p.entered /\ exited' = p.exited
            /\ thrown' = (thrown \/ p.failed)
            /\ since' = IF p.failed THEN since
                        ELSE [k \in Key |-> IF k \notin {n.key : n \in ToSet(p.children)} THEN 0
                                            ELSE IF since[k] # 0 THEN since[k] ELSE change + 1]
            /\ UNCHANGED forgone
    /\ UNCHANGED <<checked, extracted>>

Functions == {"none", "children", "enter", "move", "exit"}

\* In the last change nothing throws: what follows a failure is still to be seen.
ListNext ==
    \E l \in Lists, w \in Windows, f \in Functions, at \in 1..3 :
        /\ IF f = "none" THEN at = 1 ELSE change + 1 < MaxChanges
        /\ ListChanges(l, w, f, at)

ListSpec == ListInit /\ [][ListNext]_listVars

----------------------------------------------------------------------------
\* Every variable keeps its type.
ListTyped ==
    /\ checked \in BOOLEAN /\ extracted \in BOOLEAN
    /\ list \in Lists \cup {<< >>} /\ window \in Windows /\ change \in 0..MaxChanges
    /\ cachedChildren \in Seq([key : Key, item : [key : Key, change : 1..MaxChanges],
                               index : Nat, made : 1..MaxChanges])
    /\ {entered, exited} \subseteq Seq(Key \X (1..MaxChanges))
    /\ forgone \subseteq Key \X (1..MaxChanges)
    /\ shown \in {"nothing", "fallback", "error", "children"} /\ thrown \in BOOLEAN
    /\ since \in [Key -> 0..MaxChanges]

\* Whatever threw before: the children shown are those of the list, in its order, with the
\* items and the indexes it has now, and the node of a key is as old as the key's stay in
\* what was shown (For.ts children).
ChildrenFollow ==
    shown = "children" =>
        LET slice == Sliced(list, window) IN
        /\ Len(cachedChildren) = Len(slice)
        /\ \A i \in DOMAIN slice :
            LET n == cachedChildren[i]
                index == Start(list, window) + i - 1
            IN /\ n.item = Item(slice[i], change) /\ n.index = index
               /\ n.key = KeyOf(n.item, index) /\ n.made = since[n.key]

\* Where keys are checked and nothing has thrown, each node enters once and is in the list
\* until it exits once, unless the list became empty (For.ts invokeExitTransitions).
EntersAndExits ==
    checked /\ ~thrown =>
        /\ IsInjective(entered) /\ IsInjective(exited)
        /\ Names(cachedChildren) \cap (ToSet(exited) \cup forgone) = {}
        /\ ToSet(entered) = Names(cachedChildren) \cup ToSet(exited) \cup forgone
=============================================================================
