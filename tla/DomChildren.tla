----------------------------- MODULE DomChildren ------------------------------
(***************************************************************************)
(* The children of an element in the document:                               *)
(* packages/core/src/services/dom-renderer/mount.ts and hydration-cursor.ts.  *)
(* They follow a new rendering, patched in place by a walk that keeps two    *)
(* positions, or mounted afresh; or a first rendering on the client adopts    *)
(* those the server rendered.                                               *)
(*                                                                         *)
(* A child is a record.  A component ("blueprint") stands for a comment, the  *)
(* anchor, and what its view renders after it: a paragraph, or, in a nested   *)
(* one, a component of its own that renders the paragraph.                   *)
(***************************************************************************)
EXTENDS Integers, SequencesExt

CONSTANTS Value,          \* texts and props
          Kinds,          \* kinds of children: "empty", "text", "p", "span", "signal", and
                          \* the components "plain" and "nested"
          MaxChildren

PatchAssumption ==
    MaxChildren \in Nat
    /\ Kinds \subseteq {"empty", "text", "p", "span", "signal", "plain", "nested"}

Child == [kind : Kinds, value : Value]

VARIABLES
    previousChildren, nextChildren,
    dom,               \* the childNodes of the element
    index, domIndex,   \* the walk: children done, and the node of the next one
    updating           \* "mounted", "patching", "flushing" or "over"

patchVars == <<previousChildren, nextChildren, dom, index, domIndex, updating>>

Elements == {"p", "span"}

Blueprints == {"plain", "nested"}

Comment == [node |-> "anchor"]
Leaf(node, v) == [node |-> node, value |-> v]

\* What mountChild puts into the document for a child, once deferred mounts have run.
Mounted(child) ==
    CASE child.kind = "empty" -> << >>
      [] child.kind \in {"text", "p", "span"} -> <<Leaf(child.kind, child.value)>>
      [] child.kind = "signal" -> <<Comment, Leaf("text", child.value)>>
      [] child.kind = "plain" -> <<Comment, Leaf("p", child.value)>>
      [] child.kind = "nested" -> <<Comment, Comment, Leaf("p", child.value)>>

mountChildren(children) == FlattenSeq([i \in DOMAIN children |-> Mounted(children[i])])

\* Where the nodes of child i begin.
Offset(children, i) == Len(mountChildren(SubSeq(children, 1, i - 1)))

PatchInit ==
    /\ previousChildren \in UNION {[1..n -> Child] : n \in 0..MaxChildren}
    /\ nextChildren = previousChildren
    /\ dom = mountChildren(previousChildren)
    /\ index = 0 /\ domIndex = 0 /\ updating = "mounted"

\* The view has rendered again.  A signal is the same one, and has its value.
Rendered ==
    /\ updating = "mounted"
    /\ nextChildren' \in UNION {[1..n -> Child] : n \in 0..MaxChildren}
    /\ \A i \in DOMAIN nextChildren' \cap DOMAIN previousChildren :
           nextChildren'[i].kind = "signal" /\ previousChildren[i].kind = "signal"
               => nextChildren'[i] = previousChildren[i]
    /\ updating' = "patching"
    /\ UNCHANGED <<previousChildren, dom, index, domIndex>>

\* Anything the patch cannot do: everything is removed and mounted.
Remount ==
    /\ dom' = mountChildren(nextChildren) /\ updating' = "over"
    /\ UNCHANGED <<index, domIndex>>

\* patchBlueprintChild and getDynamicSpanLength: the anchor, and the nodes its own value
\* mounted, of which a nested component is one, its anchor.
Span == 2

\* A node's textContent is set; on a comment nothing is seen of it.
Write(at, v) ==
    dom' = [dom EXCEPT ![at] = IF @ = Comment THEN @ ELSE [@ EXCEPT !.value = v]]

\* Mutation: whatever stays the same is taken for one node.
advanceDomIndexForChildByOne(child, isLastChild) == domIndex + 1

\* Where the walk is after a child that stays the same; -1 when the code cannot tell.
advanceDomIndexForChild(child, isLastChild) ==
    CASE child.kind = "empty" -> domIndex
      [] child.kind = "text" \/ child.kind \in Elements -> domIndex + 1
      [] child.kind = "signal" -> IF isLastChild THEN Len(dom) ELSE -1

\* One turn of the loop of patchElementChildren.
PatchChild ==
    LET was == previousChildren[index + 1]
        is == nextChildren[index + 1]
        isLastChild == index + 1 = Len(previousChildren)
        goOn(to) == index' = index + 1 /\ domIndex' = to /\ UNCHANGED updating
    IN
    /\ updating = "patching" /\ Len(previousChildren) = Len(nextChildren)
    /\ index < Len(previousChildren)
    /\ IF was.kind \in Blueprints /\ is.kind = was.kind
       THEN IF domIndex < Len(dom) /\ dom[domIndex + 1] = Comment
            THEN goOn(domIndex + Span) /\ UNCHANGED dom
            ELSE Remount
       ELSE IF was = is \/ (was.kind = "empty" /\ is.kind = "empty")
       THEN \* haveSameChildSignature
            IF advanceDomIndexForChild(was, isLastChild) < 0 THEN Remount
            ELSE goOn(advanceDomIndexForChild(was, isLastChild)) /\ UNCHANGED dom
       ELSE IF domIndex < Len(dom) /\ was.kind = "text" /\ is.kind = "text"
       THEN goOn(domIndex + 1) /\ Write(domIndex + 1, is.value)
       ELSE IF /\ domIndex < Len(dom) /\ was.kind \in Elements /\ is.kind = was.kind
               /\ dom[domIndex + 1].node = was.kind
       THEN goOn(domIndex + 1) /\ Write(domIndex + 1, is.value)   \* patchElementNode
       ELSE Remount
    /\ UNCHANGED <<previousChildren, nextChildren>>

\* The walk is over, or the number of children has changed.
PatchEnds ==
    /\ updating = "patching"
    /\ \/ /\ Len(previousChildren) # Len(nextChildren) /\ Remount
       \/ /\ Len(previousChildren) = Len(nextChildren) /\ index = Len(previousChildren)
          /\ updating' = "flushing" /\ UNCHANGED <<dom, index, domIndex>>
    /\ UNCHANGED <<previousChildren, nextChildren>>

\* The components that were given another prop have rendered: each replaces the nodes
\* after its anchor.
PropsFlushed ==
    LET changed == {i \in DOMAIN nextChildren : /\ nextChildren[i].kind \in Blueprints
                                                /\ nextChildren[i] # previousChildren[i]}
    IN
    /\ updating = "flushing"
    /\ dom' = [k \in DOMAIN dom |->
                  IF \E i \in changed : k = Offset(nextChildren, i + 1)
                  THEN Leaf("p", nextChildren[CHOOSE i \in changed :
                                                  k = Offset(nextChildren, i + 1)].value)
                  ELSE dom[k]]
    /\ updating' = "over"
    /\ UNCHANGED <<previousChildren, nextChildren, index, domIndex>>

PatchNext == Rendered \/ PatchChild \/ PatchEnds \/ PropsFlushed

----------------------------------------------------------------------------
\* Every variable keeps its type.
PatchTyped ==
    /\ {previousChildren, nextChildren} \subseteq Seq(Child)
    /\ index \in 0..MaxChildren /\ domIndex \in 0..3 * MaxChildren
    /\ updating \in {"mounted", "patching", "flushing", "over"}
    /\ dom \in Seq({Comment} \cup [node : {"text", "p", "span"}, value : Value])

\* What is patched looks as if it had been mounted afresh.
PatchIsRender == updating = "over" => dom = mountChildren(nextChildren)

----------------------------------------------------------------------------
\* Hydration.  A text is a sequence of letters; the server wrote adjacent ones into one
\* node, and nothing for an empty one.

CONSTANTS Letter, MaxRendered

HydrationAssumption == MaxRendered \in Nat

Texts == {<< >>} \cup {<<l>> : l \in Letter} \cup {<<l, l>> : l \in Letter}

\* What a component renders: elements, texts, and signals of texts.
Render == [kind : {"p", "span"}] \cup [kind : {"text", "signal"}, text : Texts]

Node(kind, from, text) == [kind |-> kind, from |-> from, text |-> text]

VARIABLES
    rendering,      \* what the client renders
    matching,       \* the server has rendered the same
    nodes, next,    \* the nodes of the parent, and the place of the cursor among them
    claimed         \* how many of the rendering have been mounted

hydrationVars == <<rendering, matching, nodes, next, claimed>>

Renderings == UNION {[1..n -> Render] : n \in 0..MaxRendered}

IsText(node) == node.kind = "text"

\* renderToString: a text joins the one before it.
Served(children) ==
    LET add(out, child) ==
            IF child.kind \in {"p", "span"} THEN Append(out, Node(child.kind, "server", << >>))
            ELSE IF child.text = << >> THEN out
            ELSE IF out # << >> /\ IsText(Last(out))
            THEN [out EXCEPT ![Len(out)].text = @ \o child.text]
            ELSE Append(out, Node("text", "server", child.text))
    IN  FoldLeft(add, << >>, children)

HydrationInit ==
    /\ rendering \in Renderings
    /\ \E served \in Renderings : nodes = Served(served) /\ matching = (served = rendering)
    /\ next = 1 /\ claimed = 0

Claimed == rendering[claimed + 1]

\* The node the cursor is at, if any, and an insertion before it.
AtCursor(P(_)) == next <= Len(nodes) /\ P(nodes[next])
InsertedAt(seq, k, node) == SubSeq(seq, 1, k - 1) \o <<node>> \o SubSeq(seq, k, Len(seq))

\* claimElement
claimElement ==
    /\ claimed < Len(rendering) /\ Claimed.kind \in {"p", "span"}
    /\ IF AtCursor(LAMBDA n : n.kind = Claimed.kind)
       THEN UNCHANGED nodes
       ELSE nodes' = InsertedAt(nodes, next, Node(Claimed.kind, "client", << >>))
    /\ next' = next + 1 /\ claimed' = claimed + 1
    /\ UNCHANGED <<rendering, matching>>

\* Mutation: the rest of a text that was split is skipped.
claimTextSkipping(seq, at, text) ==
    IF text = << >> THEN <<InsertedAt(seq, at, Node("text", "client", << >>)), at + 1>>
    ELSE IF at <= Len(seq) /\ IsText(seq[at])
    THEN <<[seq EXCEPT ![at].text = text], at + 1>>
    ELSE <<InsertedAt(seq, at, Node("text", "client", text)), at + 1>>

\* claimText: the nodes and the cursor after it.  A longer text that begins with the one
\* expected is split, any other text is overwritten.
claimText(seq, at, text) ==
    IF text = << >> THEN <<InsertedAt(seq, at, Node("text", "client", << >>)), at + 1>>
    ELSE IF at <= Len(seq) /\ IsText(seq[at])
    THEN IF seq[at].text # text /\ IsPrefix(text, seq[at].text)
         THEN <<InsertedAt([seq EXCEPT ![at].text = text], at + 1,
                           Node("text", "server",
                                SubSeq(seq[at].text, Len(text) + 1, Len(seq[at].text)))),
                at + 1>>
         ELSE <<[seq EXCEPT ![at].text = text], at + 1>>
    ELSE <<InsertedAt(seq, at, Node("text", "client", text)), at + 1>>

\* A text, or a signal, whose anchor comes first.
MountText ==
    /\ claimed < Len(rendering) /\ Claimed.kind \in {"text", "signal"}
    /\ LET anchor == Claimed.kind = "signal"
           before == IF anchor THEN InsertedAt(nodes, next, Node("anchor", "client", << >>)) ELSE nodes
           after == claimText(before, IF anchor THEN next + 1 ELSE next, Claimed.text)
       IN  nodes' = after[1] /\ next' = after[2]
    /\ claimed' = claimed + 1
    /\ UNCHANGED <<rendering, matching>>

\* dropUnclaimed
dropUnclaimed ==
    /\ claimed = Len(rendering)
    /\ nodes' = SubSeq(nodes, 1, next - 1)
    /\ claimed' = claimed + 1
    /\ UNCHANGED <<rendering, matching, next>>

HydrationNext == claimElement \/ MountText \/ dropUnclaimed

HydrationSpec == HydrationInit /\ [][HydrationNext]_hydrationVars

\* An element is patched while nothing is hydrated.
PatchSpec ==
    PatchInit /\ HydrationInit /\ [][PatchNext /\ UNCHANGED hydrationVars]_patchVars

----------------------------------------------------------------------------
\* What a mount without the server's markup would make of a child.
Fresh(child) ==
    CASE child.kind \in {"p", "span"} -> <<[kind |-> child.kind, text |-> << >>]>>
      [] child.kind = "text" -> <<[kind |-> "text", text |-> child.text]>>
      [] child.kind = "signal" -> <<[kind |-> "anchor", text |-> << >>],
                                    [kind |-> "text", text |-> child.text]>>

\* Every variable keeps its type.
HydrationTyped ==
    /\ rendering \in Seq(Render) /\ matching \in BOOLEAN
    /\ next \in 1..Len(nodes) + 1 /\ claimed \in 0..Len(rendering) + 1
    /\ \A i \in DOMAIN nodes : /\ nodes[i].kind \in {"p", "span", "text", "anchor"}
                               /\ nodes[i].from \in {"client", "server"}

\* Whatever the server rendered, hydration ends with the nodes a mount makes, one for
\* each text; and what the server rendered alike is adopted and not made again.
HydratedIsMounted ==
    claimed > Len(rendering) =>
        /\ [i \in DOMAIN nodes |-> [kind |-> nodes[i].kind, text |-> nodes[i].text]]
              = FlattenSeq([i \in DOMAIN rendering |-> Fresh(rendering[i])])
        /\ matching => \A i \in DOMAIN nodes :
              nodes[i].from = "client" => nodes[i].kind = "anchor" \/ nodes[i].text = << >>
        /\ matching => \A i \in DOMAIN nodes : nodes[i].kind \in {"p", "span"} => nodes[i].from = "server"
=============================================================================
