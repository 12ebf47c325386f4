------------------------------ MODULE RouteTable -----------------------------
(***************************************************************************)
(* Which server route answers a path: packages/core/src/routing/            *)
(* route-pattern.ts and route-trie.ts, as compileLayerServerRouter and      *)
(* findApiHandler of ssr/server-routing.ts use them.                        *)
(*                                                                         *)
(* A pattern is the sequence of its URL segments: a static one is its text, *)
(* and the others stand for every name a parameter may have.  A path is the *)
(* sequence of the pieces that follow its slashes, "/" being <<"">>.        *)
(***************************************************************************)
EXTENDS Integers, Sequences

CONSTANTS
    Static,     \* texts of static segments
    Tables,     \* the tables that may be compiled: sequences of patterns
    Pathnames   \* the paths that may be asked for

Param == "[x]"
Rest == "[...x]"
Optional == ":x?"
OptionalRest == "[[...x]]"
Wildcard == "*"
Segment == Static \cup {Param, Rest, Optional, OptionalRest, Wildcard}

RoutesKnown ==
    \A t \in Tables : \A i \in DOMAIN t :
        /\ t[i].segments \in Seq(Segment) /\ t[i].slash \in BOOLEAN
        /\ \A k \in DOMAIN t[i].segments :
              t[i].segments[k] \in {Rest, OptionalRest} => k = Len(t[i].segments)

VARIABLES table, pathname, winner   \* winner: an entry of table, 0 for none, -1 not asked yet

routeVars == <<table, pathname, winner>>

\* A single trailing slash is dropped, except from the root path.
normalizeMatchPathname(p) ==
    IF Len(p) > 1 /\ p[Len(p)] = "" THEN SubSeq(p, 1, Len(p) - 1) ELSE p

\* The text of pieces i to j, slashes included, is not empty.
SomeText(p, i, j) == j > i \/ (j = i /\ p[i] # "")

\* The regular expression that compileRoutePattern builds, against a path:
\* M[k, i] says that the segments from k on match the pieces from i on.
matchRoutePattern(pattern, path) ==
    LET s == pattern.segments
        p == normalizeMatchPathname(path)
        n == Len(p)
        Ends(i) == IF pattern.slash THEN i = n /\ p[n] = "" ELSE i > n
        RestEnds(i) == IF pattern.slash THEN p[n] = "" /\ SomeText(p, i, n - 1)
                                        ELSE SomeText(p, i, n)
        M[k \in 1..Len(s) + 1, i \in 1..n + 1] ==
            IF k > Len(s) THEN Ends(i)
            ELSE \/ /\ s[k] \in {Optional, OptionalRest} /\ M[k + 1, i]
                 \/ /\ i <= n
                    /\ \/ s[k] \in Static /\ p[i] = s[k] /\ M[k + 1, i + 1]
                       \/ s[k] = Param /\ p[i] # "" /\ M[k + 1, i + 1]
                       \/ s[k] = Optional /\ M[k + 1, i + 1]
                       \/ s[k] = Rest /\ RestEnds(i)
                       \/ s[k] = OptionalRest /\ (pattern.slash => i < n /\ p[n] = "")
                       \/ s[k] = Wildcard /\ \E j \in i + 1..n + 1 : M[k + 1, j]
    IN  IF s = <<Wildcard>> /\ ~pattern.slash THEN TRUE
        ELSE IF s = << >> THEN p = <<"">>
        ELSE M[1, 1]

segmentSpecificity(s) ==
    CASE s \in Static -> 4
      [] s = Param -> 2
      [] s \in {Optional, OptionalRest} -> -1
      [] OTHER -> 0

\* compareRoutePatterns: the first position that differs decides, then the length.
Before(left, right) ==
    LET Score(s, k) == IF k <= Len(s) THEN segmentSpecificity(s[k]) ELSE 0
        l == left.segments
        r == right.segments
        Differ(k) == Score(l, k) # Score(r, k)
        longest == IF Len(l) > Len(r) THEN Len(l) ELSE Len(r)
    IN  IF \E k \in 1..longest : Differ(k)
        THEN \E k \in 1..longest : /\ Score(l, k) > Score(r, k)
                                   /\ \A j \in 1..k - 1 : ~Differ(j)
        ELSE Len(l) > Len(r)

\* The entry of a set that the sorted table holds first.
Foremost(t, entries) ==
    IF entries = {} THEN 0
    ELSE CHOOSE e \in entries : \A f \in entries \ {e} :
            Before(t[e], t[f]) \/ (e < f /\ ~Before(t[f], t[e]))

\* findApiHandler's loop over the sorted table.
Scan(t, path) == Foremost(t, {e \in DOMAIN t : matchRoutePattern(t[e], path)})

isTrieRoutable(pattern) ==
    \A k \in DOMAIN pattern.segments :
        pattern.segments[k] \notin {Optional, OptionalRest, Wildcard}

\* The entries createRouteTrie leaves at a node, which the edges to it name.
Terminates(t, node) == Foremost(t, {e \in DOMAIN t : t[e].segments = node})

Edges(t) ==
    UNION {{SubSeq(t[e].segments, 1, k) : k \in 0..Len(t[e].segments)} : e \in DOMAIN t}

\* Mutation: a dead end below a static segment is final.
matchRouteTrieGreedy(t, path) ==
    LET p == normalizeMatchPathname(path)
        s == IF p = <<"">> THEN << >> ELSE p
        Nodes == {n \in Edges(t) : Len(n) <= Len(s)}
        visit[node \in Nodes] ==
            LET i == Len(node) + 1
                Down(edge) == IF Append(node, edge) \in Nodes THEN visit[Append(node, edge)] ELSE 0
            IN  IF i > Len(s) THEN Terminates(t, node)
                ELSE IF Append(node, s[i]) \in Nodes THEN Down(s[i])
                ELSE IF Down(Param) # 0 THEN Down(Param)
                ELSE Terminates(t, Append(node, Rest))
    IN  visit[<< >>]

\* The descent of the trie: static, then parameter, then catch-all.
matchRouteTrie(t, path) ==
    LET p == normalizeMatchPathname(path)
        s == IF p = <<"">> THEN << >> ELSE p
        Nodes == {n \in Edges(t) : Len(n) <= Len(s)}
        visit[node \in Nodes] ==
            LET i == Len(node) + 1
                Down(edge) == IF Append(node, edge) \in Nodes THEN visit[Append(node, edge)] ELSE 0
            IN  IF i > Len(s) THEN Terminates(t, node)
                ELSE IF s[i] = "" THEN 0
                ELSE IF Down(s[i]) # 0 THEN Down(s[i])
                ELSE IF Down(Param) # 0 THEN Down(Param)
                ELSE Terminates(t, Append(node, Rest))
    IN  visit[<< >>]

\* The trie, when every route of the table is expressible in it.
findApiHandler(t, path) ==
    IF \A e \in DOMAIN t : isTrieRoutable(t[e]) THEN matchRouteTrie(t, path) ELSE Scan(t, path)

RoutesInit == table \in Tables /\ pathname \in Pathnames /\ winner = -1

Dispatch ==
    /\ winner = -1 /\ winner' = findApiHandler(table, pathname)
    /\ UNCHANGED <<table, pathname>>

----------------------------------------------------------------------------
\* Every variable keeps its type.
RoutesTyped == winner \in -1..Len(table)

\* The trie "selects the same winner the linear scan would".
TrieIsScan == winner # -1 => winner = Scan(table, pathname)
=============================================================================
