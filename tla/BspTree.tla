------------------------------ MODULE BspTree ------------------------------
(***************************************************************************)
(* The BSP trees of rovr-core/src/bsp.rs.  A tree is a function from paths *)
(* to nodes: a path is the sequence of sides (1 left or top, 2 right or    *)
(* bottom) taken from the root, a node is a leaf with its window or a      *)
(* split with its axis and its ratio in tenths.  So the recursions of the  *)
(* code become sets of paths: what is below a node has its path as prefix. *)
(***************************************************************************)
EXTENDS Integers, SequencesExt

Axes  == {"vertical", "horizontal"}
Edges == {"north", "south", "east", "west"}

Leaf(w)     == [win |-> w]
Split(a, r) == [axis |-> a, ratio |-> r]
IsLeaf(n)   == "win" \in DOMAIN n

EmptyTree == [p \in {} |-> p]
HoldersOf(t, w) == {p \in DOMAIN t : t[p] = Leaf(w)}
PathOf(t, w) == CHOOSE p \in DOMAIN t : t[p] = Leaf(w)
LeafPaths(t) == {p \in DOMAIN t : IsLeaf(t[p])}
Leaves(t) == {t[p].win : p \in LeafPaths(t)}

ClampRatio(r) == IF r < 1 THEN 1 ELSE IF r > 9 THEN 9 ELSE r
Flip(a) == IF a = "vertical" THEN "horizontal" ELSE "vertical"

\* The order in which leaves() walks the tree.
Before(p, q) ==
  \E k \in DOMAIN p \cap DOMAIN q :
    p[k] < q[k] /\ \A i \in 1 .. k - 1 : p[i] = q[i]
LeafOrder(t) ==
  LET paths == SetToSortSeq(LeafPaths(t), Before)
  IN  [i \in DOMAIN paths |-> t[paths[i]].win]

-----------------------------------------------------------------------------
\* Inserting and removing windows.

\* The leaf at p becomes a split of a and b, its axis by the depth.
Graft(t, p, a, b) ==
  [x \in DOMAIN t \cup {Append(p, 1), Append(p, 2)} |->
     IF x = p THEN Split(IF Len(p) % 2 = 0 THEN "vertical" ELSE "horizontal", 5)
     ELSE IF x = Append(p, 1) THEN Leaf(a)
     ELSE IF x = Append(p, 2) THEN Leaf(b) ELSE t[x]]

Rightmost(t) == CHOOSE p \in LeafPaths(t) : \A i \in DOMAIN p : p[i] = 2

Insert(t, w) ==
  IF w \in Leaves(t) THEN t
  ELSE IF t = EmptyTree THEN [x \in {<<>>} |-> Leaf(w)]
  ELSE Graft(t, Rightmost(t), t[Rightmost(t)].win, w)

\* What is below r takes the place of what is below q.
After(x, y) == SubSeq(y, Len(x) + 1, Len(y))
Lift(t, q, r) ==
  LET up   == {q \o After(r, x) : x \in {y \in DOMAIN t : IsPrefix(r, y)}}
      rest == {x \in DOMAIN t : ~IsPrefix(q, x)}
  IN  [x \in rest \cup up |-> IF x \in up THEN t[r \o After(q, x)] ELSE t[x]]

\* The sibling of w takes the place of the split above them.
RemoveWindow(t, w) ==
  LET p == PathOf(t, w)
      q == Front(p)
  IN  IF w \notin Leaves(t) THEN t
      ELSE IF p = <<>> THEN EmptyTree
      ELSE Lift(t, q, Append(q, 3 - Last(p)))

\* t without the windows S (in whatever order they go), and with the windows S
\* inserted in the order of their ids.
RemoveAll(t, S) ==
  LET without[G \in SUBSET S] ==
        IF G = {} THEN t ELSE RemoveWindow(without[G \ {Max(G)}], Max(G))
  IN  without[S]
InsertAll(t, S) ==
  LET with[G \in SUBSET S] ==
        IF G = {} THEN t ELSE Insert(with[G \ {Max(G)}], Max(G))
  IN  with[S]

\* Mutant of SyncWithWindows: windows that went away stay in the tree.
SyncMissing(t, S) == InsertAll(t, S \ Leaves(t))
SyncWithWindows(t, S) ==
  LET kept == RemoveAll(t, Leaves(t) \ S)
  IN  InsertAll(kept, S \ Leaves(kept))

-----------------------------------------------------------------------------
\* Rearranging them.

Swap(t, a, b) ==
  [p \in DOMAIN t |-> IF t[p] = Leaf(a) THEN Leaf(b)
                      ELSE IF t[p] = Leaf(b) THEN Leaf(a) ELSE t[p]]

\* Mutant of Warp: w comes before its target.
WarpBefore(t, w, target) ==
  LET u == RemoveWindow(t, w) IN Graft(u, PathOf(u, target), w, target)
\* w becomes the right sibling of target, wherever it was.
Warp(t, w, target) ==
  LET u == RemoveWindow(t, w) IN Graft(u, PathOf(u, target), target, w)

Balance(t) ==
  [p \in DOMAIN t |-> IF IsLeaf(t[p]) THEN t[p] ELSE [t[p] EXCEPT !.ratio = 5]]
Rotate(t) ==
  [p \in DOMAIN t |-> IF IsLeaf(t[p]) THEN t[p] ELSE [t[p] EXCEPT !.axis = Flip(@)]]

\* Children are exchanged at every level; the ratios stay where they are.
Mirror(t) ==
  LET other(p) == [i \in DOMAIN p |-> 3 - p[i]]
  IN  [p \in {other(x) : x \in DOMAIN t} |-> t[other(p)]]

SetRatio(t, r) ==
  IF <<>> \in DOMAIN t /\ ~IsLeaf(t[<<>>])
  THEN [t EXCEPT ![<<>>].ratio = ClampRatio(r)] ELSE t

\* The splits above w whose boundary faces its edge.
Facing(t, w, edge) ==
  LET p    == PathOf(t, w)
      axis == IF edge \in {"east", "west"} THEN "vertical" ELSE "horizontal"
      side == IF edge \in {"east", "south"} THEN 1 ELSE 2
  IN  {q \in DOMAIN t : /\ IsStrictPrefix(q, p)
                        /\ t[q].axis = axis /\ p[Len(q) + 1] = side}

\* Mutant of Nearest: the boundary furthest up the tree.
Furthest(Q) == CHOOSE q \in Q : \A x \in Q : Len(x) >= Len(q)
Nearest(Q) == CHOOSE q \in Q : \A x \in Q : Len(x) <= Len(q)

\* The nearest such boundary moves outward by delta tenths of its split.
ResizeEdge(t, w, edge, delta) ==
  LET q == Nearest(Facing(t, w, edge))
  IN  IF Facing(t, w, edge) = {} THEN t
      ELSE [t EXCEPT ![q].ratio =
              ClampRatio(@ + (IF edge \in {"east", "south"} THEN delta ELSE -delta))]

-----------------------------------------------------------------------------
\* Where the windows go.

\* Mutant of Part: the second part starts where the first does.
PartAtOrigin(area, n, side) ==
  IF n.axis = "vertical"
  THEN [area EXCEPT !.w = (@ * (IF side = 1 THEN n.ratio ELSE 10 - n.ratio)) \div 10]
  ELSE [area EXCEPT !.h = (@ * (IF side = 1 THEN n.ratio ELSE 10 - n.ratio)) \div 10]
\* The part of area on one side of split n.
Part(area, n, side) ==
  LET cut(size) == (size * n.ratio) \div 10
  IN  CASE n.axis = "vertical" /\ side = 1 -> [area EXCEPT !.w = cut(@)]
        [] n.axis = "vertical" /\ side = 2 ->
             [area EXCEPT !.x = @ + cut(area.w), !.w = @ - cut(@)]
        [] n.axis = "horizontal" /\ side = 1 -> [area EXCEPT !.h = cut(@)]
        [] n.axis = "horizontal" /\ side = 2 ->
             [area EXCEPT !.y = @ + cut(area.h), !.h = @ - cut(@)]

\* Every node gets its part of what its parent got.
Placement(t, w, area) ==
  LET part[p \in DOMAIN t] ==
        IF p = <<>> THEN area ELSE Part(part[Front(p)], t[Front(p)], Last(p))
  IN  part[PathOf(t, w)]

\* A binary tree with every window once.
WellFormed(t, W) ==
  /\ \A p \in DOMAIN t :
       /\ p # <<>> => Front(p) \in DOMAIN t /\ ~IsLeaf(t[Front(p)])
       /\ t[p] \in [win : W] \cup [axis : Axes, ratio : 1 .. 9]
       /\ ~IsLeaf(t[p]) => {Append(p, 1), Append(p, 2)} \subseteq DOMAIN t
  /\ \A w \in W : Cardinality(HoldersOf(t, w)) <= 1
=============================================================================
