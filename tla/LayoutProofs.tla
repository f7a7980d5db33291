---------------------------- MODULE LayoutProofs ----------------------------
(***************************************************************************)
(* Theorems about Layout, for any windows, Spaces, commands and sizes of   *)
(* the display: every tree stays a binary tree with every window once, an  *)
(* observation brings the trees of the Spaces in use to their windows, and *)
(* frames neither overlap nor leave a part of the display empty.           *)
(***************************************************************************)
EXTENDS Layout, FiniteSetTheorems, SequenceTheorems, WellFoundedInduction, TLAPS

Paths == Seq({1, 2})
Nodes == [win : Windows] \cup [axis : Axes, ratio : 1 .. 9]

\* A path is in the tree when it is one step below a split of the tree.
Branching(t) ==
  \A p \in Paths, i \in {1, 2} :
    Append(p, i) \in DOMAIN t <=> p \in DOMAIN t /\ ~IsLeaf(t[p])

Single(t) == \A p, q \in DOMAIN t : IsLeaf(t[p]) /\ t[p] = t[q] => p = q

Tree(t) ==
  /\ t \in [DOMAIN t -> Nodes] /\ DOMAIN t \subseteq Paths
  /\ Branching(t) /\ Single(t)
  /\ \E n \in Nat : \A p \in DOMAIN t : Len(p) <= n

-----------------------------------------------------------------------------
\* Numbers and paths.

LEMMA LeastIs ==
  ASSUME NEW S, S \subseteq Nat, S # {}
  PROVE  \E x \in S : \A y \in S : x <= y
<1>1. PICK x \in S : \A y \in S : ~(<<y, x>> \in OpToRel(<, Nat))
  BY NatLessThanWellFounded, WFMin
<1>2. ASSUME NEW y \in S PROVE x <= y
  <2>1. <<y, x>> \in OpToRel(<, Nat) <=> y < x
    BY DEF OpToRel
  <2>2. ~(y < x)
    BY <1>1, <2>1, Zenon
  <2> QED BY <2>2
<1> QED BY <1>2

LEMMA GreatestIs ==
  ASSUME NEW S, S \subseteq Nat, S # {}, NEW n \in Nat, \A x \in S : x <= n
  PROVE  \E x \in S : \A y \in S : y <= x
<1> DEFINE T == {n - x : x \in S}
<1>1. T \subseteq Nat /\ T # {}
  <2>1. \A x \in S : n - x \in Nat
    OBVIOUS
  <2> QED BY <2>1
<1>2. PICK d \in T : \A e \in T : d <= e
  BY <1>1, LeastIs
<1>3. PICK x \in S : d = n - x
  BY <1>2
<1>4. ASSUME NEW y \in S PROVE y <= x
  <2>1. n - y \in T
    OBVIOUS
  <2>2. d <= n - y
    BY <1>2, <2>1
  <2> QED BY <1>3, <2>2
<1> QED BY <1>4

\* Every set of windows has a largest one.
LEMMA MaxIs ==
  ASSUME NEW S, S \subseteq Nat, IsFiniteSet(S), S # {}
  PROVE  Max(S) \in S
<1> DEFINE Topped(T) == \E x \in T : \A y \in T : x >= y
           Bad(n) == \E T \in SUBSET S : Cardinality(T) = n /\ T # {} /\ ~Topped(T)
           B == {n \in Nat : Bad(n)}
<1>1. B = {}
  <2>1. SUFFICES ASSUME B # {} PROVE FALSE
    OBVIOUS
  <2>2. PICK n \in B : \A m \in B : n <= m
    BY <2>1, LeastIs
  <2>3. PICK T \in SUBSET S : Cardinality(T) = n /\ T # {} /\ ~Topped(T)
    BY <2>2
  <2>4. PICK x \in T : TRUE
    BY <2>3
  <2>5. /\ IsFiniteSet(T) /\ IsFiniteSet(T \ {x})
        /\ Cardinality(T \ {x}) = n - 1 /\ Cardinality(T \ {x}) \in Nat
    BY <2>3, <2>4, FS_Subset, FS_RemoveElement, FS_CardinalityType
  <2>6. n - 1 \notin B
    BY <2>2
  <2>7. T \ {x} = {} \/ Topped(T \ {x})
    BY <2>5, <2>6
  <2>8. CASE T \ {x} = {}
    <3>1. T = {x}
      BY <2>4, <2>8
    <3>2. x \in Nat
      BY <2>4
    <3> QED BY <2>3, <3>1, <3>2
  <2>9. CASE Topped(T \ {x})
    <3>1. PICK m \in T \ {x} : \A y \in T \ {x} : m >= y
      BY <2>9
    <3>2. T \subseteq Nat
      BY <2>3
    <3>3. CASE m >= x
      BY <2>3, <3>1, <3>3
    <3>4. CASE x >= m
      <4>1. \A y \in T : x >= y
        BY <2>4, <3>1, <3>2, <3>4
      <4> QED BY <2>3, <4>1
    <3> QED BY <2>4, <3>1, <3>2, <3>3, <3>4
  <2> QED BY <2>7, <2>8, <2>9
<1>2. Cardinality(S) \in Nat /\ Cardinality(S) \notin B
  BY <1>1, FS_CardinalityType
<1>3. Topped(S)
  BY <1>2
<1> QED BY <1>3 DEF Max

LEMMA OneStep ==
  ASSUME NEW p \in Paths, NEW i \in {1, 2}
  PROVE  /\ Append(p, i) \in Paths /\ Len(Append(p, i)) = Len(p) + 1
         /\ Append(p, i) # <<>> /\ Append(p, i) # p
         /\ Front(Append(p, i)) = p /\ Last(Append(p, i)) = i
         /\ \A q \in Paths, j \in {1, 2} : Append(p, i) = Append(q, j) => p = q /\ i = j
<1>1. /\ Append(p, i) \in Paths /\ Len(Append(p, i)) = Len(p) + 1
      /\ Append(p, i) # <<>> /\ Append(p, i)[Len(p) + 1] = i
      /\ \A k \in 1 .. Len(p) : Append(p, i)[k] = p[k]
      /\ Len(p) \in Nat
  BY AppendProperties, LenProperties DEF Paths
<1>2. Front(Append(p, i)) = p
  <2> DEFINE q == Append(p, i)
  <2>1. \A k \in 1 .. Len(p) : q[k] \in {1, 2}
    BY <1>1, ElementOfSeq DEF Paths
  <2>2. /\ SubSeq(q, 1, Len(p)) \in Seq({1, 2})
        /\ Len(SubSeq(q, 1, Len(p))) = Len(p)
        /\ \A k \in 1 .. Len(p) : SubSeq(q, 1, Len(p))[k] = q[k]
    BY <1>1, <2>1, SubSeqProperties
  <2>3. SubSeq(q, 1, Len(p)) = p
    BY <1>1, <2>2, SeqEqual DEF Paths
  <2>4. Len(q) - 1 = Len(p)
    BY <1>1
  <2> QED BY <2>3, <2>4 DEF Front
<1>3. Last(Append(p, i)) = i
  BY <1>1 DEF Last
<1>4. \A q \in Paths, j \in {1, 2} : Append(p, i) = Append(q, j) => p = q /\ i = j
  BY AppendInjective DEF Paths
<1> QED BY <1>1, <1>2, <1>3, <1>4

LEMMA LastStep ==
  ASSUME NEW p \in Paths, p # <<>>
  PROVE  /\ Front(p) \in Paths /\ Last(p) \in {1, 2} /\ p = Append(Front(p), Last(p))
         /\ Len(p) = Len(Front(p)) + 1
<1>1. PICK q \in Paths, i \in {1, 2} : p = Append(q, i)
  BY SequenceEmptyOrAppend DEF Paths
<1> QED BY <1>1, OneStep

\* Paths below a path.
LEMMA Below ==
  ASSUME NEW q \in Paths, NEW z \in Paths
  PROVE  /\ q \o z \in Paths /\ IsPrefix(q, q \o z) /\ After(q, q \o z) = z
         /\ Len(q \o z) = Len(q) + Len(z) /\ q \o <<>> = q
         /\ \A y \in Paths : q \o z = q \o y => z = y
<1>1. /\ q \o z \in Paths /\ Len(q \o z) = Len(q) + Len(z)
      /\ Len(q) \in Nat /\ Len(z) \in Nat
      /\ \A i \in 1 .. Len(q) + Len(z) :
           (q \o z)[i] = IF i <= Len(q) THEN q[i] ELSE z[i - Len(q)]
  BY ConcatProperties, LenProperties DEF Paths
<1>2. \A i \in 1 .. Len(q) + Len(z) : (q \o z)[i] \in {1, 2}
  BY <1>1, ElementOfSeq DEF Paths
<1>3. IsPrefix(q, q \o z)
  <2>1. SubSeq(q, 1, Len(q)) = q
    BY SubSeqFull DEF Paths
  <2>2. /\ SubSeq(q \o z, 1, Len(q)) \in Seq({1, 2})
        /\ Len(SubSeq(q \o z, 1, Len(q))) = Len(q)
        /\ \A k \in 1 .. Len(q) : SubSeq(q \o z, 1, Len(q))[k] = (q \o z)[k]
    BY <1>1, <1>2, SubSeqProperties
  <2>3. SubSeq(q \o z, 1, Len(q)) = q
    BY <1>1, <2>2, SeqEqual DEF Paths
  <2> QED BY <1>1, <2>1, <2>3 DEF IsPrefix
<1>4. After(q, q \o z) = z
  <2> DEFINE a == SubSeq(q \o z, Len(q) + 1, Len(q) + Len(z))
  <2>1. /\ a \in Seq({1, 2}) /\ Len(a) = Len(z)
        /\ \A k \in 1 .. Len(z) : a[k] = (q \o z)[Len(q) + k]
    <3>1. \A i \in Len(q) + 1 .. Len(q) + Len(z) : (q \o z)[i] \in {1, 2}
      BY <1>1, <1>2
    <3>2. /\ a \in Seq({1, 2})
          /\ Len(a) = IF Len(q) + 1 <= Len(q) + Len(z)
                      THEN Len(q) + Len(z) - (Len(q) + 1) + 1 ELSE 0
          /\ \A i \in 1 .. Len(q) + Len(z) - (Len(q) + 1) + 1 :
               a[i] = (q \o z)[Len(q) + 1 + i - 1]
      BY <1>1, <3>1, SubSeqProperties
    <3> QED BY <1>1, <3>2
  <2>2. \A k \in 1 .. Len(z) : a[k] = z[k]
    BY <1>1, <2>1
  <2>3. a = z
    BY <2>1, <2>2, SeqEqual DEF Paths
  <2> QED BY <1>1, <2>3 DEF After
<1>5. q \o <<>> = q /\ \A y \in Paths : q \o z = q \o y => z = y
  BY ConcatEmptySeq, ConcatSimplifications DEF Paths
<1> QED BY <1>1, <1>3, <1>4, <1>5

LEMMA BelowStep ==
  ASSUME NEW q \in Paths, NEW z \in Paths, NEW i \in {1, 2}
  PROVE  Append(q \o z, i) = q \o Append(z, i)
<1>1. q \o z \in Paths /\ <<i>> \in Paths
  BY Below DEF Paths
<1>2. Append(z, i) = z \o <<i>> /\ Append(q \o z, i) = (q \o z) \o <<i>>
  BY <1>1, AppendIsConcat DEF Paths
<1> QED BY <1>1, <1>2, ConcatAssociative DEF Paths

LEMMA Beneath ==
  ASSUME NEW q \in Paths, NEW x \in Paths, IsPrefix(q, x)
  PROVE  After(q, x) \in Paths /\ x = q \o After(q, x)
<1>1. Len(q) \in Nat /\ Len(x) \in Nat /\ Len(q) <= Len(x)
  BY LenProperties DEF Paths, IsPrefix
<1>2. q = SubSeq(x, 1, Len(q))
  BY SubSeqFull DEF Paths, IsPrefix
<1>3. SubSeq(x, 1, Len(q)) \o SubSeq(x, Len(q) + 1, Len(x)) = SubSeq(x, 1, Len(x))
  <2>1. /\ 1 \in 1 .. Len(x) + 1 /\ Len(q) \in 1 - 1 .. Len(x)
        /\ Len(x) \in Len(q) .. Len(x) /\ x \in Seq({1, 2})
    BY <1>1 DEF Paths
  <2> QED BY <2>1, ConcatAdjacentSubSeq
<1>4. SubSeq(x, 1, Len(x)) = x
  BY SubSeqFull DEF Paths
<1>5. \A i \in Len(q) + 1 .. Len(x) : x[i] \in {1, 2}
  BY <1>1, ElementOfSeq DEF Paths
<1>6. SubSeq(x, Len(q) + 1, Len(x)) \in Seq({1, 2})
  BY <1>1, <1>5, SubSeqProperties
<1> QED BY <1>2, <1>3, <1>4, <1>6 DEF After, Paths

\* A step from above q ends in q, or not below q.
LEMMA StepTo ==
  ASSUME NEW q \in Paths, NEW x \in Paths, NEW i \in {1, 2}
  PROVE  IsPrefix(q, Append(x, i)) <=> IsPrefix(q, x) \/ q = Append(x, i)
<1>1. Append(x, i) \in Paths
  BY OneStep
<1>2. ASSUME IsPrefix(q, x) PROVE IsPrefix(q, Append(x, i))
  <2>1. PICK z \in Paths : x = q \o z
    BY <1>2, Beneath
  <2>2. Append(q \o z, i) = q \o Append(z, i)
    BY BelowStep
  <2>3. Append(z, i) \in Paths
    BY OneStep
  <2> QED BY <2>1, <2>2, <2>3, Below
<1>3. ASSUME q = Append(x, i) PROVE IsPrefix(q, Append(x, i))
  BY <1>3 DEF IsPrefix, Paths
<1>4. ASSUME IsPrefix(q, Append(x, i)) PROVE IsPrefix(q, x) \/ q = Append(x, i)
  <2>1. PICK z \in Paths : Append(x, i) = q \o z
    BY <1>1, <1>4, Beneath
  <2>2. CASE z = <<>>
    BY <2>1, <2>2, Below
  <2>3. CASE z # <<>>
    <3>1. PICK y \in Paths, j \in {1, 2} : z = Append(y, j)
      BY <2>3, LastStep
    <3>2. q \o y \in Paths /\ IsPrefix(q, q \o y)
      BY Below
    <3>3. Append(q \o y, j) = q \o Append(y, j)
      BY BelowStep
    <3>4. x = q \o y
      <4>1. Append(x, i) = Append(q \o y, j)
        BY <2>1, <3>1, <3>3
      <4>2. x \in Seq({1, 2}) /\ q \o y \in Seq({1, 2})
        BY <3>2 DEF Paths
      <4>3. \A v \in Seq({1, 2}) : Append(x, i) = Append(v, j) => x = v
        BY <3>1, <4>2, AppendInjective
      <4> QED BY <4>1, <4>2, <4>3
    <3> QED BY <3>2, <3>4
  <2> QED BY <2>2, <2>3
<1> QED BY <1>2, <1>3, <1>4

-----------------------------------------------------------------------------
\* Nodes and trees.

LEMMA NodeIs ==
  ASSUME NEW n \in Nodes
  PROVE  /\ IsLeaf(n) => n.win \in Windows /\ n = Leaf(n.win)
         /\ ~IsLeaf(n) => n \in [axis : Axes, ratio : 1 .. 9]
<1>1. CASE n \in [win : Windows]
  BY <1>1 DEF IsLeaf, Leaf
<1>2. CASE n \in [axis : Axes, ratio : 1 .. 9]
  BY <1>2 DEF IsLeaf
<1> QED BY <1>1, <1>2 DEF Nodes

LEMMA LeafIs ==
  /\ \A w : IsLeaf(Leaf(w)) /\ Leaf(w).win = w
  /\ \A v, w : Leaf(v) = Leaf(w) => v = w
  /\ \A w \in Windows : Leaf(w) \in Nodes
<1>1. \A w : IsLeaf(Leaf(w)) /\ Leaf(w).win = w
  BY DEF IsLeaf, Leaf
<1>2. \A w \in Windows : Leaf(w) \in Nodes
  BY DEF Leaf, Nodes
<1> QED BY <1>1, <1>2

LEMMA SplitIs ==
  ASSUME NEW a \in Axes, NEW r \in 1 .. 9
  PROVE  Split(a, r) \in Nodes /\ ~IsLeaf(Split(a, r))
  BY DEF Split, Nodes, IsLeaf

LEMMA LeavesIn ==
  ASSUME NEW t, Tree(t)
  PROVE  /\ Leaves(t) \subseteq Windows
         /\ \A p \in DOMAIN t : \A w : t[p] = Leaf(w) <=> IsLeaf(t[p]) /\ t[p].win = w
         /\ \A w : w \in Leaves(t) <=> \E p \in DOMAIN t : t[p] = Leaf(w)
<1>1. \A p \in DOMAIN t : t[p] \in Nodes
  BY DEF Tree
<1>2. \A p \in DOMAIN t : IsLeaf(t[p]) => t[p].win \in Windows /\ t[p] = Leaf(t[p].win)
  BY <1>1, NodeIs
<1>3. \A p \in DOMAIN t : \A w : t[p] = Leaf(w) <=> IsLeaf(t[p]) /\ t[p].win = w
  BY <1>2, LeafIs
<1> QED BY <1>2, <1>3 DEF Leaves, LeafPaths

LEMMA PathIs ==
  ASSUME NEW t, Tree(t), NEW w \in Leaves(t)
  PROVE  /\ PathOf(t, w) \in LeafPaths(t) /\ t[PathOf(t, w)] = Leaf(w)
         /\ PathOf(t, w) \in Paths
         /\ \A p \in DOMAIN t : t[p] = Leaf(w) => p = PathOf(t, w)
<1>1. \E p \in DOMAIN t : t[p] = Leaf(w)
  BY LeavesIn
<1>2. PathOf(t, w) \in DOMAIN t /\ t[PathOf(t, w)] = Leaf(w)
  BY <1>1 DEF PathOf
<1>3. IsLeaf(t[PathOf(t, w)]) /\ PathOf(t, w) \in Paths
  BY <1>2, LeafIs DEF Tree
<1> QED BY <1>2, <1>3 DEF Tree, Single, LeafPaths

\* A tree that is not empty has its root.
LEMMA RootIs ==
  ASSUME NEW t, Tree(t), DOMAIN t # {}
  PROVE  <<>> \in DOMAIN t
<1> DEFINE L == {Len(p) : p \in DOMAIN t}
<1>1. \A p \in DOMAIN t : p \in Paths /\ Len(p) \in Nat
  BY LenProperties DEF Tree, Paths
<1>2. L \subseteq Nat /\ L # {}
  BY <1>1
<1>3. PICK n \in L : \A m \in L : n <= m
  BY <1>2, LeastIs
<1>4. PICK p \in DOMAIN t : Len(p) = n
  BY <1>3
<1>5. CASE p # <<>>
  <2>1. /\ Front(p) \in Paths /\ Last(p) \in {1, 2} /\ p = Append(Front(p), Last(p))
        /\ Len(p) = Len(Front(p)) + 1
    BY <1>1, <1>5, LastStep
  <2>2. Front(p) \in DOMAIN t
    BY <2>1 DEF Tree, Branching
  <2>3. Len(Front(p)) \in L /\ Len(Front(p)) \in Nat
    BY <1>1, <2>2
  <2> QED BY <1>3, <1>4, <2>1, <2>3
<1> QED BY <1>5

\* What is above a node is a split, what is below a leaf is not in the tree.
LEMMA AboveIs ==
  ASSUME NEW t, Tree(t), NEW p \in Paths, NEW z \in Paths, z # <<>>, p \o z \in DOMAIN t
  PROVE  p \in DOMAIN t /\ ~IsLeaf(t[p])
<1> DEFINE Under(y) == p \o y \in DOMAIN t /\ y # <<>>
           L == {Len(y) : y \in {x \in Paths : Under(x)}}
<1>1. \A y \in Paths : Len(y) \in Nat
  BY LenProperties DEF Paths
<1>2. L \subseteq Nat /\ L # {}
  BY <1>1
<1>3. PICK n \in L : \A m \in L : n <= m
  BY <1>2, LeastIs
<1>4. PICK y \in Paths : Under(y) /\ Len(y) = n
  BY <1>3
<1>5. PICK x \in Paths, i \in {1, 2} : y = Append(x, i) /\ Len(y) = Len(x) + 1
  BY <1>4, LastStep
<1>6. p \o x \in Paths /\ Append(p \o x, i) = p \o Append(x, i)
  <2>1. p \o x \in Paths
    BY Below
  <2> QED BY <2>1, BelowStep
<1>7. p \o x \in DOMAIN t /\ ~IsLeaf(t[p \o x])
  <2>1. Append(p \o x, i) \in DOMAIN t
    BY <1>4, <1>5, <1>6
  <2> QED BY <1>6, <2>1 DEF Tree, Branching
<1>8. x = <<>>
  <2>1. Len(x) \notin L
    BY <1>1, <1>3, <1>4, <1>5
  <2> QED BY <1>7, <2>1
<1>9. p \o <<>> = p
  BY Below
<1> QED BY <1>7, <1>8, <1>9

LEMMA EmptyTreeIs == Tree(EmptyTree) /\ Leaves(EmptyTree) = {} /\ DOMAIN EmptyTree = {}
<1>1. DOMAIN EmptyTree = {} /\ EmptyTree \in [DOMAIN EmptyTree -> Nodes]
  BY DEF EmptyTree
<1> QED BY <1>1 DEF Tree, Branching, Single, Leaves, LeafPaths

-----------------------------------------------------------------------------
\* Inserting.

\* A leaf becomes a split of its window and a new one (insert_rightmost,
\* insert_sibling).
LEMMA GraftTree ==
  ASSUME NEW t, Tree(t), NEW p \in LeafPaths(t), NEW w \in Windows, w \notin Leaves(t)
  PROVE  LET u == Graft(t, p, t[p].win, w)
         IN  Tree(u) /\ Leaves(u) = Leaves(t) \cup {w}
<1> DEFINE a == t[p].win
           l == Append(p, 1)
           r == Append(p, 2)
           u == Graft(t, p, a, w)
<1>1. /\ p \in Paths /\ p \in DOMAIN t /\ IsLeaf(t[p]) /\ a \in Windows
      /\ t[p] = Leaf(a) /\ a \in Leaves(t)
  <2>1. p \in Paths /\ p \in DOMAIN t /\ IsLeaf(t[p]) /\ t[p] \in Nodes
    BY DEF Tree, LeafPaths
  <2> QED BY <2>1, NodeIs DEF Leaves
<1>2. /\ l \in Paths /\ r \in Paths /\ l # r /\ l # p /\ r # p
      /\ Len(l) = Len(p) + 1 /\ Len(r) = Len(p) + 1
      /\ \A x \in Paths, i \in {1, 2} : Append(x, i) \in {l, r} <=> x = p
  <2>1. \A i \in {1, 2} : /\ Append(p, i) \in Paths /\ Len(Append(p, i)) = Len(p) + 1
                          /\ Append(p, i) # p
    BY <1>1, OneStep
  <2>2. l # r
    BY <1>1, OneStep
  <2>3. \A x \in Paths, i \in {1, 2} : Append(x, i) \in {l, r} => x = p
    BY <1>1, OneStep
  <2>4. \A i \in {1, 2} : Append(p, i) \in {l, r}
    OBVIOUS
  <2> QED BY <2>1, <2>2, <2>3, <2>4
<1>3. l \notin DOMAIN t /\ r \notin DOMAIN t
  BY <1>1 DEF Tree, Branching
<1>4. PICK s : s \in Nodes /\ ~IsLeaf(s)
               /\ u = [x \in DOMAIN t \cup {l, r} |->
                        IF x = p THEN s ELSE IF x = l THEN Leaf(a)
                        ELSE IF x = r THEN Leaf(w) ELSE t[x]]
  <2> DEFINE s == Split(IF Len(p) % 2 = 0 THEN "vertical" ELSE "horizontal", 5)
  <2>1. s \in Nodes /\ ~IsLeaf(s)
    <3>1. (IF Len(p) % 2 = 0 THEN "vertical" ELSE "horizontal") \in Axes
      BY DEF Axes
    <3> QED BY <3>1, SplitIs
  <2> HIDE DEF s
  <2>2. u = [x \in DOMAIN t \cup {l, r} |->
                        IF x = p THEN s ELSE IF x = l THEN Leaf(a)
                        ELSE IF x = r THEN Leaf(w) ELSE t[x]]
    BY DEF Graft, s
  <2> QED BY <2>1, <2>2
<1> HIDE DEF u, l, r, a
<1>5. /\ DOMAIN u = DOMAIN t \cup {l, r}
      /\ u[p] = s /\ u[l] = Leaf(a) /\ u[r] = Leaf(w)
      /\ \A x \in DOMAIN t : x # p => u[x] = t[x]
  BY <1>1, <1>2, <1>3, <1>4
<1>6. u \in [DOMAIN u -> Nodes] /\ DOMAIN u \subseteq Paths
  <2>1. Leaf(a) \in Nodes /\ Leaf(w) \in Nodes
    BY <1>1, LeafIs
  <2>2. \A x \in DOMAIN t : t[x] \in Nodes /\ x \in Paths
    BY DEF Tree
  <2>3. \A x \in DOMAIN u : u[x] \in Nodes
    BY <1>4, <1>5, <2>1, <2>2
  <2>4. u = [x \in DOMAIN u |-> u[x]]
    BY <1>4
  <2> QED BY <1>2, <1>5, <2>2, <2>3, <2>4
<1>7. Branching(u)
  <2>1. SUFFICES ASSUME NEW x \in Paths, NEW i \in {1, 2}
                 PROVE  Append(x, i) \in DOMAIN u <=> x \in DOMAIN u /\ ~IsLeaf(u[x])
    BY DEF Branching
  <2>2. Append(x, i) \in DOMAIN t <=> x \in DOMAIN t /\ ~IsLeaf(t[x])
    BY DEF Tree, Branching
  <2>3. IsLeaf(u[l]) /\ IsLeaf(u[r]) /\ ~IsLeaf(u[p])
    BY <1>4, <1>5, LeafIs
  <2>4. Append(x, i) \in {l, r} <=> x = p
    BY <1>2
  <2> QED BY <1>1, <1>3, <1>5, <2>2, <2>3, <2>4
<1>8. \A x \in DOMAIN u : \A v : u[x] = Leaf(v) <=>
         \/ x = l /\ v = a
         \/ x = r /\ v = w
         \/ x \in DOMAIN t \ {p} /\ t[x] = Leaf(v)
  BY <1>2, <1>3, <1>4, <1>5, LeafIs
<1>9. \A x \in DOMAIN t \ {p} : t[x] # Leaf(a) /\ t[x] # Leaf(w)
  <2>1. \A x \in DOMAIN t : t[x] = Leaf(a) => x = p
    BY <1>1 DEF Tree, Single
  <2>2. \A x \in DOMAIN t : t[x] # Leaf(w)
    BY LeavesIn
  <2> QED BY <2>1, <2>2
<1>10. a # w
  BY <1>1
<1>11. \A x \in DOMAIN u : IsLeaf(u[x]) => \E v : u[x] = Leaf(v)
  BY <1>6, NodeIs
<1>12. Single(u)
  <2>1. SUFFICES ASSUME NEW x \in DOMAIN u, NEW y \in DOMAIN u, NEW v,
                        u[x] = Leaf(v), u[y] = Leaf(v)
                 PROVE  x = y
    BY <1>11 DEF Single
  <2>2. ASSUME x \in DOMAIN t, y \in DOMAIN t, t[x] = Leaf(v), t[y] = Leaf(v)
        PROVE  x = y
    BY <2>2, LeafIs DEF Tree, Single
  <2> QED BY <1>8, <1>9, <1>10, <2>1, <2>2
<1>13. \E n \in Nat : \A x \in DOMAIN u : Len(x) <= n
  <2>1. PICK n \in Nat : \A x \in DOMAIN t : Len(x) <= n
    BY DEF Tree
  <2>2. \A x \in DOMAIN u : x \in Paths /\ Len(x) \in Nat
    BY <1>6, LenProperties DEF Paths
  <2>3. \A x \in DOMAIN u : Len(x) <= n + 1
    BY <1>1, <1>2, <1>5, <2>1, <2>2
  <2>4. n + 1 \in Nat
    OBVIOUS
  <2> QED BY <2>3, <2>4
<1>14. Tree(u)
  BY <1>6, <1>7, <1>12, <1>13 DEF Tree
<1>15. \A v : v \in Leaves(u) <=> v \in Leaves(t) \/ v = w
  <2>1. \A v : v \in Leaves(u) <=> \E x \in DOMAIN u : u[x] = Leaf(v)
    BY <1>14, LeavesIn
  <2>2. \A v : v \in Leaves(t) <=> \E x \in DOMAIN t : t[x] = Leaf(v)
    BY LeavesIn
  <2>3. \A v : t[p] = Leaf(v) => v = a
    BY <1>1, LeafIs
  <2> QED BY <1>1, <1>5, <1>8, <2>1, <2>2, <2>3
<1> QED BY <1>14, <1>15 DEF u, a

\* The tree always has a leaf on its right rim.
LEMMA RightmostIs ==
  ASSUME NEW t, Tree(t), t # EmptyTree
  PROVE  Rightmost(t) \in LeafPaths(t)
<1> DEFINE Rim(p) == \A i \in DOMAIN p : p[i] = 2
           L == {Len(p) : p \in {x \in DOMAIN t : Rim(x)}}
<1>1. \A p \in DOMAIN t : p \in Paths /\ Len(p) \in Nat
  BY LenProperties DEF Tree, Paths
<1>2. DOMAIN t # {}
  <2>1. t \in [DOMAIN t -> Nodes]
    BY DEF Tree
  <2> QED BY <2>1 DEF EmptyTree
<1>3. <<>> \in DOMAIN t /\ Rim(<<>>)
  BY <1>2, RootIs
<1>4. L \subseteq Nat /\ L # {}
  BY <1>1, <1>3
<1>5. PICK n \in Nat : \A p \in DOMAIN t : Len(p) <= n
  BY DEF Tree
<1>6. PICK m \in L : \A k \in L : k <= m
  <2>1. \A k \in L : k <= n
    BY <1>5
  <2> HIDE DEF L
  <2> QED BY <1>4, <2>1, GreatestIs
<1>7. PICK p \in DOMAIN t : Rim(p) /\ Len(p) = m
  BY <1>6
<1>8. IsLeaf(t[p])
  <2>1. SUFFICES ASSUME ~IsLeaf(t[p]) PROVE FALSE
    OBVIOUS
  <2>2. Append(p, 2) \in DOMAIN t /\ Len(Append(p, 2)) = Len(p) + 1
    BY <1>1, <2>1, OneStep DEF Tree, Branching
  <2>3. Rim(Append(p, 2))
    <3>1. /\ DOMAIN Append(p, 2) = 1 .. Len(p) + 1 /\ DOMAIN p = 1 .. Len(p)
          /\ \A i \in 1 .. Len(p) : Append(p, 2)[i] = p[i]
          /\ Append(p, 2)[Len(p) + 1] = 2
      BY <1>1, <2>2, AppendProperties, LenProperties DEF Paths
    <3> QED BY <1>1, <1>7, <3>1
  <2>4. Len(p) + 1 \in L
    BY <2>2, <2>3
  <2> QED BY <1>1, <1>6, <1>7, <2>4
<1>9. p \in LeafPaths(t) /\ \A i \in DOMAIN p : p[i] = 2
  BY <1>7, <1>8 DEF LeafPaths
<1> QED BY <1>9 DEF Rightmost

LEMMA InsertTree ==
  ASSUME NEW t, Tree(t), NEW w \in Windows
  PROVE  Tree(Insert(t, w)) /\ Leaves(Insert(t, w)) = Leaves(t) \cup {w}
<1>1. CASE w \in Leaves(t)
  BY <1>1 DEF Insert
<1>2. CASE w \notin Leaves(t) /\ t = EmptyTree
  <2> DEFINE u == [x \in {<<>>} |-> Leaf(w)]
  <2>1. Insert(t, w) = u
    BY <1>2 DEF Insert
  <2>2. DOMAIN u = {<<>>} /\ u[<<>>] = Leaf(w)
    OBVIOUS
  <2>3. u \in [DOMAIN u -> Nodes]
    BY LeafIs
  <2> HIDE DEF u
  <2>4. <<>> \in Paths /\ Len(<<>>) = 0
    BY EmptySeq DEF Paths
  <2>5. Branching(u) /\ Single(u)
    BY <2>2, LeafIs, OneStep DEF Branching, Single
  <2>6. \E n \in Nat : \A p \in DOMAIN u : Len(p) <= n
    BY <2>2, <2>4
  <2>7. Tree(u)
    BY <2>2, <2>3, <2>4, <2>5, <2>6 DEF Tree
  <2>8. \A v : v \in Leaves(u) <=> v = w
    BY <2>2, <2>7, LeavesIn, LeafIs
  <2>9. Leaves(t) = {}
    BY <1>2, EmptyTreeIs
  <2> QED BY <2>1, <2>7, <2>8, <2>9
<1>3. CASE w \notin Leaves(t) /\ t # EmptyTree
  <2>1. Rightmost(t) \in LeafPaths(t)
    BY <1>3, RightmostIs
  <2> QED BY <1>3, <2>1, GraftTree DEF Insert
<1> QED BY <1>1, <1>2, <1>3

-----------------------------------------------------------------------------
\* Removing.

\* What Lift makes of a tree, path by path.
LEMMA LiftIs ==
  ASSUME NEW t, Tree(t), NEW q \in Paths, NEW r \in Paths
  PROVE  LET u == Lift(t, q, r)
         IN  /\ DOMAIN u \subseteq Paths /\ u = [x \in DOMAIN u |-> u[x]]
             /\ \A z \in Paths : /\ q \o z \in DOMAIN u <=> r \o z \in DOMAIN t
                                 /\ q \o z \in DOMAIN u => u[q \o z] = t[r \o z]
             /\ \A x \in Paths : ~IsPrefix(q, x) =>
                  /\ x \in DOMAIN u <=> x \in DOMAIN t
                  /\ x \in DOMAIN u => u[x] = t[x]
<1> DEFINE up   == {q \o After(r, x) : x \in {y \in DOMAIN t : IsPrefix(r, y)}}
           rest == {x \in DOMAIN t : ~IsPrefix(q, x)}
           u    == [x \in rest \cup up |-> IF x \in up THEN t[r \o After(q, x)] ELSE t[x]]
<1>1. Lift(t, q, r) = u
  BY DEF Lift
<1>2. DOMAIN t \subseteq Paths
  BY DEF Tree
<1>3. ASSUME NEW z \in Paths PROVE q \o z \in up <=> r \o z \in DOMAIN t
  <2>1. ASSUME r \o z \in DOMAIN t PROVE q \o z \in up
    <3>1. IsPrefix(r, r \o z) /\ After(r, r \o z) = z
      BY Below
    <3> QED BY <2>1, <3>1
  <2>2. ASSUME q \o z \in up PROVE r \o z \in DOMAIN t
    <3>1. PICK x \in DOMAIN t : IsPrefix(r, x) /\ q \o z = q \o After(r, x)
      BY <2>2
    <3>2. After(r, x) \in Paths /\ x = r \o After(r, x)
      BY <1>2, <3>1, Beneath
    <3>3. \A y \in Paths : q \o z = q \o y => z = y
      BY Below
    <3>4. z = After(r, x)
      BY <3>1, <3>2, <3>3
    <3> QED BY <3>2, <3>4
  <2> QED BY <2>1, <2>2
<1>4. ASSUME NEW x \in up PROVE x \in Paths /\ IsPrefix(q, x)
  <2>1. PICK y \in DOMAIN t : IsPrefix(r, y) /\ x = q \o After(r, y)
    OBVIOUS
  <2>2. After(r, y) \in Paths
    BY <1>2, <2>1, Beneath
  <2> QED BY <2>1, <2>2, Below
<1> HIDE DEF up
<1>5. DOMAIN u = rest \cup up
  OBVIOUS
<1>6. ASSUME NEW z \in Paths
      PROVE  /\ q \o z \in DOMAIN u <=> r \o z \in DOMAIN t
             /\ q \o z \in DOMAIN u => u[q \o z] = t[r \o z]
  <2>1. IsPrefix(q, q \o z) /\ After(q, q \o z) = z
    BY Below
  <2>2. q \o z \notin rest
    BY <2>1
  <2>3. q \o z \in up => u[q \o z] = t[r \o After(q, q \o z)]
    OBVIOUS
  <2> QED BY <1>3, <1>5, <2>1, <2>2, <2>3
<1>7. ASSUME NEW x \in Paths, ~IsPrefix(q, x)
      PROVE  /\ x \in DOMAIN u <=> x \in DOMAIN t
             /\ x \in DOMAIN u => u[x] = t[x]
  <2>1. x \notin up
    BY <1>4, <1>7
  <2>2. x \in rest <=> x \in DOMAIN t
    BY <1>7
  <2> QED BY <1>5, <2>1, <2>2
<1>8. DOMAIN u \subseteq Paths /\ u = [x \in DOMAIN u |-> u[x]]
  BY <1>2, <1>4
<1> HIDE DEF u
<1> QED BY <1>1, <1>6, <1>7, <1>8

\* The sibling of w takes the place of the split above them (remove).
LEMMA RemoveTree ==
  ASSUME NEW t, Tree(t), NEW w
  PROVE  Tree(RemoveWindow(t, w)) /\ Leaves(RemoveWindow(t, w)) = Leaves(t) \ {w}
<1>1. CASE w \notin Leaves(t)
  BY <1>1 DEF RemoveWindow
<1> DEFINE p == PathOf(t, w)
<1>2. CASE w \in Leaves(t) /\ p = <<>>
  <2>1. RemoveWindow(t, w) = EmptyTree
    BY <1>2 DEF RemoveWindow
  <2>2. p \in DOMAIN t /\ t[p] = Leaf(w)
    BY <1>2, PathIs DEF LeafPaths
  <2>3. ASSUME NEW x \in DOMAIN t PROVE x = <<>>
    <3>1. x \in Paths
      BY DEF Tree
    <3>2. <<>> \in Paths /\ <<>> \o x \in DOMAIN t
      BY <3>1, EmptySeq, ConcatEmptySeq DEF Paths
    <3>3. x # <<>> => ~IsLeaf(t[<<>>])
      <4>1. \A e \in Paths : x # <<>> /\ e \o x \in DOMAIN t => ~IsLeaf(t[e])
        BY <3>1, AboveIs
      <4> QED BY <3>2, <4>1
    <3> QED BY <1>2, <2>2, <3>3, LeafIs
  <2>4. Leaves(t) \subseteq {w}
    <3>1. \A v : v \in Leaves(t) => \E x \in DOMAIN t : t[x] = Leaf(v)
      BY LeavesIn
    <3> QED BY <1>2, <2>2, <2>3, <3>1, LeafIs
  <2> QED BY <2>1, <2>4, EmptyTreeIs
<1>3. CASE w \in Leaves(t) /\ p # <<>>
  <2> DEFINE q == Front(p)
             r == Append(q, 3 - Last(p))
             u == Lift(t, q, r)
  <2>1. RemoveWindow(t, w) = u
    BY <1>3 DEF RemoveWindow
  <2>2. /\ p \in Paths /\ p \in DOMAIN t /\ t[p] = Leaf(w)
        /\ \A x \in DOMAIN t : t[x] = Leaf(w) => x = p
    BY <1>3, PathIs DEF LeafPaths
  <2>3. /\ q \in Paths /\ Last(p) \in {1, 2} /\ 3 - Last(p) \in {1, 2}
        /\ p = Append(q, Last(p)) /\ Last(p) # 3 - Last(p)
    <3>1. q \in Paths /\ Last(p) \in {1, 2} /\ p = Append(q, Last(p))
      BY <1>3, <2>2, LastStep
    <3>2. CASE Last(p) = 1
      BY <3>1, <3>2
    <3>3. CASE Last(p) = 2
      BY <3>1, <3>3
    <3> QED BY <3>1, <3>2, <3>3
  <2>4. r \in Paths
    BY <2>3, OneStep
  <2>5. q \in DOMAIN t /\ ~IsLeaf(t[q]) /\ r \in DOMAIN t
    <3>1. \A i \in {1, 2} : Append(q, i) \in DOMAIN t <=> q \in DOMAIN t /\ ~IsLeaf(t[q])
      BY <2>3 DEF Tree, Branching
    <3>2. Append(q, Last(p)) \in DOMAIN t
      BY <2>2, <2>3
    <3> HIDE DEF q, p
    <3> QED BY <2>3, <3>1, <3>2
  <2>6. \A x \in Paths, i \in {1, 2} : Append(x, i) \in DOMAIN t <=> x \in DOMAIN t /\ ~IsLeaf(t[x])
    BY DEF Tree, Branching
  <2>7. \A i \in {1, 2} : Append(q, i) \in {p, r}
    BY <2>3
  <2>8. ASSUME NEW x \in DOMAIN t, IsPrefix(q, x)
        PROVE  x = q \/ x = p \/ \E z \in Paths : x = r \o z
    <3>1. PICK y \in Paths : x = q \o y
      BY <2>3, <2>8, Beneath DEF Tree
    <3>2. CASE y = <<>>
      BY <2>3, <3>1, <3>2, Below
    <3>3. CASE y # <<>>
      <4>1. PICK i \in {1, 2}, z \in Paths : y = <<i>> \o z
        <5>1. Head(y) \in {1, 2} /\ Tail(y) \in Paths
          BY <3>3, HeadTailProperties DEF Paths
        <5>2. y = <<Head(y)>> \o Tail(y)
          <6>1. /\ Len(y) \in Nat /\ Len(y) # 0 /\ Tail(y) = SubSeq(y, 2, Len(y))
                /\ SubSeq(y, 1, Len(y)) = y /\ Head(y) = y[1]
            BY <3>3, EmptySeq, LenProperties, TailIsSubSeq, SubSeqFull DEF Paths
          <6>2. 1 \in 1 .. Len(y) /\ Len(y) \in 1 .. Len(y)
            BY <6>1
          <6>3. SubSeq(y, 1, Len(y)) = <<y[1]>> \o SubSeq(y, 1 + 1, Len(y))
            BY <6>2, SubSeqRecursiveFirst DEF Paths
          <6> QED BY <6>1, <6>3
        <5> QED BY <5>1, <5>2
      <4>2. x = Append(q, i) \o z
        <5>1. <<i>> \in Paths /\ Append(q, i) = q \o <<i>>
          BY <2>3, AppendIsConcat DEF Paths
        <5>2. (q \o <<i>>) \o z = q \o (<<i>> \o z)
          BY <2>3, <5>1, ConcatAssociative DEF Paths
        <5> QED BY <3>1, <4>1, <5>1, <5>2
      <4>3. CASE Append(q, i) = r
        BY <4>2, <4>3
      <4>4. CASE Append(q, i) = p
        <5>1. z # <<>> => ~IsLeaf(t[p])
          BY <2>2, <4>2, <4>4, AboveIs
        <5>2. z = <<>>
          BY <2>2, <5>1, LeafIs
        <5> QED BY <2>2, <4>2, <4>4, <5>2, Below
      <4> QED BY <2>7, <4>3, <4>4
    <3> QED BY <3>2, <3>3
  <2> HIDE DEF p, q, r, u
  <2>9. /\ DOMAIN u \subseteq Paths /\ u = [x \in DOMAIN u |-> u[x]]
        /\ \A z \in Paths : /\ q \o z \in DOMAIN u <=> r \o z \in DOMAIN t
                            /\ q \o z \in DOMAIN u => u[q \o z] = t[r \o z]
        /\ \A x \in Paths : ~IsPrefix(q, x) =>
             /\ x \in DOMAIN u <=> x \in DOMAIN t
             /\ x \in DOMAIN u => u[x] = t[x]
    BY <2>3, <2>4, LiftIs DEF u
  <2> DEFINE from(x) == IF IsPrefix(q, x) THEN r \o After(q, x) ELSE x
  \* u has at x what t has at from(x).
  <2>10. ASSUME NEW x \in Paths
         PROVE  /\ from(x) \in Paths
                /\ x \in DOMAIN u <=> from(x) \in DOMAIN t
                /\ x \in DOMAIN u => u[x] = t[from(x)]
    <3>1. CASE IsPrefix(q, x)
      <4>1. After(q, x) \in Paths /\ x = q \o After(q, x)
        BY <2>3, <3>1, Beneath
      <4>2. r \o After(q, x) \in Paths
        BY <2>4, <4>1, Below
      <4> QED BY <2>9, <3>1, <4>1, <4>2
    <3>2. CASE ~IsPrefix(q, x)
      BY <2>9, <3>2
    <3> QED BY <3>1, <3>2
  <2>11. ASSUME NEW z \in Paths PROVE q \o z \in Paths /\ from(q \o z) = r \o z
    BY <2>3, Below
  <2>12. ASSUME NEW x \in Paths, ~IsPrefix(q, x) PROVE from(x) = x
    BY <2>12
  <2>13. IsPrefix(q, r) /\ IsPrefix(q, p) /\ Len(r) = Len(q) + 1 /\ Len(p) = Len(q) + 1
    <3>1. IsPrefix(q, q)
      BY DEF IsPrefix
    <3>2. \A i \in {1, 2} : IsPrefix(q, Append(q, i)) /\ Len(Append(q, i)) = Len(q) + 1
      BY <2>3, <3>1, StepTo, OneStep
    <3>3. r = Append(q, 3 - Last(p))
      BY DEF r
    <3> QED BY <2>3, <3>2, <3>3
  <2>14. ASSUME NEW z \in Paths PROVE IsPrefix(q, r \o z)
    <3>1. PICK y \in Paths : r = q \o y
      BY <2>3, <2>4, <2>13, Beneath
    <3>2. r \o z = q \o (y \o z) /\ y \o z \in Paths
      <4>1. y \o z \in Paths
        BY Below
      <4>2. (q \o y) \o z = q \o (y \o z)
        BY <2>3, ConcatAssociative DEF Paths
      <4> QED BY <3>1, <4>1, <4>2
    <3> QED BY <2>3, <3>2, Below
  <2>15. ASSUME NEW x \in Paths, NEW y \in Paths, from(x) = from(y) PROVE x = y
    <3>1. ASSUME NEW v \in Paths, NEW z \in Paths, IsPrefix(q, v), ~IsPrefix(q, z)
          PROVE  from(v) # from(z)
      <4>1. After(q, v) \in Paths
        BY <2>3, <3>1, Beneath
      <4> QED BY <2>14, <3>1, <4>1
    <3>2. CASE IsPrefix(q, x) /\ IsPrefix(q, y)
      <4>1. /\ After(q, x) \in Paths /\ x = q \o After(q, x)
            /\ After(q, y) \in Paths /\ y = q \o After(q, y)
        BY <2>3, <3>2, Beneath
      <4>2. r \o After(q, x) = r \o After(q, y)
        BY <2>15, <3>2
      <4>3. After(q, x) = After(q, y)
        BY <2>4, <4>1, <4>2, Below
      <4> QED BY <4>1, <4>3
    <3>3. CASE ~IsPrefix(q, x) /\ ~IsPrefix(q, y)
      BY <2>15, <3>3
    <3> QED BY <2>15, <3>1, <3>2, <3>3
  <2>16. ASSUME NEW x \in Paths PROVE from(x) # p
    <3>1. CASE IsPrefix(q, x)
      <4>1. PICK z \in Paths : from(x) = r \o z
        BY <2>3, <3>1, Beneath
      <4>2. Len(r \o z) = Len(r) + Len(z) /\ Len(z) \in Nat /\ Len(r) \in Nat
        BY <2>4, Below, LenProperties DEF Paths
      <4>3. r \o z = p => z = <<>>
        <5>1. r \o z = p => Len(z) = 0
          BY <2>13, <4>2
        <5> QED BY <5>1, EmptySeq DEF Paths
      <4>4. r \o <<>> = r /\ r # p
        <5>1. r # p
          BY <2>3, OneStep DEF r
        <5> QED BY <2>4, <5>1, Below
      <4> QED BY <4>1, <4>3, <4>4
    <3>2. CASE ~IsPrefix(q, x)
      BY <2>13, <3>2
    <3> QED BY <3>1, <3>2
  <2>17. ASSUME NEW y \in DOMAIN t, IsLeaf(t[y]), y # p
         PROVE  \E x \in DOMAIN u : y = from(x)
    <3>1. y \in Paths
      BY DEF Tree
    <3>2. CASE ~IsPrefix(q, y)
      BY <2>9, <2>12, <3>1, <3>2
    <3>3. CASE IsPrefix(q, y)
      <4>1. PICK z \in Paths : y = r \o z
        BY <2>5, <2>8, <2>17, <3>3
      <4>2. q \o z \in DOMAIN u
        BY <2>9, <4>1
      <4> QED BY <2>11, <4>1, <4>2
    <3> QED BY <3>2, <3>3
  <2>18. Branching(u)
    <3>1. SUFFICES ASSUME NEW x \in Paths, NEW i \in {1, 2}
                   PROVE  Append(x, i) \in DOMAIN u <=> x \in DOMAIN u /\ ~IsLeaf(u[x])
      BY DEF Branching
    <3>2. Append(x, i) \in Paths
      BY OneStep
    <3>3. from(Append(x, i)) = Append(from(x), i) =>
            (Append(x, i) \in DOMAIN u <=> x \in DOMAIN u /\ ~IsLeaf(u[x]))
      <4>1. /\ from(x) \in Paths /\ (x \in DOMAIN u <=> from(x) \in DOMAIN t)
            /\ (x \in DOMAIN u => u[x] = t[from(x)])
        BY <2>10
      <4>2. Append(x, i) \in DOMAIN u <=> from(Append(x, i)) \in DOMAIN t
        BY <2>10, <3>2
      <4> HIDE DEF from
      <4> QED BY <2>6, <4>1, <4>2
    <3>4. CASE IsPrefix(q, x)
      <4>1. PICK z \in Paths : x = q \o z
        BY <2>3, <3>4, Beneath
      <4>2. Append(z, i) \in Paths
        BY OneStep
      <4>3. Append(x, i) = q \o Append(z, i)
        BY <2>3, <4>1, BelowStep
      <4>4. Append(r \o z, i) = r \o Append(z, i)
        BY <2>4, BelowStep
      <4>5. from(x) = r \o z /\ from(Append(x, i)) = r \o Append(z, i)
        BY <2>11, <4>1, <4>2, <4>3
      <4> QED BY <3>3, <4>4, <4>5
    <3>5. CASE ~IsPrefix(q, x) /\ q # Append(x, i)
      <4>1. ~IsPrefix(q, Append(x, i))
        BY <2>3, <3>5, StepTo
      <4> QED BY <2>12, <3>2, <3>3, <3>5, <4>1
    <3>6. CASE ~IsPrefix(q, x) /\ q = Append(x, i)
      <4>1. x \in DOMAIN t /\ ~IsLeaf(t[x])
        BY <2>5, <2>6, <3>6
      <4>2. x \in DOMAIN u /\ ~IsLeaf(u[x])
        BY <2>9, <3>6, <4>1
      <4>3. q \o <<>> = q /\ r \o <<>> = r /\ <<>> \in Paths
        <5>1. <<>> \in Paths
          BY EmptySeq DEF Paths
        <5> QED BY <2>3, <2>4, <5>1, Below
      <4>4. q \in DOMAIN u
        BY <2>5, <2>9, <4>3
      <4> QED BY <3>6, <4>2, <4>4
    <3> QED BY <3>4, <3>5, <3>6
  <2>19. u \in [DOMAIN u -> Nodes]
    <3>1. \A x \in DOMAIN t : t[x] \in Nodes
      BY DEF Tree
    <3>2. \A x \in DOMAIN u : x \in Paths
      BY <2>9
    <3>3. \A x \in DOMAIN u : u[x] \in Nodes
      BY <2>10, <3>1, <3>2
    <3>4. u = [x \in DOMAIN u |-> u[x]]
      BY <2>9
    <3> HIDE DEF from
    <3> QED BY <3>3, <3>4
  <2>20. Single(u)
    <3>1. SUFFICES ASSUME NEW x \in DOMAIN u, NEW y \in DOMAIN u, IsLeaf(u[x]), u[x] = u[y]
                   PROVE  x = y
      BY DEF Single
    <3>2. /\ x \in Paths /\ from(x) \in DOMAIN t /\ u[x] = t[from(x)]
          /\ y \in Paths /\ from(y) \in DOMAIN t /\ u[y] = t[from(y)]
      BY <2>9, <2>10
    <3> HIDE DEF from
    <3>3. from(x) = from(y)
      BY <3>1, <3>2 DEF Tree, Single
    <3> QED BY <2>15, <3>2, <3>3
  <2>21. \E n \in Nat : \A x \in DOMAIN u : Len(x) <= n
    <3>1. PICK n \in Nat : \A x \in DOMAIN t : Len(x) <= n
      BY DEF Tree
    <3>2. ASSUME NEW x \in DOMAIN u PROVE Len(x) <= n
      <4>1. x \in Paths /\ from(x) \in DOMAIN t /\ Len(x) \in Nat
        BY <2>9, <2>10, LenProperties DEF Paths
      <4>2. CASE IsPrefix(q, x)
        <5>1. PICK z \in Paths : x = q \o z
          BY <2>3, <4>1, <4>2, Beneath
        <5>2. from(x) = r \o z
          BY <2>11, <5>1
        <5>3. /\ Len(r \o z) = Len(r) + Len(z) /\ Len(x) = Len(q) + Len(z)
              /\ Len(q) \in Nat /\ Len(z) \in Nat
          BY <2>3, <2>4, <5>1, Below, LenProperties DEF Paths
        <5>4. Len(r \o z) <= n
          BY <3>1, <4>1, <5>2
        <5> QED BY <2>13, <5>3, <5>4
      <4>3. CASE ~IsPrefix(q, x)
        BY <2>12, <3>1, <4>1, <4>3
      <4> QED BY <4>2, <4>3
    <3> QED BY <3>2
  <2>22. Tree(u)
    BY <2>9, <2>18, <2>19, <2>20, <2>21 DEF Tree
  <2>23. \A v : v \in Leaves(u) <=> v \in Leaves(t) /\ v # w
    <3>1. \A v : v \in Leaves(u) <=> \E x \in DOMAIN u : u[x] = Leaf(v)
      BY <2>22, LeavesIn
    <3>2. \A v : v \in Leaves(t) <=> \E x \in DOMAIN t : t[x] = Leaf(v)
      BY LeavesIn
    <3>3. ASSUME NEW v, NEW x \in DOMAIN u, u[x] = Leaf(v)
          PROVE  v \in Leaves(t) /\ v # w
      <4>1. x \in Paths /\ from(x) \in DOMAIN t /\ t[from(x)] = Leaf(v) /\ from(x) # p
        BY <2>9, <2>10, <2>16, <3>3
      <4> HIDE DEF from
      <4> QED BY <2>2, <3>2, <4>1
    <3>4. ASSUME NEW v, NEW y \in DOMAIN t, t[y] = Leaf(v), v # w
          PROVE  \E x \in DOMAIN u : u[x] = Leaf(v)
      <4>1. IsLeaf(t[y]) /\ y # p
        BY <2>2, <3>4, LeafIs
      <4>2. PICK x \in DOMAIN u : y = from(x)
        BY <2>17, <4>1
      <4>3. x \in Paths
        BY <2>9
      <4>4. u[x] = t[from(x)]
        BY <2>10, <4>3
      <4> HIDE DEF from
      <4> QED BY <3>4, <4>2, <4>4
    <3> QED BY <3>1, <3>2, <3>3, <3>4
  <2>24. Leaves(u) = Leaves(t) \ {w}
    BY <2>23
  <2> QED BY <2>1, <2>22, <2>24 DEF u, q, r, p
<1> QED BY <1>1, <1>2, <1>3

-----------------------------------------------------------------------------
\* Rearranging.

\* Splits change their axes or ratios.
LEMMA SplitsChange ==
  ASSUME NEW t, Tree(t), NEW u \in [DOMAIN t -> Nodes],
         \A p \in DOMAIN t : IF IsLeaf(t[p]) THEN u[p] = t[p] ELSE ~IsLeaf(u[p])
  PROVE  Tree(u) /\ Leaves(u) = Leaves(t)
<1>1. DOMAIN u = DOMAIN t /\ \A p \in DOMAIN t : IsLeaf(u[p]) <=> IsLeaf(t[p])
  OBVIOUS
<1>2. Branching(u)
  BY <1>1 DEF Tree, Branching
<1>3. Single(u)
  BY <1>1 DEF Tree, Single
<1>4. Tree(u)
  BY <1>1, <1>2, <1>3 DEF Tree
<1>5. LeafPaths(u) = LeafPaths(t) /\ \A p \in LeafPaths(t) : u[p] = t[p]
  BY <1>1 DEF LeafPaths
<1> QED BY <1>4, <1>5 DEF Leaves

LEMMA ClampIs == \A r \in Int : ClampRatio(r) \in 1 .. 9
  BY DEF ClampRatio

LEMMA BalanceTree ==
  ASSUME NEW t, Tree(t)
  PROVE  /\ Tree(Balance(t)) /\ Leaves(Balance(t)) = Leaves(t)
         /\ Tree(Rotate(t)) /\ Leaves(Rotate(t)) = Leaves(t)
<1>1. \A p \in DOMAIN t : t[p] \in Nodes
  BY DEF Tree
<1>2. ASSUME NEW p \in DOMAIN t, ~IsLeaf(t[p])
      PROVE  /\ [t[p] EXCEPT !.ratio = 5] \in Nodes /\ ~IsLeaf([t[p] EXCEPT !.ratio = 5])
             /\ [t[p] EXCEPT !.axis = Flip(@)] \in Nodes
             /\ ~IsLeaf([t[p] EXCEPT !.axis = Flip(@)])
  <2>1. t[p] \in [axis : Axes, ratio : 1 .. 9]
    BY <1>1, <1>2, NodeIs
  <2>2. [t[p] EXCEPT !.ratio = 5] \in [axis : Axes, ratio : 1 .. 9]
    BY <2>1
  <2>3. Flip(t[p].axis) \in Axes
    BY DEF Flip, Axes
  <2>4. [t[p] EXCEPT !.axis = Flip(@)] \in [axis : Axes, ratio : 1 .. 9]
    BY <2>1, <2>3
  <2>5. \A n \in [axis : Axes, ratio : 1 .. 9] : n \in Nodes /\ ~IsLeaf(n)
    BY DEF Nodes, IsLeaf
  <2> QED BY <2>2, <2>4, <2>5
<1>3. /\ Balance(t) \in [DOMAIN t -> Nodes]
      /\ \A p \in DOMAIN t : IF IsLeaf(t[p]) THEN Balance(t)[p] = t[p] ELSE ~IsLeaf(Balance(t)[p])
  BY <1>1, <1>2 DEF Balance
<1>4. /\ Rotate(t) \in [DOMAIN t -> Nodes]
      /\ \A p \in DOMAIN t : IF IsLeaf(t[p]) THEN Rotate(t)[p] = t[p] ELSE ~IsLeaf(Rotate(t)[p])
  BY <1>1, <1>2 DEF Rotate
<1> QED BY <1>3, <1>4, SplitsChange

\* One split gets another ratio.
LEMMA RatioTree ==
  ASSUME NEW t, Tree(t), NEW q \in DOMAIN t, ~IsLeaf(t[q]), NEW r \in 1 .. 9
  PROVE  LET u == [t EXCEPT ![q].ratio = r]
         IN  Tree(u) /\ Leaves(u) = Leaves(t)
<1> DEFINE u == [t EXCEPT ![q].ratio = r]
<1>1. \A p \in DOMAIN t : t[p] \in Nodes
  BY DEF Tree
<1>2. [t[q] EXCEPT !.ratio = r] \in [axis : Axes, ratio : 1 .. 9]
  <2>1. t[q] \in [axis : Axes, ratio : 1 .. 9]
    BY <1>1, NodeIs
  <2> QED BY <2>1
<1>3. [t[q] EXCEPT !.ratio = r] \in Nodes /\ ~IsLeaf([t[q] EXCEPT !.ratio = r])
  BY <1>2 DEF Nodes, IsLeaf
<1>4. /\ u \in [DOMAIN t -> Nodes]
      /\ \A p \in DOMAIN t : IF IsLeaf(t[p]) THEN u[p] = t[p] ELSE ~IsLeaf(u[p])
  <2>1. u = [p \in DOMAIN t |-> IF p = q THEN [t[q] EXCEPT !.ratio = r] ELSE t[p]]
    BY DEF Tree
  <2> QED BY <1>1, <1>3, <2>1
<1> HIDE DEF u
<1>5. Tree(u) /\ Leaves(u) = Leaves(t)
  BY <1>4, SplitsChange
<1> QED BY <1>5 DEF u

LEMMA SetRatioTree ==
  ASSUME NEW t, Tree(t), NEW r \in Int
  PROVE  Tree(SetRatio(t, r)) /\ Leaves(SetRatio(t, r)) = Leaves(t)
<1>1. ClampRatio(r) \in 1 .. 9
  BY ClampIs
<1>2. CASE <<>> \in DOMAIN t /\ ~IsLeaf(t[<<>>])
  BY <1>1, <1>2, RatioTree DEF SetRatio
<1>3. CASE ~(<<>> \in DOMAIN t /\ ~IsLeaf(t[<<>>]))
  BY <1>3 DEF SetRatio
<1> QED BY <1>2, <1>3

\* The boundary that moves is one of those that face the edge.
LEMMA NearestIs ==
  ASSUME NEW t, Tree(t), NEW w \in Leaves(t), NEW edge, Facing(t, w, edge) # {}
  PROVE  LET q == Nearest(Facing(t, w, edge))
         IN  /\ q \in Facing(t, w, edge) /\ q \in DOMAIN t /\ ~IsLeaf(t[q])
             /\ \A x \in Facing(t, w, edge) : Len(x) <= Len(q)
<1> DEFINE Q == Facing(t, w, edge)
           L == {Len(x) : x \in Q}
<1>1. Q \subseteq DOMAIN t /\ \A x \in Q : IsStrictPrefix(x, PathOf(t, w))
  BY DEF Facing
<1>2. \A x \in Q : x \in Paths /\ Len(x) \in Nat
  BY <1>1, LenProperties DEF Tree, Paths
<1>3. PICK n \in Nat : \A x \in DOMAIN t : Len(x) <= n
  BY DEF Tree
<1> HIDE DEF Q
<1>4. L \subseteq Nat /\ L # {} /\ \A k \in L : k <= n
  BY <1>1, <1>2, <1>3 DEF Q
<1>5. PICK m \in L : \A k \in L : k <= m
  <2> HIDE DEF L
  <2> QED BY <1>4, GreatestIs
<1>6. \E q \in Q : \A x \in Q : Len(x) <= Len(q)
  BY <1>5
<1>7. PICK q : q = Nearest(Q)
  OBVIOUS
<1>8. q \in Q /\ \A x \in Q : Len(x) <= Len(q)
  BY <1>6, <1>7 DEF Nearest
<1>9. ~IsLeaf(t[q])
  <2>1. q \in Paths /\ PathOf(t, w) \in Paths /\ PathOf(t, w) \in DOMAIN t
        /\ IsPrefix(q, PathOf(t, w)) /\ q # PathOf(t, w)
    BY <1>1, <1>2, <1>8, PathIs DEF IsStrictPrefix, LeafPaths
  <2>2. PICK z \in Paths : PathOf(t, w) = q \o z
    BY <2>1, Beneath
  <2>3. z # <<>>
    BY <2>1, <2>2, Below
  <2> QED BY <2>1, <2>2, <2>3, AboveIs
<1> QED BY <1>1, <1>7, <1>8, <1>9 DEF Q

LEMMA ResizeTree ==
  ASSUME NEW t, Tree(t), NEW w \in Leaves(t), NEW edge, NEW delta \in Int
  PROVE  /\ Tree(ResizeEdge(t, w, edge, delta))
         /\ Leaves(ResizeEdge(t, w, edge, delta)) = Leaves(t)
<1>1. CASE Facing(t, w, edge) = {}
  BY <1>1 DEF ResizeEdge
<1>2. CASE Facing(t, w, edge) # {}
  <2>1. PICK q : q = Nearest(Facing(t, w, edge))
    OBVIOUS
  <2>2. q \in DOMAIN t /\ ~IsLeaf(t[q])
    BY <1>2, <2>1, NearestIs
  <2>3. t[q].ratio \in Int
    BY <2>2, NodeIs DEF Tree
  <2> DEFINE r == ClampRatio(t[q].ratio + (IF edge \in {"east", "south"} THEN delta ELSE -delta))
  <2>4. r \in 1 .. 9
    BY <2>3, ClampIs
  <2>5. ResizeEdge(t, w, edge, delta) = [t EXCEPT ![q].ratio = r]
    BY <1>2, <2>1 DEF ResizeEdge
  <2> HIDE DEF r
  <2>6. Tree([t EXCEPT ![q].ratio = r]) /\ Leaves([t EXCEPT ![q].ratio = r]) = Leaves(t)
    BY <2>2, <2>4, RatioTree
  <2> QED BY <2>5, <2>6
<1> QED BY <1>1, <1>2

LEMMA SwapTree ==
  ASSUME NEW t, Tree(t), NEW a \in Leaves(t), NEW b \in Leaves(t)
  PROVE  Tree(Swap(t, a, b)) /\ Leaves(Swap(t, a, b)) = Leaves(t)
<1> DEFINE u == Swap(t, a, b)
           sw(v) == IF v = a THEN b ELSE IF v = b THEN a ELSE v
<1>1. a \in Windows /\ b \in Windows
  BY LeavesIn
<1>2. \A p \in DOMAIN t : t[p] \in Nodes
  BY DEF Tree
<1>3. u = [p \in DOMAIN t |-> IF t[p] = Leaf(a) THEN Leaf(b)
                              ELSE IF t[p] = Leaf(b) THEN Leaf(a) ELSE t[p]]
  BY DEF Swap
<1> HIDE DEF u
<1>4. DOMAIN u = DOMAIN t /\ u \in [DOMAIN u -> Nodes]
  BY <1>1, <1>2, <1>3, LeafIs
<1>5. \A p \in DOMAIN t : /\ IsLeaf(u[p]) <=> IsLeaf(t[p])
                          /\ \A v : u[p] = Leaf(v) <=> t[p] = Leaf(sw(v))
  BY <1>3, LeafIs
<1>6. Branching(u)
  BY <1>4, <1>5 DEF Tree, Branching
<1>7. Single(u)
  <2>1. SUFFICES ASSUME NEW p \in DOMAIN u, NEW q \in DOMAIN u, IsLeaf(u[p]), u[p] = u[q]
                 PROVE  p = q
    BY DEF Single
  <2>2. PICK v : u[p] = Leaf(v)
    BY <1>4, <2>1, NodeIs
  <2>3. t[p] = Leaf(sw(v)) /\ t[q] = Leaf(sw(v))
    BY <1>4, <1>5, <2>1, <2>2
  <2> HIDE DEF sw
  <2> QED BY <1>4, <2>3, LeafIs DEF Tree, Single
<1>8. Tree(u)
  BY <1>4, <1>6, <1>7 DEF Tree
<1>9. \A v : v \in Leaves(u) <=> v \in Leaves(t)
  <2>1. \A v : v \in Leaves(u) <=> \E p \in DOMAIN t : u[p] = Leaf(v)
    BY <1>4, <1>8, LeavesIn
  <2>2. \A v : v \in Leaves(t) <=> \E p \in DOMAIN t : t[p] = Leaf(v)
    BY LeavesIn
  <2>3. \A v : v \in Leaves(u) <=> sw(v) \in Leaves(t)
    BY <1>5, <2>1, <2>2
  <2> QED BY <2>3
<1> QED BY <1>8, <1>9 DEF u

\* w becomes the right sibling of target, wherever it was.
LEMMA WarpTree ==
  ASSUME NEW t, Tree(t), NEW target \in Leaves(t), NEW w \in Windows, w # target
  PROVE  Tree(Warp(t, w, target)) /\ Leaves(Warp(t, w, target)) = Leaves(t) \cup {w}
<1> DEFINE u == RemoveWindow(t, w)
<1>1. Tree(u) /\ Leaves(u) = Leaves(t) \ {w}
  BY RemoveTree
<1>2. Warp(t, w, target) = Graft(u, PathOf(u, target), target, w)
  BY DEF Warp
<1> HIDE DEF u
<1>3. target \in Leaves(u) /\ w \notin Leaves(u)
  BY <1>1
<1>4. PathOf(u, target) \in LeafPaths(u) /\ u[PathOf(u, target)].win = target
  BY <1>1, <1>3, PathIs, LeafIs
<1>5. /\ Tree(Graft(u, PathOf(u, target), target, w))
      /\ Leaves(Graft(u, PathOf(u, target), target, w)) = Leaves(u) \cup {w}
  BY <1>1, <1>3, <1>4, GraftTree
<1> QED BY <1>1, <1>2, <1>5

\* Both children change sides everywhere.
LEMMA MirrorTree ==
  ASSUME NEW t, Tree(t)
  PROVE  Tree(Mirror(t)) /\ Leaves(Mirror(t)) = Leaves(t)
<1> DEFINE other(p) == [i \in DOMAIN p |-> 3 - p[i]]
           u == Mirror(t)
<1>1. ASSUME NEW p \in Paths
      PROVE  /\ other(p) \in Paths /\ Len(other(p)) = Len(p) /\ other(other(p)) = p
  <2>1. p \in [1 .. Len(p) -> {1, 2}] /\ Len(p) \in Nat /\ DOMAIN p = 1 .. Len(p)
    BY LenProperties DEF Paths
  <2>2. \A i \in 1 .. Len(p) : p[i] \in {1, 2}
    BY <2>1
  <2>3. other(p) \in [1 .. Len(p) -> {1, 2}]
    BY <2>1, <2>2
  <2>4. other(p) \in Seq({1, 2}) /\ Len(other(p)) = Len(p)
    BY <2>1, <2>3
  <2>5. other(other(p)) = [i \in 1 .. Len(p) |-> 3 - (3 - p[i])]
    BY <2>1
  <2>6. \A i \in 1 .. Len(p) : 3 - (3 - p[i]) = p[i]
    BY <2>2
  <2>7. other(other(p)) = p
    BY <2>1, <2>5, <2>6
  <2> QED BY <2>4, <2>7 DEF Paths
<1>2. ASSUME NEW p \in Paths, NEW i \in {1, 2}
      PROVE  3 - i \in {1, 2} /\ other(Append(p, i)) = Append(other(p), 3 - i)
  <2>1. 3 - i \in {1, 2}
    OBVIOUS
  <2>2. /\ Append(p, i) \in Paths /\ other(p) \in Paths /\ Len(other(p)) = Len(p)
        /\ other(Append(p, i)) \in Paths /\ Append(other(p), 3 - i) \in Paths
        /\ Len(other(Append(p, i))) = Len(p) + 1
        /\ Len(Append(other(p), 3 - i)) = Len(p) + 1
        /\ Len(p) \in Nat
    BY <1>1, <2>1, OneStep, LenProperties DEF Paths
  <2>3. \A k \in 1 .. Len(p) + 1 : other(Append(p, i))[k] = Append(other(p), 3 - i)[k]
    <3>1. /\ \A k \in 1 .. Len(p) : Append(p, i)[k] = p[k]
          /\ Append(p, i)[Len(p) + 1] = i
          /\ DOMAIN Append(p, i) = 1 .. Len(p) + 1 /\ DOMAIN p = 1 .. Len(p)
      BY <2>2, AppendProperties, LenProperties, OneStep DEF Paths
    <3>2. /\ \A k \in 1 .. Len(p) : Append(other(p), 3 - i)[k] = other(p)[k]
          /\ Append(other(p), 3 - i)[Len(p) + 1] = 3 - i
      BY <2>1, <2>2, AppendProperties DEF Paths
    <3> QED BY <2>2, <3>1, <3>2
  <2> HIDE DEF other
  <2> QED BY <2>1, <2>2, <2>3, SeqEqual DEF Paths
<1>3. u = [p \in {other(x) : x \in DOMAIN t} |-> t[other(p)]]
  BY DEF Mirror
<1> HIDE DEF u, other
<1>4. \A p : p \in DOMAIN u <=> p \in Paths /\ other(p) \in DOMAIN t
  <2>1. DOMAIN t \subseteq Paths
    BY DEF Tree
  <2> QED BY <1>1, <1>3, <2>1
<1>5. \A p \in DOMAIN u : u[p] = t[other(p)]
  BY <1>3
<1>6. u \in [DOMAIN u -> Nodes] /\ DOMAIN u \subseteq Paths
  <2>1. \A p \in DOMAIN u : u[p] \in Nodes
    BY <1>4, <1>5 DEF Tree
  <2> QED BY <1>3, <1>4, <2>1
<1>7. Branching(u)
  <2>1. SUFFICES ASSUME NEW p \in Paths, NEW i \in {1, 2}
                 PROVE  Append(p, i) \in DOMAIN u <=> p \in DOMAIN u /\ ~IsLeaf(u[p])
    BY DEF Branching
  <2>2. Append(p, i) \in DOMAIN u <=> other(Append(p, i)) \in DOMAIN t
    BY <1>4, OneStep
  <2>3. other(p) \in Paths /\ 3 - i \in {1, 2} /\ other(Append(p, i)) = Append(other(p), 3 - i)
    BY <1>1, <1>2
  <2>4. Append(other(p), 3 - i) \in DOMAIN t <=> other(p) \in DOMAIN t /\ ~IsLeaf(t[other(p)])
    BY <2>3 DEF Tree, Branching
  <2> QED BY <1>4, <1>5, <2>2, <2>3, <2>4
<1>8. Single(u)
  <2>1. SUFFICES ASSUME NEW p \in DOMAIN u, NEW q \in DOMAIN u, IsLeaf(u[p]), u[p] = u[q]
                 PROVE  p = q
    BY DEF Single
  <2>2. other(p) = other(q)
    BY <1>4, <1>5, <2>1 DEF Tree, Single
  <2>3. other(other(p)) = p /\ other(other(q)) = q
    BY <1>1, <1>4
  <2> QED BY <2>2, <2>3
<1>9. \E n \in Nat : \A p \in DOMAIN u : Len(p) <= n
  <2>1. PICK n \in Nat : \A p \in DOMAIN t : Len(p) <= n
    BY DEF Tree
  <2>2. \A p \in DOMAIN u : Len(p) <= n
    BY <1>1, <1>4, <2>1
  <2> QED BY <2>2
<1>10. Tree(u)
  BY <1>6, <1>7, <1>8, <1>9 DEF Tree
<1>11. \A v : v \in Leaves(u) <=> v \in Leaves(t)
  <2>1. \A v : v \in Leaves(u) <=> \E p \in DOMAIN u : u[p] = Leaf(v)
    BY <1>10, LeavesIn
  <2>2. \A v : v \in Leaves(t) <=> \E p \in DOMAIN t : t[p] = Leaf(v)
    BY LeavesIn
  <2>3. ASSUME NEW v, NEW p \in DOMAIN u, u[p] = Leaf(v)
        PROVE  \E q \in DOMAIN t : t[q] = Leaf(v)
    BY <1>4, <1>5, <2>3
  <2>4. ASSUME NEW v, NEW q \in DOMAIN t, t[q] = Leaf(v)
        PROVE  \E p \in DOMAIN u : u[p] = Leaf(v)
    <3>1. q \in Paths /\ other(q) \in Paths /\ other(other(q)) = q
      BY <1>1 DEF Tree
    <3> QED BY <1>4, <1>5, <2>4, <3>1
  <2> QED BY <2>1, <2>2, <2>3, <2>4
<1> QED BY <1>10, <1>11 DEF u

-----------------------------------------------------------------------------
\* Syncing: windows are removed and inserted one by one.

\* A set of windows has fewer windows without its largest one.
LEMMA WithoutMax ==
  ASSUME NEW S, S \subseteq Nat, IsFiniteSet(S), NEW G \in SUBSET S
  PROVE  /\ IsFiniteSet(G) /\ Cardinality(G) \in Nat /\ Cardinality(G) <= Cardinality(S)
         /\ G # {} => /\ Max(G) \in G /\ G \ {Max(G)} \in SUBSET S
                      /\ Cardinality(G \ {Max(G)}) = Cardinality(G) - 1
                      /\ Cardinality(G) # 0
<1>1. IsFiniteSet(G) /\ Cardinality(G) \in Nat /\ Cardinality(G) <= Cardinality(S)
  BY FS_Subset, FS_CardinalityType
<1>2. ASSUME G # {}
      PROVE  /\ Max(G) \in G /\ G \ {Max(G)} \in SUBSET S
             /\ Cardinality(G \ {Max(G)}) = Cardinality(G) - 1 /\ Cardinality(G) # 0
  <2>1. Max(G) \in G
    BY <1>1, <1>2, MaxIs
  <2>2. Cardinality(G \ {Max(G)}) = Cardinality(G) - 1
    BY <1>1, <2>1, FS_RemoveElement
  <2>3. Cardinality(G) # 0
    BY <1>1, <1>2, FS_EmptySet
  <2> QED BY <2>1, <2>2, <2>3
<1> QED BY <1>1, <1>2

Removal(f, t, S) ==
  /\ f[{}] = t
  /\ \A G \in SUBSET S : G # {} => f[G] = RemoveWindow(f[G \ {Max(G)}], Max(G))

Insertion(f, t, S) ==
  /\ f[{}] = t
  /\ \A G \in SUBSET S : G # {} => f[G] = Insert(f[G \ {Max(G)}], Max(G))

\* The recursion of RemoveAll has a solution, so RemoveAll is one.
LEMMA RemoveAllRecursion ==
  ASSUME NEW t, NEW S, S \subseteq Nat, IsFiniteSet(S)
  PROVE  \E f : RemoveAll(t, S) = f[S] /\ Removal(f, t, S)
<1> DEFINE Upto(n) == {G \in SUBSET S : Cardinality(G) <= n}
           Step(f, G) == IF G = {} THEN t ELSE RemoveWindow(f[G \ {Max(G)}], Max(G))
           Solved(n) == \E f : f = [G \in Upto(n) |-> Step(f, G)]
           B == {n \in Nat : ~Solved(n)}
<1>1. /\ \A G \in SUBSET S : Cardinality(G) \in Nat /\ Cardinality(G) <= Cardinality(S)
      /\ Cardinality(S) \in Nat
      /\ \A G \in SUBSET S : G # {} =>
           /\ G \ {Max(G)} \in SUBSET S
           /\ Cardinality(G \ {Max(G)}) = Cardinality(G) - 1 /\ Cardinality(G) # 0
  BY WithoutMax, FS_CardinalityType
<1>2. Solved(0)
  <2> DEFINE f == [G \in Upto(0) |-> t]
  <2>1. ASSUME NEW G \in Upto(0) PROVE G = {}
    <3>1. G \in SUBSET S /\ Cardinality(G) <= 0
      OBVIOUS
    <3>2. Cardinality(G) \in Nat /\ (G # {} => Cardinality(G) # 0)
      BY <1>1, <3>1, Zenon
    <3> QED BY <3>1, <3>2
  <2>2. f = [G \in Upto(0) |-> Step(f, G)]
    BY <2>1
  <2> QED BY <2>2
<1>3. ASSUME NEW n \in Nat, Solved(n) PROVE Solved(n + 1)
  <2>1. PICK f : f = [G \in Upto(n) |-> Step(f, G)]
    BY <1>3
  <2> DEFINE g == [G \in Upto(n + 1) |-> Step(f, G)]
  <2>2. \A G \in Upto(n + 1) : G # {} => G \ {Max(G)} \in Upto(n) /\ G \ {Max(G)} \in Upto(n + 1)
    BY <1>1
  <2>3. \A G \in Upto(n) : G \in Upto(n + 1) /\ g[G] = f[G]
    <3>1. ASSUME NEW G \in Upto(n) PROVE G \in Upto(n + 1)
      BY <1>1
    <3>2. ASSUME NEW G \in Upto(n) PROVE f[G] = Step(f, G)
      <4> HIDE DEF Step
      <4> QED BY <2>1
    <3> HIDE DEF Step
    <3> QED BY <3>1, <3>2
  <2>4. \A G \in Upto(n + 1) : Step(f, G) = Step(g, G)
    BY <2>2, <2>3
  <2>5. g = [G \in Upto(n + 1) |-> Step(g, G)]
    <3> HIDE DEF Step
    <3> QED BY <2>4
  <2> HIDE DEF g
  <2> QED BY <2>5
<1>4. Solved(Cardinality(S))
  <2> HIDE DEF Solved
  <2>1. SUFFICES ASSUME B # {} PROVE FALSE
    BY <1>1
  <2>2. PICK n \in B : \A m \in B : n <= m
    BY <2>1, LeastIs
  <2>3. n # 0 /\ n - 1 \in Nat
    BY <1>2, <2>2
  <2>4. Solved(n - 1)
    BY <2>2, <2>3
  <2>5. Solved((n - 1) + 1)
    BY <1>3, <2>3, <2>4
  <2> QED BY <2>2, <2>5
<1>5. Upto(Cardinality(S)) = SUBSET S
  BY <1>1
<1>6. \E f : f = [G \in SUBSET S |-> Step(f, G)]
  <2> HIDE DEF Step, Upto
  <2> QED BY <1>4, <1>5
<1> DEFINE F == CHOOSE f : f = [G \in SUBSET S |-> Step(f, G)]
<1>7. RemoveAll(t, S) = F[S]
  BY DEF RemoveAll
<1>8. F = [G \in SUBSET S |-> Step(F, G)]
  BY <1>6
<1> HIDE DEF F
<1>9. \A G \in SUBSET S : F[G] = Step(F, G)
  <2> HIDE DEF Step
  <2> QED BY <1>8
<1>10. Removal(F, t, S)
  BY <1>9 DEF Removal
<1> QED BY <1>7, <1>10

\* And so is InsertAll.
LEMMA InsertAllRecursion ==
  ASSUME NEW t, NEW S, S \subseteq Nat, IsFiniteSet(S)
  PROVE  \E f : InsertAll(t, S) = f[S] /\ Insertion(f, t, S)
<1> DEFINE Upto(n) == {G \in SUBSET S : Cardinality(G) <= n}
           Step(f, G) == IF G = {} THEN t ELSE Insert(f[G \ {Max(G)}], Max(G))
           Solved(n) == \E f : f = [G \in Upto(n) |-> Step(f, G)]
           B == {n \in Nat : ~Solved(n)}
<1>1. /\ \A G \in SUBSET S : Cardinality(G) \in Nat /\ Cardinality(G) <= Cardinality(S)
      /\ Cardinality(S) \in Nat
      /\ \A G \in SUBSET S : G # {} =>
           /\ G \ {Max(G)} \in SUBSET S
           /\ Cardinality(G \ {Max(G)}) = Cardinality(G) - 1 /\ Cardinality(G) # 0
  BY WithoutMax, FS_CardinalityType
<1>2. Solved(0)
  <2> DEFINE f == [G \in Upto(0) |-> t]
  <2>1. ASSUME NEW G \in Upto(0) PROVE G = {}
    <3>1. G \in SUBSET S /\ Cardinality(G) <= 0
      OBVIOUS
    <3>2. Cardinality(G) \in Nat /\ (G # {} => Cardinality(G) # 0)
      BY <1>1, <3>1, Zenon
    <3> QED BY <3>1, <3>2
  <2>2. f = [G \in Upto(0) |-> Step(f, G)]
    BY <2>1
  <2> QED BY <2>2
<1>3. ASSUME NEW n \in Nat, Solved(n) PROVE Solved(n + 1)
  <2>1. PICK f : f = [G \in Upto(n) |-> Step(f, G)]
    BY <1>3
  <2> DEFINE g == [G \in Upto(n + 1) |-> Step(f, G)]
  <2>2. \A G \in Upto(n + 1) : G # {} => G \ {Max(G)} \in Upto(n) /\ G \ {Max(G)} \in Upto(n + 1)
    BY <1>1
  <2>3. \A G \in Upto(n) : G \in Upto(n + 1) /\ g[G] = f[G]
    <3>1. ASSUME NEW G \in Upto(n) PROVE G \in Upto(n + 1)
      BY <1>1
    <3>2. ASSUME NEW G \in Upto(n) PROVE f[G] = Step(f, G)
      <4> HIDE DEF Step
      <4> QED BY <2>1
    <3> HIDE DEF Step
    <3> QED BY <3>1, <3>2
  <2>4. \A G \in Upto(n + 1) : Step(f, G) = Step(g, G)
    BY <2>2, <2>3
  <2>5. g = [G \in Upto(n + 1) |-> Step(g, G)]
    <3> HIDE DEF Step
    <3> QED BY <2>4
  <2> HIDE DEF g
  <2> QED BY <2>5
<1>4. Solved(Cardinality(S))
  <2> HIDE DEF Solved
  <2>1. SUFFICES ASSUME B # {} PROVE FALSE
    BY <1>1
  <2>2. PICK n \in B : \A m \in B : n <= m
    BY <2>1, LeastIs
  <2>3. n # 0 /\ n - 1 \in Nat
    BY <1>2, <2>2
  <2>4. Solved(n - 1)
    BY <2>2, <2>3
  <2>5. Solved((n - 1) + 1)
    BY <1>3, <2>3, <2>4
  <2> QED BY <2>2, <2>5
<1>5. Upto(Cardinality(S)) = SUBSET S
  BY <1>1
<1>6. \E f : f = [G \in SUBSET S |-> Step(f, G)]
  <2> HIDE DEF Step, Upto
  <2> QED BY <1>4, <1>5
<1> DEFINE F == CHOOSE f : f = [G \in SUBSET S |-> Step(f, G)]
<1>7. InsertAll(t, S) = F[S]
  BY DEF InsertAll
<1>8. F = [G \in SUBSET S |-> Step(F, G)]
  BY <1>6
<1> HIDE DEF F
<1>9. \A G \in SUBSET S : F[G] = Step(F, G)
  <2> HIDE DEF Step
  <2> QED BY <1>8
<1>10. Insertion(F, t, S)
  BY <1>9 DEF Insertion
<1> QED BY <1>7, <1>10

LEMMA RemoveAllTree ==
  ASSUME NEW t, Tree(t), NEW S, S \subseteq Nat, IsFiniteSet(S)
  PROVE  Tree(RemoveAll(t, S)) /\ Leaves(RemoveAll(t, S)) = Leaves(t) \ S
<1>1. PICK f : RemoveAll(t, S) = f[S] /\ Removal(f, t, S)
  BY RemoveAllRecursion
<1> DEFINE Good(G) == Tree(f[G]) /\ Leaves(f[G]) = Leaves(t) \ G
           L == {Cardinality(G) : G \in {H \in SUBSET S : ~Good(H)}}
<1>2. L = {}
  <2>1. SUFFICES ASSUME L # {} PROVE FALSE
    OBVIOUS
  <2>2. L \subseteq Nat
    <3>1. \A G \in SUBSET S : Cardinality(G) \in Nat
      BY WithoutMax
    <3> HIDE DEF Good
    <3> QED BY <3>1
  <2>3. PICK n \in L : \A m \in L : n <= m
    BY <2>1, <2>2, LeastIs
  <2>4. PICK G \in SUBSET S : ~Good(G) /\ Cardinality(G) = n
    BY <2>3
  <2>5. G # {}
    <3>1. Good({})
      BY <1>1 DEF Removal
    <3> QED BY <2>4, <3>1
  <2>6. /\ Max(G) \in G /\ G \ {Max(G)} \in SUBSET S
        /\ Cardinality(G \ {Max(G)}) = Cardinality(G) - 1 /\ Cardinality(G) \in Nat
    BY <2>5, WithoutMax
  <2>7. Good(G \ {Max(G)})
    <3>1. ASSUME ~Good(G \ {Max(G)}) PROVE FALSE
      <4>1. Cardinality(G \ {Max(G)}) \in L
        BY <2>6, <3>1
      <4> HIDE DEF L
      <4> QED BY <2>3, <2>4, <2>6, <4>1
    <3> QED BY <3>1
  <2>8. f[G] = RemoveWindow(f[G \ {Max(G)}], Max(G))
    BY <1>1, <2>5 DEF Removal
  <2>9. Tree(f[G]) /\ Leaves(f[G]) = Leaves(f[G \ {Max(G)}]) \ {Max(G)}
    <3>1. PICK u, m : u = f[G \ {Max(G)}] /\ m = Max(G)
      OBVIOUS
    <3>2. Tree(u)
      BY <2>6, <2>7, <3>1
    <3>3. Tree(RemoveWindow(u, m)) /\ Leaves(RemoveWindow(u, m)) = Leaves(u) \ {m}
      BY <3>2, RemoveTree
    <3> QED BY <2>8, <3>1, <3>3
  <2>10. Leaves(f[G]) = Leaves(t) \ G
    BY <2>6, <2>7, <2>9
  <2> QED BY <2>4, <2>9, <2>10
<1>3. Good(S)
  BY <1>2
<1> QED BY <1>1, <1>3

LEMMA InsertAllTree ==
  ASSUME NEW t, Tree(t), NEW S, S \subseteq Windows, S \subseteq Nat, IsFiniteSet(S)
  PROVE  Tree(InsertAll(t, S)) /\ Leaves(InsertAll(t, S)) = Leaves(t) \cup S
<1>1. PICK f : InsertAll(t, S) = f[S] /\ Insertion(f, t, S)
  BY InsertAllRecursion
<1> DEFINE Good(G) == Tree(f[G]) /\ Leaves(f[G]) = Leaves(t) \cup G
           L == {Cardinality(G) : G \in {H \in SUBSET S : ~Good(H)}}
<1>2. L = {}
  <2>1. SUFFICES ASSUME L # {} PROVE FALSE
    OBVIOUS
  <2>2. L \subseteq Nat
    <3>1. \A G \in SUBSET S : Cardinality(G) \in Nat
      BY WithoutMax
    <3> HIDE DEF Good
    <3> QED BY <3>1
  <2>3. PICK n \in L : \A m \in L : n <= m
    BY <2>1, <2>2, LeastIs
  <2>4. PICK G \in SUBSET S : ~Good(G) /\ Cardinality(G) = n
    BY <2>3
  <2>5. G # {}
    <3>1. Good({})
      BY <1>1 DEF Insertion
    <3> QED BY <2>4, <3>1
  <2>6. /\ Max(G) \in G /\ G \ {Max(G)} \in SUBSET S
        /\ Cardinality(G \ {Max(G)}) = Cardinality(G) - 1 /\ Cardinality(G) \in Nat
    BY <2>5, WithoutMax
  <2>7. Good(G \ {Max(G)})
    <3>1. ASSUME ~Good(G \ {Max(G)}) PROVE FALSE
      <4>1. Cardinality(G \ {Max(G)}) \in L
        BY <2>6, <3>1
      <4> HIDE DEF L
      <4> QED BY <2>3, <2>4, <2>6, <4>1
    <3> QED BY <3>1
  <2>8. f[G] = Insert(f[G \ {Max(G)}], Max(G))
    BY <1>1, <2>5 DEF Insertion
  <2>9. Tree(f[G]) /\ Leaves(f[G]) = Leaves(f[G \ {Max(G)}]) \cup {Max(G)}
    <3>1. PICK u, m : u = f[G \ {Max(G)}] /\ m = Max(G)
      OBVIOUS
    <3>2. Tree(u) /\ m \in Windows
      BY <2>6, <2>7, <3>1
    <3>3. Tree(Insert(u, m)) /\ Leaves(Insert(u, m)) = Leaves(u) \cup {m}
      BY <3>2, InsertTree
    <3> QED BY <2>8, <3>1, <3>3
  <2>10. Leaves(f[G]) = Leaves(t) \cup G
    BY <2>6, <2>7, <2>9
  <2> QED BY <2>4, <2>9, <2>10
<1>3. Good(S)
  BY <1>2
<1> QED BY <1>1, <1>3

\* A synced tree has exactly the windows it is synced with (sync_with_windows).
LEMMA SyncTree ==
  ASSUME NEW t, Tree(t), NEW S \in SUBSET Windows
  PROVE  Tree(SyncWithWindows(t, S)) /\ Leaves(SyncWithWindows(t, S)) = S
<1> DEFINE kept == RemoveAll(t, Leaves(t) \ S)
<1>1. Leaves(t) \subseteq Windows
  BY LeavesIn
<1>2. \A G \in SUBSET Windows : G \subseteq Nat /\ IsFiniteSet(G)
  BY LayoutConstants, FS_Subset
<1>3. Tree(kept) /\ Leaves(kept) = Leaves(t) \ (Leaves(t) \ S)
  BY <1>1, <1>2, RemoveAllTree
<1>4. SyncWithWindows(t, S) = InsertAll(kept, S \ Leaves(kept))
  BY DEF SyncWithWindows
<1> HIDE DEF kept
<1>5. /\ Tree(InsertAll(kept, S \ Leaves(kept)))
      /\ Leaves(InsertAll(kept, S \ Leaves(kept))) = Leaves(kept) \cup (S \ Leaves(kept))
  BY <1>2, <1>3, InsertAllTree
<1> QED BY <1>3, <1>4, <1>5

-----------------------------------------------------------------------------
\* Where the windows go.

Boxes == [x : Nat, y : Nat, w : Nat, h : Nat]

Within(f, g) ==
  /\ g.x <= f.x /\ f.x + f.w <= g.x + g.w
  /\ g.y <= f.y /\ f.y + f.h <= g.y + g.h

LEMMA CutIs ==
  ASSUME NEW n \in Nat, NEW r \in 1 .. 9
  PROVE  (n * r) \div 10 \in 0 .. n
<1>1. n * r \in Nat /\ n * r <= 10 * n
  <2>1. r = 1 \/ r = 2 \/ r = 3 \/ r = 4 \/ r = 5 \/ r = 6 \/ r = 7 \/ r = 8 \/ r = 9
    OBVIOUS
  <2> QED BY <2>1
<1>2. PICK k : k = n * r
  OBVIOUS
<1>3. k \div 10 \in 0 .. n
  BY <1>1, <1>2
<1> QED BY <1>2, <1>3

\* The parts of a split lie in its area, beside each other, and fill it.
LEMMA PartIs ==
  ASSUME NEW a \in Boxes, NEW n \in [axis : Axes, ratio : 1 .. 9]
  PROVE  /\ \A i \in {1, 2} : Part(a, n, i) \in Boxes /\ Within(Part(a, n, i), a)
         /\ \A f, g \in Boxes :
              Within(f, Part(a, n, 1)) /\ Within(g, Part(a, n, 2)) => Apart(f, g)
         /\ \A x, y \in Int :
              Inside(x, y, a) => \E i \in {1, 2} : Inside(x, y, Part(a, n, i))
<1>1. CASE n.axis = "vertical"
  <2>1. PICK c : c = (a.w * n.ratio) \div 10
    OBVIOUS
  <2>2. c \in 0 .. a.w
    BY <2>1, CutIs DEF Boxes
  <2>3. Part(a, n, 1) = [a EXCEPT !.w = c]
    BY <1>1, <2>1 DEF Part, Boxes
  <2>4. Part(a, n, 2) = [a EXCEPT !.x = a.x + c, !.w = a.w - c]
    BY <1>1, <2>1 DEF Part, Boxes
  <2>5. Part(a, n, 1) = [x |-> a.x, y |-> a.y, w |-> c, h |-> a.h]
    BY <2>3 DEF Boxes
  <2>6. Part(a, n, 2) = [x |-> a.x + c, y |-> a.y, w |-> a.w - c, h |-> a.h]
    BY <2>4 DEF Boxes
  <2>7. a.x \in Nat /\ a.y \in Nat /\ a.w \in Nat /\ a.h \in Nat
    BY DEF Boxes
  <2>8. \A i \in {1, 2} : Part(a, n, i) \in Boxes /\ Within(Part(a, n, i), a)
    BY <2>2, <2>5, <2>6, <2>7 DEF Boxes, Within
  <2>9. \A f, g \in Boxes :
          Within(f, Part(a, n, 1)) /\ Within(g, Part(a, n, 2)) => Apart(f, g)
    BY <2>2, <2>5, <2>6, <2>7 DEF Boxes, Within, Apart
  <2>10. \A x, y \in Int :
           Inside(x, y, a) => \E i \in {1, 2} : Inside(x, y, Part(a, n, i))
    BY <2>2, <2>5, <2>6, <2>7 DEF Inside
  <2> QED BY <2>8, <2>9, <2>10
<1>2. CASE n.axis = "horizontal"
  <2>1. PICK c : c = (a.h * n.ratio) \div 10
    OBVIOUS
  <2>2. c \in 0 .. a.h
    BY <2>1, CutIs DEF Boxes
  <2>3. Part(a, n, 1) = [a EXCEPT !.h = c]
    BY <1>2, <2>1 DEF Part, Boxes
  <2>4. Part(a, n, 2) = [a EXCEPT !.y = a.y + c, !.h = a.h - c]
    BY <1>2, <2>1 DEF Part, Boxes
  <2>5. Part(a, n, 1) = [x |-> a.x, y |-> a.y, w |-> a.w, h |-> c]
    BY <2>3 DEF Boxes
  <2>6. Part(a, n, 2) = [x |-> a.x, y |-> a.y + c, w |-> a.w, h |-> a.h - c]
    BY <2>4 DEF Boxes
  <2>7. a.x \in Nat /\ a.y \in Nat /\ a.w \in Nat /\ a.h \in Nat
    BY DEF Boxes
  <2>8. \A i \in {1, 2} : Part(a, n, i) \in Boxes /\ Within(Part(a, n, i), a)
    BY <2>2, <2>5, <2>6, <2>7 DEF Boxes, Within
  <2>9. \A f, g \in Boxes :
          Within(f, Part(a, n, 1)) /\ Within(g, Part(a, n, 2)) => Apart(f, g)
    BY <2>2, <2>5, <2>6, <2>7 DEF Boxes, Within, Apart
  <2>10. \A x, y \in Int :
           Inside(x, y, a) => \E i \in {1, 2} : Inside(x, y, Part(a, n, i))
    BY <2>2, <2>5, <2>6, <2>7 DEF Inside
  <2> QED BY <2>8, <2>9, <2>10
<1> QED BY <1>1, <1>2 DEF Axes

\* f gives every node its part.
Parts(f, t, area) ==
  /\ <<>> \in DOMAIN t => f[<<>>] = area
  /\ \A p \in Paths, i \in {1, 2} :
       Append(p, i) \in DOMAIN t => f[Append(p, i)] = Part(f[p], t[p], i)

\* The recursion of Placement has a solution, so Placement is one.
LEMMA PlacementRecursion ==
  ASSUME NEW t, Tree(t), NEW area
  PROVE  \E f : Parts(f, t, area) /\ \A w : Placement(t, w, area) = f[PathOf(t, w)]
<1> DEFINE Upto(n) == {p \in DOMAIN t : Len(p) <= n}
           Step(f, p) == IF p = <<>> THEN area ELSE Part(f[Front(p)], t[Front(p)], Last(p))
           Solved(n) == \E f : f = [p \in Upto(n) |-> Step(f, p)]
<1>1. \A p \in DOMAIN t : p \in Paths /\ Len(p) \in Nat
  BY LenProperties DEF Tree, Paths
<1>2. \A p \in DOMAIN t : p # <<>> => Front(p) \in DOMAIN t /\ Len(p) = Len(Front(p)) + 1
  <2>1. ASSUME NEW p \in DOMAIN t, p # <<>>
        PROVE  Front(p) \in DOMAIN t /\ Len(p) = Len(Front(p)) + 1
    <3>1. /\ Front(p) \in Paths /\ Last(p) \in {1, 2} /\ p = Append(Front(p), Last(p))
          /\ Len(p) = Len(Front(p)) + 1
      BY <1>1, <2>1, LastStep
    <3>2. Front(p) \in DOMAIN t
      BY <3>1 DEF Tree, Branching
    <3> QED BY <3>1, <3>2
  <2> QED BY <2>1
<1>3. Solved(0)
  <2> DEFINE f == [p \in Upto(0) |-> area]
  <2>1. ASSUME NEW p \in Upto(0) PROVE p = <<>>
    <3>1. p \in DOMAIN t /\ Len(p) <= 0
      OBVIOUS
    <3>2. p \in Seq({1, 2}) /\ Len(p) = 0
      BY <1>1, <3>1 DEF Paths
    <3> QED BY <3>2, EmptySeq
  <2>2. f = [p \in Upto(0) |-> Step(f, p)]
    BY <2>1
  <2> QED BY <2>2
<1>4. ASSUME NEW n \in Nat, Solved(n) PROVE Solved(n + 1)
  <2>1. PICK f : f = [p \in Upto(n) |-> Step(f, p)]
    BY <1>4
  <2> DEFINE g == [p \in Upto(n + 1) |-> Step(f, p)]
  <2>2. \A p \in Upto(n + 1) : p # <<>> => Front(p) \in Upto(n)
    BY <1>1, <1>2
  <2>3. \A p \in Upto(n) : p \in Upto(n + 1) /\ g[p] = f[p]
    <3>1. ASSUME NEW p \in Upto(n) PROVE p \in Upto(n + 1)
      BY <1>1
    <3>2. ASSUME NEW p \in Upto(n) PROVE f[p] = Step(f, p)
      <4> HIDE DEF Step
      <4> QED BY <2>1
    <3> HIDE DEF Step
    <3> QED BY <3>1, <3>2
  <2>4. \A p \in Upto(n + 1) : Step(f, p) = Step(g, p)
    BY <2>2, <2>3
  <2>5. g = [p \in Upto(n + 1) |-> Step(g, p)]
    <3> HIDE DEF Step
    <3> QED BY <2>4
  <2> HIDE DEF g
  <2> QED BY <2>5
<1>5. PICK n \in Nat : \A p \in DOMAIN t : Len(p) <= n
  BY DEF Tree
<1>6. Solved(n)
  <2> HIDE DEF Solved
  <2> DEFINE B == {m \in Nat : ~Solved(m)}
  <2>1. SUFFICES ASSUME B # {} PROVE FALSE
    OBVIOUS
  <2>2. PICK m \in B : \A k \in B : m <= k
    BY <2>1, LeastIs
  <2>3. m # 0 /\ m - 1 \in Nat
    BY <1>3, <2>2
  <2>4. Solved(m - 1)
    BY <2>2, <2>3
  <2>5. Solved((m - 1) + 1)
    BY <1>4, <2>3, <2>4
  <2> QED BY <2>2, <2>5
<1>7. Upto(n) = DOMAIN t
  BY <1>5
<1>8. \E f : f = [p \in DOMAIN t |-> Step(f, p)]
  <2> HIDE DEF Step, Upto
  <2> QED BY <1>6, <1>7
<1> DEFINE F == CHOOSE f : f = [p \in DOMAIN t |-> Step(f, p)]
<1>9. \A w : Placement(t, w, area) = F[PathOf(t, w)]
  BY DEF Placement
<1>10. F = [p \in DOMAIN t |-> Step(F, p)]
  BY <1>8
<1> HIDE DEF F
<1>11. \A p \in DOMAIN t : F[p] = Step(F, p)
  <2> HIDE DEF Step
  <2> QED BY <1>10
<1>12. Parts(F, t, area)
  <2>1. ASSUME NEW p \in Paths, NEW i \in {1, 2}, Append(p, i) \in DOMAIN t
        PROVE  F[Append(p, i)] = Part(F[p], t[p], i)
    <3>1. Append(p, i) # <<>> /\ Front(Append(p, i)) = p /\ Last(Append(p, i)) = i
      BY OneStep
    <3>2. F[Append(p, i)] = Step(F, Append(p, i))
      BY <1>11, <2>1
    <3> QED BY <3>1, <3>2
  <2>2. <<>> \in DOMAIN t => F[<<>>] = area
    BY <1>11
  <2> QED BY <2>1, <2>2 DEF Parts
<1> QED BY <1>9, <1>12

\* A step inside the tree starts at a split.
LEMMA StepIs ==
  ASSUME NEW t, Tree(t), NEW p \in Paths, NEW i \in {1, 2}, Append(p, i) \in DOMAIN t
  PROVE  p \in DOMAIN t /\ ~IsLeaf(t[p]) /\ t[p] \in [axis : Axes, ratio : 1 .. 9]
<1>1. p \in DOMAIN t /\ ~IsLeaf(t[p]) /\ t[p] \in Nodes
  BY DEF Tree, Branching
<1> QED BY <1>1, NodeIs

LEMMA PartsAreBoxes ==
  ASSUME NEW t, Tree(t), NEW area \in Boxes, NEW f, Parts(f, t, area)
  PROVE  \A p \in DOMAIN t : f[p] \in Boxes
<1> DEFINE L == {Len(p) : p \in {x \in DOMAIN t : f[x] \notin Boxes}}
<1>1. \A p \in DOMAIN t : p \in Paths /\ Len(p) \in Nat
  BY LenProperties DEF Tree, Paths
<1>2. L = {}
  <2>1. SUFFICES ASSUME L # {} PROVE FALSE
    OBVIOUS
  <2>2. PICK n \in L : \A m \in L : n <= m
    <3>1. L \subseteq Nat
      BY <1>1
    <3> HIDE DEF L
    <3> QED BY <2>1, <3>1, LeastIs
  <2>3. PICK p \in DOMAIN t : f[p] \notin Boxes /\ Len(p) = n
    BY <2>2
  <2>4. p # <<>>
    BY <2>3 DEF Parts
  <2>5. PICK q \in Paths, i \in {1, 2} : p = Append(q, i) /\ Len(p) = Len(q) + 1
    BY <1>1, <2>4, LastStep
  <2>6. q \in DOMAIN t /\ t[q] \in [axis : Axes, ratio : 1 .. 9]
    BY <2>5, StepIs
  <2>7. f[q] \in Boxes
    BY <1>1, <2>2, <2>3, <2>5, <2>6
  <2>8. f[p] = Part(f[q], t[q], i)
    BY <2>5 DEF Parts
  <2> QED BY <2>3, <2>6, <2>7, <2>8, PartIs
<1> QED BY <1>2

LEMMA WithinWithin ==
  ASSUME NEW a \in Boxes, NEW b \in Boxes, NEW c \in Boxes, Within(a, b), Within(b, c)
  PROVE  Within(a, c)
<1>1. \A f \in Boxes : f.x \in Nat /\ f.y \in Nat /\ f.w \in Nat /\ f.h \in Nat
  BY DEF Boxes
<1>2. c.x <= a.x /\ a.x + a.w <= c.x + c.w
  BY <1>1 DEF Within
<1>3. c.y <= a.y /\ a.y + a.h <= c.y + c.h
  BY <1>1 DEF Within
<1> QED BY <1>2, <1>3 DEF Within

\* What is below a node is placed within it.
LEMMA Nested ==
  ASSUME NEW t, Tree(t), NEW area \in Boxes, NEW f, Parts(f, t, area),
         NEW p \in Paths, NEW z \in Paths, p \o z \in DOMAIN t
  PROVE  f[p \o z] \in Boxes /\ Within(f[p \o z], f[p])
<1> DEFINE Bad(y) == p \o y \in DOMAIN t /\ ~Within(f[p \o y], f[p])
           L == {Len(y) : y \in {x \in Paths : Bad(x)}}
<1>1. \A y \in Paths : Len(y) \in Nat
  BY LenProperties DEF Paths
<1>2. \A x \in DOMAIN t : f[x] \in Boxes
  BY PartsAreBoxes
<1>3. L = {}
  <2>1. SUFFICES ASSUME L # {} PROVE FALSE
    OBVIOUS
  <2>2. PICK n \in L : \A m \in L : n <= m
    <3>1. L \subseteq Nat
      BY <1>1
    <3> HIDE DEF L
    <3> QED BY <2>1, <3>1, LeastIs
  <2>3. PICK y \in Paths : Bad(y) /\ Len(y) = n
    BY <2>2
  <2>4. y # <<>>
    <3>1. p \o <<>> = p
      BY Below
    <3>2. ASSUME p \in DOMAIN t PROVE Within(f[p], f[p])
      <4>1. f[p] \in Boxes
        BY <1>2, <3>2
      <4>2. \A g \in Boxes : Within(g, g)
        BY DEF Within, Boxes
      <4> HIDE DEF Within, Boxes
      <4> QED BY <4>1, <4>2
    <3> QED BY <2>3, <3>1, <3>2
  <2>5. PICK x \in Paths, i \in {1, 2} : y = Append(x, i) /\ Len(y) = Len(x) + 1
    BY <2>4, LastStep
  <2>6. p \o x \in Paths /\ p \o y = Append(p \o x, i)
    <3>1. p \o x \in Paths
      BY Below
    <3> QED BY <2>5, <3>1, BelowStep
  <2>7. p \o x \in DOMAIN t /\ t[p \o x] \in [axis : Axes, ratio : 1 .. 9]
    BY <2>3, <2>6, StepIs
  <2>8. ~Bad(x)
    <3>1. Len(x) \notin L
      BY <1>1, <2>2, <2>3, <2>5
    <3> QED BY <3>1
  <2>9. f[p \o y] = Part(f[p \o x], t[p \o x], i)
    BY <2>3, <2>6 DEF Parts
  <2>10. Within(f[p \o y], f[p \o x]) /\ Within(f[p \o x], f[p])
    BY <1>2, <2>7, <2>8, <2>9, PartIs
  <2>11. p \in DOMAIN t
    <3>1. p \o <<>> = p
      BY Below
    <3>2. ASSUME x # <<>> PROVE p \in DOMAIN t
      BY <2>7, <3>2, AboveIs
    <3> QED BY <2>7, <3>1, <3>2
  <2>12. f[p \o y] \in Boxes /\ f[p \o x] \in Boxes /\ f[p] \in Boxes
    BY <1>2, <2>3, <2>7, <2>11
  <2>13. Within(f[p \o y], f[p])
    BY <2>10, <2>12, WithinWithin
  <2> QED BY <2>3, <2>13
<1>4. z \in Paths /\ ~Bad(z)
  BY <1>3
<1> QED BY <1>2, <1>4

LEMMA FirstStep ==
  ASSUME NEW p \in Paths, NEW z \in Paths, z # <<>>
  PROVE  \E i \in {1, 2} : \E y \in Paths : p \o z = Append(p, i) \o y
<1>1. Head(z) \in {1, 2} /\ Tail(z) \in Paths /\ z = <<Head(z)>> \o Tail(z)
  <2>1. z \in Seq({1, 2})
    BY DEF Paths
  <2>2. Head(z) \in {1, 2} /\ Tail(z) \in Seq({1, 2})
    BY <2>1, HeadTailProperties
  <2>3. z = <<Head(z)>> \o Tail(z)
    BY <2>1, HeadTailProperties
  <2> QED BY <2>2, <2>3 DEF Paths
<1>2. <<Head(z)>> \in Paths
  BY <1>1 DEF Paths
<1>3. p \o (<<Head(z)>> \o Tail(z)) = (p \o <<Head(z)>>) \o Tail(z)
  BY <1>1, <1>2, ConcatAssociative DEF Paths
<1>4. p \o <<Head(z)>> = Append(p, Head(z))
  BY <1>1, AppendIsConcat DEF Paths
<1>5. p \o z = Append(p, Head(z)) \o Tail(z)
  BY <1>1, <1>3, <1>4
<1> QED BY <1>1, <1>5

\* p and q go to different sides at c.
Fork(p, q, c, i, j) ==
  /\ i # j
  /\ \E y \in Paths : p = Append(c, i) \o y
  /\ \E z \in Paths : q = Append(c, j) \o z
Forked(p, q) == \E c \in Paths, i, j \in {1, 2} : Fork(p, q, c, i, j)

\* Two leaves part at a split.
LEMMA LeavesPart ==
  ASSUME NEW t, Tree(t), NEW p \in LeafPaths(t), NEW q \in LeafPaths(t), p # q
  PROVE  Forked(p, q)
<1> DEFINE Common(x) == \E y, z \in Paths : p = x \o y /\ q = x \o z
           L == {Len(x) : x \in {x \in Paths : Common(x)}}
<1>1. /\ p \in Paths /\ p \in DOMAIN t /\ IsLeaf(t[p])
      /\ q \in Paths /\ q \in DOMAIN t /\ IsLeaf(t[q])
  BY DEF Tree, LeafPaths
<1>2. \A x \in Paths : Len(x) \in Nat
  BY LenProperties DEF Paths
<1>3. <<>> \in Paths /\ Common(<<>>)
  <2>1. <<>> \in Paths
    BY DEF Paths
  <2>2. <<>> \o p = p /\ <<>> \o q = q
    BY <1>1, ConcatEmptySeq DEF Paths
  <2> QED BY <1>1, <2>1, <2>2
<1>4. \A x \in Paths : Common(x) => Len(x) <= Len(p)
  <2>1. ASSUME NEW x \in Paths, NEW y \in Paths, p = x \o y PROVE Len(x) <= Len(p)
    BY <1>2, <2>1, Below
  <2> QED BY <2>1
<1>5. PICK m \in L : \A k \in L : k <= m
  <2>1. L \subseteq Nat /\ L # {} /\ \A k \in L : k <= Len(p)
    <3> HIDE DEF Common
    <3> QED BY <1>2, <1>3, <1>4
  <2> HIDE DEF L
  <2> QED BY <1>1, <1>2, <2>1, GreatestIs
<1>6. PICK c \in Paths : Common(c) /\ Len(c) = m
  BY <1>5
<1>7. PICK a, b \in Paths : p = c \o a /\ q = c \o b
  BY <1>6
<1>8. c \o <<>> = c
  BY Below
<1>9. a # <<>>
  <2>1. SUFFICES ASSUME a = <<>> PROVE FALSE
    OBVIOUS
  <2>2. b # <<>> /\ p = c
    BY <1>7, <1>8, <2>1
  <2> QED BY <1>1, <1>7, <2>2, AboveIs
<1>10. b # <<>>
  <2>1. SUFFICES ASSUME b = <<>> PROVE FALSE
    OBVIOUS
  <2>2. q = c
    BY <1>7, <1>8, <2>1
  <2> QED BY <1>1, <1>7, <1>9, <2>2, AboveIs
<1>11. PICK i \in {1, 2}, y \in Paths : p = Append(c, i) \o y
  <2>1. \E i \in {1, 2} : \E y \in Paths : c \o a = Append(c, i) \o y
    BY <1>9, FirstStep
  <2> QED BY <1>7, <2>1
<1>12. PICK j \in {1, 2}, z \in Paths : q = Append(c, j) \o z
  <2>1. \E j \in {1, 2} : \E z \in Paths : c \o b = Append(c, j) \o z
    BY <1>10, FirstStep
  <2> QED BY <1>7, <2>1
<1>13. i # j
  <2>1. SUFFICES ASSUME i = j PROVE FALSE
    OBVIOUS
  <2>2. Append(c, i) \in Paths /\ Common(Append(c, i)) /\ Len(Append(c, i)) = m + 1
    BY <1>6, <1>11, <1>12, <2>1, OneStep
  <2>3. m + 1 \in L
    BY <2>2
  <2>4. m \in Nat
    BY <1>2, <1>6
  <2> HIDE DEF L
  <2> QED BY <1>5, <2>3, <2>4
<1>14. Fork(p, q, c, i, j)
  BY <1>11, <1>12, <1>13 DEF Fork
<1> QED BY <1>14 DEF Forked

LEMMA LeavesApart ==
  ASSUME NEW t, Tree(t), NEW area \in Boxes, NEW f, Parts(f, t, area),
         NEW p \in LeafPaths(t), NEW q \in LeafPaths(t), p # q
  PROVE  Apart(f[p], f[q])
<1>1. PICK c \in Paths, i, j \in {1, 2}, y, z \in Paths :
        i # j /\ p = Append(c, i) \o y /\ q = Append(c, j) \o z
  <2>1. Forked(p, q)
    BY LeavesPart
  <2>2. PICK c \in Paths, i, j \in {1, 2} : Fork(p, q, c, i, j)
    BY <2>1 DEF Forked
  <2> QED BY <2>2 DEF Fork
<1>2. p \in DOMAIN t /\ q \in DOMAIN t
  BY DEF LeafPaths
<1>3. /\ Append(c, i) \in Paths /\ Append(c, j) \in Paths
      /\ Append(c, i) \in DOMAIN t /\ Append(c, j) \in DOMAIN t
  <2>1. Append(c, i) \in Paths /\ Append(c, j) \in Paths
    BY OneStep
  <2>2. \A x, v \in Paths : x \o v \in DOMAIN t => x \in DOMAIN t
    <3>1. ASSUME NEW x \in Paths, NEW v \in Paths, x \o v \in DOMAIN t PROVE x \in DOMAIN t
      <4>1. CASE v = <<>>
        BY <3>1, <4>1, Below
      <4>2. CASE v # <<>>
        BY <3>1, <4>2, AboveIs
      <4> QED BY <4>1, <4>2
    <3> QED BY <3>1
  <2> QED BY <1>1, <1>2, <2>1, <2>2
<1>4. /\ f[Append(c, i)] = Part(f[c], t[c], i)
      /\ f[Append(c, j)] = Part(f[c], t[c], j)
  BY <1>3 DEF Parts
<1>5. c \in DOMAIN t /\ t[c] \in [axis : Axes, ratio : 1 .. 9] /\ f[c] \in Boxes
  BY <1>3, StepIs, PartsAreBoxes
<1>6. /\ f[p] \in Boxes /\ Within(f[p], Part(f[c], t[c], i))
      /\ f[q] \in Boxes /\ Within(f[q], Part(f[c], t[c], j))
  BY <1>1, <1>2, <1>3, <1>4, Nested
<1>7. \A g, h \in Boxes :
        Within(g, Part(f[c], t[c], 1)) /\ Within(h, Part(f[c], t[c], 2)) => Apart(g, h)
  BY <1>5, PartIs
<1>8. CASE i = 1 /\ j = 2
  BY <1>6, <1>7, <1>8
<1>9. CASE i = 2 /\ j = 1
  <2>1. Apart(f[q], f[p])
    BY <1>6, <1>7, <1>9
  <2> QED BY <2>1 DEF Apart
<1> QED BY <1>1, <1>8, <1>9

\* Every point of the area is in the part of a leaf.
LEMMA LeavesFill ==
  ASSUME NEW t, Tree(t), DOMAIN t # {}, NEW area \in Boxes, NEW f, Parts(f, t, area),
         NEW x \in Int, NEW y \in Int, Inside(x, y, area)
  PROVE  \E p \in LeafPaths(t) : Inside(x, y, f[p])
<1> DEFINE L == {Len(p) : p \in {q \in DOMAIN t : Inside(x, y, f[q])}}
<1>1. \A p \in DOMAIN t : p \in Paths /\ Len(p) \in Nat
  BY LenProperties DEF Tree, Paths
<1>2. <<>> \in DOMAIN t /\ Inside(x, y, f[<<>>])
  BY RootIs DEF Parts
<1>3. PICK n \in Nat : \A p \in DOMAIN t : Len(p) <= n
  BY DEF Tree
<1>4. PICK m \in L : \A k \in L : k <= m
  <2>1. L \subseteq Nat /\ L # {} /\ \A k \in L : k <= n
    BY <1>1, <1>2, <1>3
  <2> HIDE DEF L
  <2> QED BY <2>1, GreatestIs
<1>5. PICK p \in DOMAIN t : Inside(x, y, f[p]) /\ Len(p) = m
  BY <1>4
<1>6. IsLeaf(t[p])
  <2>1. SUFFICES ASSUME ~IsLeaf(t[p]) PROVE FALSE
    OBVIOUS
  <2>2. \A i \in {1, 2} : Append(p, i) \in DOMAIN t /\ Len(Append(p, i)) = Len(p) + 1
    BY <1>1, <2>1, OneStep DEF Tree, Branching
  <2>3. f[p] \in Boxes /\ t[p] \in [axis : Axes, ratio : 1 .. 9]
    BY <1>1, <2>2, PartsAreBoxes, StepIs
  <2>4. PICK i \in {1, 2} : Inside(x, y, Part(f[p], t[p], i))
    BY <1>5, <2>3, PartIs
  <2>5. Inside(x, y, f[Append(p, i)])
    BY <1>1, <2>2, <2>4 DEF Parts
  <2>6. Len(p) + 1 \in L
    BY <2>2, <2>5
  <2> QED BY <1>1, <1>4, <1>5, <2>6
<1> QED BY <1>5, <1>6 DEF LeafPaths

\* The placements of the windows of a tree: inside the area, apart, and all of it.
LEMMA PlacementsTile ==
  ASSUME NEW t, Tree(t), NEW area \in Boxes
  PROVE  /\ \A w \in Leaves(t) : /\ Placement(t, w, area) \in Boxes
                                 /\ Within(Placement(t, w, area), area)
         /\ \A u, v \in Leaves(t) :
              u # v => Apart(Placement(t, u, area), Placement(t, v, area))
         /\ Leaves(t) # {} => \A x, y \in Int : Inside(x, y, area) =>
              \E w \in Leaves(t) : Inside(x, y, Placement(t, w, area))
<1>1. PICK f : Parts(f, t, area) /\ \A w : Placement(t, w, area) = f[PathOf(t, w)]
  BY PlacementRecursion
<1>2. \A w \in Leaves(t) : /\ PathOf(t, w) \in LeafPaths(t) /\ PathOf(t, w) \in DOMAIN t
                           /\ PathOf(t, w) \in Paths /\ t[PathOf(t, w)] = Leaf(w)
  BY PathIs DEF LeafPaths
<1>3. ASSUME NEW w \in Leaves(t)
      PROVE  Placement(t, w, area) \in Boxes /\ Within(Placement(t, w, area), area)
  <2>1. PICK p : p = PathOf(t, w)
    OBVIOUS
  <2>2. p \in Paths /\ p \in DOMAIN t
    BY <1>2, <2>1
  <2>3. <<>> \in Paths /\ <<>> \o p = p /\ <<>> \in DOMAIN t
    BY <2>2, RootIs, ConcatEmptySeq DEF Paths
  <2>4. f[<<>>] = area
    BY <1>1, <2>3 DEF Parts
  <2>5. f[<<>> \o p] \in Boxes /\ Within(f[<<>> \o p], f[<<>>])
    BY <1>1, <2>2, <2>3, Nested
  <2> QED BY <1>1, <2>1, <2>3, <2>4, <2>5
<1>4. ASSUME NEW u \in Leaves(t), NEW v \in Leaves(t), u # v
      PROVE  Apart(Placement(t, u, area), Placement(t, v, area))
  <2>1. PathOf(t, u) # PathOf(t, v)
    BY <1>2, <1>4, LeafIs
  <2>2. Apart(f[PathOf(t, u)], f[PathOf(t, v)])
    BY <1>1, <1>2, <2>1, LeavesApart
  <2> QED BY <1>1, <2>2
<1>5. ASSUME Leaves(t) # {}, NEW x \in Int, NEW y \in Int, Inside(x, y, area)
      PROVE  \E w \in Leaves(t) : Inside(x, y, Placement(t, w, area))
  <2>1. DOMAIN t # {}
    BY <1>2, <1>5
  <2>2. PICK p \in LeafPaths(t) : Inside(x, y, f[p])
    BY <1>1, <1>5, <2>1, LeavesFill
  <2>3. PICK w \in Leaves(t) : w = t[p].win
    BY DEF Leaves
  <2>4. p \in DOMAIN t /\ t[p] = Leaf(w)
    BY <2>3, LeavesIn DEF LeafPaths
  <2>5. p = PathOf(t, w)
    BY <2>3, <2>4, PathIs
  <2> QED BY <1>1, <2>2, <2>5
<1> QED BY <1>3, <1>4, <1>5

-----------------------------------------------------------------------------
\* The inductive invariant.

IsForest(t) == t = [s \in Spaces |-> t[s]] /\ \A s \in Spaces : Tree(t[s])

Counts ==
  /\ missed \in 0 .. MaxMissed /\ edits \in 0 .. MaxEdits
  /\ refreshes \in 0 .. MaxRefresh

\* Frames lie in the display and, on one Space, beside each other.
Packed ==
  /\ \A w \in Windows : frames[w] = None \/ (frames[w] \in Boxes /\ Within(frames[w], Area))
  /\ \A s \in Spaces : \A u, v \in Shown(s) : u # v => Apart(frames[u], frames[v])

\* After an observation no point of the display is left out, unless it is in
\* the slot of a window that is not shown.
Filling ==
  missed = 0 => \A s \in Spaces : Shown(s) # {} /\ Leaves(trees[s]) \subseteq Shown(s) =>
    \A x, y \in Int : Inside(x, y, Area) => \E w \in Shown(s) : Inside(x, y, frames[w])

IInv ==
  /\ seen \in [Windows -> Places] /\ floating \subseteq Windows /\ closing \subseteq Windows
  /\ IsForest(trees) /\ Counts /\ Packed /\ TreesMatch /\ Filling

LEMMA AreaIs ==
  /\ Area \in Boxes
  /\ \A x, y \in Int : Inside(x, y, Area) <=> 0 <= x /\ x < Size /\ 0 <= y /\ y < Size
  /\ \A f \in Boxes : Within(f, Area) => f \in Rects
  BY LayoutConstants DEF Area, Boxes, Inside, Within, Rects

\* A complete observation sets everything right, whatever the trees were.
LEMMA ObservedRight ==
  ASSUME NEW t, IsForest(t), NEW at \in [Windows -> Places],
         NEW floats, NEW gone, Observed(t, at, floats, gone)
  PROVE  /\ seen' = at /\ floating' \subseteq floats /\ closing' = {} /\ missed' = 0
         /\ IsForest(trees') /\ Packed' /\ TreesMatch' /\ Filling'
<1> DEFINE there == {w \in Windows : at[w] # None}
           fl == floats \cap there
           go == gone \cap there
           tiled == there \ (fl \cup go)
           used(s) == \E w \in tiled : at[w] = s
           synced(s) == IF used(s) THEN SyncWithWindows(t[s], TreeMembers(at, s, fl, go))
                        ELSE t[s]
<1>1. seen' = at /\ floating' = fl /\ closing' = {} /\ missed' = 0
  BY DEF Observed
<1>2. ApplyLayout(t, at, fl, go)
  BY DEF Observed
<1>3. /\ trees' = [s \in Spaces |-> synced(s)]
      /\ frames' = [w \in Windows |-> IF w \in tiled THEN Placement(trees'[at[w]], w, Area)
                                      ELSE None]
  BY <1>2 DEF ApplyLayout
<1>4. \A s \in Spaces : /\ Tree(SyncWithWindows(t[s], TreeMembers(at, s, fl, go)))
                        /\ Leaves(SyncWithWindows(t[s], TreeMembers(at, s, fl, go)))
                             = TreeMembers(at, s, fl, go)
  <2>1. ASSUME NEW s \in Spaces
        PROVE  /\ Tree(SyncWithWindows(t[s], TreeMembers(at, s, fl, go)))
               /\ Leaves(SyncWithWindows(t[s], TreeMembers(at, s, fl, go)))
                    = TreeMembers(at, s, fl, go)
    <3>1. TreeMembers(at, s, fl, go) \in SUBSET Windows
      BY DEF TreeMembers
    <3>2. Tree(t[s])
      BY DEF IsForest
    <3> HIDE DEF fl, go
    <3> QED BY <3>1, <3>2, SyncTree
  <2> HIDE DEF fl, go
  <2> QED BY <2>1
<1>5. \A s \in Spaces : Tree(synced(s))
  <2>1. \A s \in Spaces : Tree(t[s])
    BY DEF IsForest
  <2> HIDE DEF used, fl, go
  <2> QED BY <1>4, <2>1
<1>6. IsForest(trees')
  <2> HIDE DEF synced
  <2> QED BY <1>3, <1>5 DEF IsForest
<1>7. ASSUME NEW s \in Spaces, NEW w \in Shown(s)'
      PROVE  /\ w \in Windows /\ at[w] = s /\ w \in tiled
             /\ frames'[w] = Placement(trees'[s], w, Area)
             /\ Tree(trees'[s]) /\ Leaves(trees'[s]) = TreeMembers(at, s, fl, go)
             /\ w \in Leaves(trees'[s])
  <2>1. w \in Windows /\ at[w] = s /\ frames'[w] # None
    BY <1>1, <1>7 DEF Shown
  <2>2. w \in tiled /\ frames'[w] = Placement(trees'[s], w, Area)
    <3> HIDE DEF tiled, synced
    <3> QED BY <1>3, <2>1
  <2>3. used(s)
    BY <2>1, <2>2
  <2>4. trees'[s] = SyncWithWindows(t[s], TreeMembers(at, s, fl, go))
    <3> HIDE DEF used, fl, go
    <3> QED BY <1>3, <2>3
  <2>5. Tree(trees'[s]) /\ Leaves(trees'[s]) = TreeMembers(at, s, fl, go)
    BY <1>4, <2>4
  <2>6. w \in Leaves(trees'[s])
    BY <2>1, <2>2, <2>5 DEF TreeMembers
  <2> QED BY <2>1, <2>2, <2>5, <2>6
<1>8. \A w \in Windows : frames'[w] = None \/ (frames'[w] \in Boxes /\ Within(frames'[w], Area))
  <2>1. SUFFICES ASSUME NEW w \in Windows, frames'[w] # None
                 PROVE  frames'[w] \in Boxes /\ Within(frames'[w], Area)
    OBVIOUS
  <2>2. w \in tiled
    <3> HIDE DEF tiled, synced
    <3> QED BY <1>3, <2>1
  <2>3. at[w] \in Spaces /\ w \in Shown(at[w])'
    BY <1>1, <2>1, <2>2 DEF Places, Shown
  <2> HIDE DEF tiled, fl, go
  <2>4. PICK s \in Spaces : s = at[w]
    BY <2>3
  <2>5. /\ frames'[w] = Placement(trees'[s], w, Area)
        /\ Tree(trees'[s]) /\ w \in Leaves(trees'[s])
    BY <1>7, <2>3, <2>4
  <2> QED BY <2>5, PlacementsTile, AreaIs
<1> HIDE DEF tiled, fl, go, synced
<1>9. ASSUME NEW s \in Spaces, NEW u \in Shown(s)', NEW v \in Shown(s)', u # v
      PROVE  Apart(frames'[u], frames'[v])
  <2>1. /\ Tree(trees'[s]) /\ u \in Leaves(trees'[s]) /\ v \in Leaves(trees'[s])
        /\ frames'[u] = Placement(trees'[s], u, Area)
        /\ frames'[v] = Placement(trees'[s], v, Area)
    BY <1>7
  <2> QED BY <1>9, <2>1, PlacementsTile, AreaIs
<1>10. Packed'
  BY <1>8, <1>9 DEF Packed
<1>11. TreesMatch'
  <2>1. SUFFICES ASSUME NEW s \in Spaces, Shown(s)' # {}
                 PROVE  /\ {w \in Windows : at[w] = s} \ fl \subseteq Leaves(trees'[s])
                        /\ \A w \in Leaves(trees'[s]) : at[w] = s
    BY <1>1 DEF TreesMatch
  <2>2. Leaves(trees'[s]) = TreeMembers(at, s, fl, go)
    BY <1>7, <2>1
  <2> QED BY <2>2 DEF TreeMembers
<1>12. Filling'
  <2>1. SUFFICES ASSUME NEW s \in Spaces, Shown(s)' # {}, Leaves(trees'[s]) \subseteq Shown(s)',
                        NEW x \in Int, NEW y \in Int, Inside(x, y, Area)
                 PROVE  \E w \in Shown(s)' : Inside(x, y, frames'[w])
    BY DEF Filling, Area, Inside
  <2>2. Tree(trees'[s]) /\ Leaves(trees'[s]) # {}
    BY <1>7, <2>1
  <2>3. PICK w \in Leaves(trees'[s]) : Inside(x, y, Placement(trees'[s], w, Area))
    BY <2>1, <2>2, PlacementsTile, AreaIs
  <2>4. w \in Shown(s)'
    BY <2>1, <2>3
  <2>5. frames'[w] = Placement(trees'[s], w, Area)
    BY <1>7, <2>4
  <2> QED BY <2>3, <2>4, <2>5
<1> QED BY <1>1, <1>6, <1>10, <1>11, <1>12 DEF fl

\* A failed one takes frames away and moves none.
LEMMA UnobservedRight ==
  ASSUME IInv, NEW t, IsForest(t), NEW floats, NEW gone, Unobserved(t, floats, gone)
  PROVE  /\ seen' = seen /\ floating' = floats /\ closing' = gone
         /\ missed' \in 0 .. MaxMissed
         /\ IsForest(trees') /\ Packed' /\ TreesMatch' /\ Filling'
<1>1. /\ seen' = seen /\ floating' = floats /\ closing' = gone /\ trees' = t
      /\ missed < MaxMissed /\ missed' = missed + 1
      /\ frames' = [w \in Windows |-> IF w \in floats THEN None ELSE frames[w]]
  BY DEF Unobserved
<1>2. missed' \in 0 .. MaxMissed /\ missed' # 0
  BY <1>1, LayoutConstants DEF IInv, Counts
<1>3. \A w \in Windows : frames'[w] = None \/ frames'[w] = frames[w]
  BY <1>1
<1>4. ASSUME NEW s \in Spaces, NEW w \in Shown(s)'
      PROVE  w \in Shown(s) /\ frames'[w] = frames[w]
  BY <1>1, <1>3, <1>4 DEF Shown
<1>5. Packed
  BY DEF IInv
<1>6. \A w \in Windows : frames'[w] = None \/ (frames'[w] \in Boxes /\ Within(frames'[w], Area))
  BY <1>3, <1>5 DEF Packed
<1>7. ASSUME NEW s \in Spaces, NEW u \in Shown(s)', NEW v \in Shown(s)', u # v
      PROVE  Apart(frames'[u], frames'[v])
  <2>1. u \in Shown(s) /\ v \in Shown(s) /\ frames'[u] = frames[u] /\ frames'[v] = frames[v]
    BY <1>4
  <2>2. Apart(frames[u], frames[v])
    BY <1>5, <1>7, <2>1 DEF Packed
  <2> QED BY <2>1, <2>2
<1>8. Packed'
  BY <1>6, <1>7 DEF Packed
<1>9. TreesMatch' /\ Filling'
  BY <1>2 DEF TreesMatch, Filling
<1> QED BY <1>1, <1>2, <1>8, <1>9

LEMMA FollowRight ==
  ASSUME IInv, NEW t, IsForest(t), NEW floats \in SUBSET Windows, NEW gone \in SUBSET Windows,
         Follow(t, floats, gone)
  PROVE  IInv'
<1>1. /\ edits < MaxEdits /\ edits' = edits + 1 /\ refreshes' = refreshes
      /\ Observed(t, seen, floats, gone) \/ Unobserved(t, floats, gone)
  BY DEF Follow
<1>2. seen \in [Windows -> Places] /\ Counts
  BY DEF IInv
<1>3. edits' \in 0 .. MaxEdits /\ refreshes' \in 0 .. MaxRefresh
  BY <1>1, <1>2, LayoutConstants DEF Counts
<1>4. /\ seen' = seen /\ floating' \subseteq floats /\ closing' \subseteq gone
      /\ missed' \in 0 .. MaxMissed
      /\ IsForest(trees') /\ Packed' /\ TreesMatch' /\ Filling'
  <2>1. CASE Observed(t, seen, floats, gone)
    <3>1. 0 \in 0 .. MaxMissed
      BY LayoutConstants
    <3> QED BY <1>2, <2>1, <3>1, ObservedRight
  <2>2. CASE Unobserved(t, floats, gone)
    BY <2>2, UnobservedRight
  <2> QED BY <1>1, <2>1, <2>2
<1>5. Counts'
  BY <1>3, <1>4 DEF Counts
<1>6. seen' \in [Windows -> Places] /\ floating' \subseteq Windows /\ closing' \subseteq Windows
  BY <1>2, <1>4
<1> QED BY <1>4, <1>5, <1>6 DEF IInv

LEMMA RetreeRight ==
  ASSUME IInv, NEW s \in Spaces, NEW u, Tree(u), Retree(s, u)
  PROVE  IInv'
<1>1. IsForest(trees) /\ floating \in SUBSET Windows /\ closing \in SUBSET Windows
  BY DEF IInv
<1>2. [trees EXCEPT ![s] = u] = [x \in Spaces |-> IF x = s THEN u ELSE trees[x]]
  BY <1>1 DEF IsForest
<1>3. IsForest([trees EXCEPT ![s] = u])
  BY <1>1, <1>2 DEF IsForest
<1> QED BY <1>1, <1>3, FollowRight DEF Retree

-----------------------------------------------------------------------------
\* The steps.

LEMMA InitRight == Init => IInv
<1> SUFFICES ASSUME Init PROVE IInv
  OBVIOUS
<1>1. seen \in [Windows -> Places] /\ floating \subseteq Windows /\ closing \subseteq Windows
  BY DEF Init, Places
<1>2. IsForest(trees)
  BY EmptyTreeIs DEF Init, IsForest
<1>3. Counts
  BY LayoutConstants DEF Init, Counts
<1>4. \A s \in Spaces : Shown(s) = {}
  BY DEF Init, Shown
<1>5. Packed /\ TreesMatch /\ Filling
  BY <1>4 DEF Init, Packed, TreesMatch, Filling
<1> QED BY <1>1, <1>2, <1>3, <1>5 DEF IInv

LEMMA SwapRight ==
  ASSUME IInv, NEW a, NEW b, SwapWindows(a, b)
  PROVE  IInv'
<1>1. PICK s \in Spaces : {a, b} \subseteq Leaves(trees[s]) /\ Retree(s, Swap(trees[s], a, b))
  BY DEF SwapWindows
<1>2. Tree(trees[s])
  BY DEF IInv, IsForest
<1>3. Tree(Swap(trees[s], a, b))
  BY <1>1, <1>2, SwapTree
<1> QED BY <1>1, <1>3, RetreeRight

LEMMA WarpRight ==
  ASSUME IInv, NEW w \in Windows, NEW target, WarpWindow(w, target)
  PROVE  IInv'
<1>1. PICK s \in Spaces : /\ w # target /\ target \in Leaves(trees[s])
                          /\ Retree(s, Warp(trees[s], w, target))
  BY DEF WarpWindow
<1>2. Tree(trees[s])
  BY DEF IInv, IsForest
<1>3. Tree(Warp(trees[s], w, target))
  BY <1>1, <1>2, WarpTree
<1> QED BY <1>1, <1>3, RetreeRight

LEMMA StepRight == IInv /\ [Next]_vars => IInv'
<1> SUFFICES ASSUME IInv, [Next]_vars PROVE IInv'
  OBVIOUS
<1>1. \A s \in Spaces : Tree(trees[s])
  BY DEF IInv, IsForest
<1>2. CASE UNCHANGED vars
  BY <1>2 DEF vars, IInv, IsForest, Counts, Packed, TreesMatch, Filling, Shown
<1>3. CASE Refresh
  <2>1. PICK at \in [Windows -> Places] : Observed(trees, at, floating, closing)
    BY <1>3 DEF Refresh
  <2>2. refreshes < MaxRefresh /\ refreshes' = refreshes + 1 /\ edits' = edits
    BY <1>3 DEF Refresh
  <2>3. IsForest(trees) /\ floating \subseteq Windows /\ Counts
    BY DEF IInv
  <2>4. /\ seen' = at /\ floating' \subseteq floating /\ closing' = {} /\ missed' = 0
        /\ IsForest(trees') /\ Packed' /\ TreesMatch' /\ Filling'
    BY <2>1, <2>3, ObservedRight
  <2>5. Counts'
    BY <2>2, <2>3, <2>4, LayoutConstants DEF Counts
  <2> QED BY <2>3, <2>4, <2>5 DEF IInv
<1>4. ASSUME NEW s \in Spaces, RotateLayout(s) \/ MirrorLayout(s) \/ BalanceLayout(s)
      PROVE  IInv'
  <2>1. Tree(Rotate(trees[s])) /\ Tree(Mirror(trees[s])) /\ Tree(Balance(trees[s]))
    BY <1>1, BalanceTree, MirrorTree
  <2> QED BY <1>4, <2>1, RetreeRight DEF RotateLayout, MirrorLayout, BalanceLayout
<1>5. ASSUME NEW s \in Spaces, NEW r \in Ratios, SetSplitRatio(s, r)
      PROVE  IInv'
  <2>1. r \in Int
    BY LayoutConstants
  <2>2. Tree(SetRatio(trees[s], r))
    BY <1>1, <2>1, SetRatioTree
  <2> QED BY <1>5, <2>2, RetreeRight DEF SetSplitRatio
<1>6. ASSUME NEW w \in Windows, NEW e \in Edges, NEW d \in OutOrIn, ResizeWindowEdge(w, e, d)
      PROVE  IInv'
  <2>1. d \in Int
    <3>1. \A x \in Deltas : x \in Int /\ -x \in Int
      BY LayoutConstants
    <3> QED BY <3>1 DEF OutOrIn
  <2>2. PICK s \in Spaces : w \in Leaves(trees[s]) /\ Retree(s, ResizeEdge(trees[s], w, e, d))
    BY <1>6 DEF ResizeWindowEdge
  <2>3. Tree(ResizeEdge(trees[s], w, e, d))
    BY <1>1, <2>1, <2>2, ResizeTree
  <2> QED BY <2>2, <2>3, RetreeRight
<1>7. ASSUME NEW w \in Windows, ToggleFloat(w)
      PROVE  IInv'
  <2>1. PICK floats : /\ floats \in SUBSET Windows /\ Follow(trees, floats, closing)
    <3>1. (IF w \in floating THEN floating \ {w} ELSE floating \cup {w}) \in SUBSET Windows
      BY DEF IInv
    <3> QED BY <1>7, <3>1 DEF ToggleFloat
  <2>2. IsForest(trees) /\ closing \in SUBSET Windows
    BY DEF IInv
  <2> QED BY <2>1, <2>2, FollowRight
<1>8. ASSUME NEW w \in Windows, CloseWindow(w)
      PROVE  IInv'
  <2>1. Follow(trees, floating, closing \cup {w})
    BY <1>8 DEF CloseWindow
  <2>2. IsForest(trees) /\ floating \in SUBSET Windows /\ closing \cup {w} \in SUBSET Windows
    BY DEF IInv
  <2> QED BY <2>1, <2>2, FollowRight
<1>9. ASSUME NEW w \in Windows, SwapWindowsDirection(w) \/ WarpWindowDirection(w)
      PROVE  IInv'
  BY <1>9, SwapRight, WarpRight DEF SwapWindowsDirection, WarpWindowDirection
<1>10. ASSUME NEW a \in Windows, NEW b \in Windows, SwapWindows(a, b) \/ WarpWindow(a, b)
       PROVE  IInv'
  BY <1>10, SwapRight, WarpRight
<1> QED BY <1>2, <1>3, <1>4, <1>5, <1>6, <1>7, <1>8, <1>9, <1>10 DEF Next

-----------------------------------------------------------------------------
\* The theorems.

LEMMA TreeIsWellFormed ==
  ASSUME NEW t, Tree(t)
  PROVE  WellFormed(t, Windows)
<1>1. ASSUME NEW p \in DOMAIN t
      PROVE  /\ p # <<>> => Front(p) \in DOMAIN t /\ ~IsLeaf(t[Front(p)])
             /\ t[p] \in [win : Windows] \cup [axis : Axes, ratio : 1 .. 9]
             /\ ~IsLeaf(t[p]) => {Append(p, 1), Append(p, 2)} \subseteq DOMAIN t
  <2>1. p \in Paths /\ t[p] \in Nodes
    BY DEF Tree
  <2>2. ASSUME p # <<>> PROVE Front(p) \in DOMAIN t /\ ~IsLeaf(t[Front(p)])
    <3>1. PICK q \in Paths, i \in {1, 2} : q = Front(p) /\ p = Append(q, i)
      BY <2>1, <2>2, LastStep
    <3> QED BY <3>1 DEF Tree, Branching
  <2>3. ASSUME ~IsLeaf(t[p]) PROVE {Append(p, 1), Append(p, 2)} \subseteq DOMAIN t
    BY <2>1, <2>3 DEF Tree, Branching
  <2> QED BY <2>1, <2>2, <2>3 DEF Nodes
<1>2. ASSUME NEW w \in Windows PROVE Cardinality(HoldersOf(t, w)) <= 1
  <2>1. CASE HoldersOf(t, w) = {}
    BY <2>1, FS_EmptySet
  <2>2. CASE HoldersOf(t, w) # {}
    <3>1. PICK p : p \in HoldersOf(t, w)
      BY <2>2
    <3>2. \A q \in HoldersOf(t, w) : q = p
      BY <3>1, LeafIs DEF HoldersOf, Tree, Single
    <3>3. HoldersOf(t, w) = {p}
      BY <3>1, <3>2
    <3>4. Cardinality({p}) = 1
      BY FS_Singleton
    <3> QED BY <3>3, <3>4
  <2> QED BY <2>1, <2>2
<1> QED BY <1>1, <1>2 DEF WellFormed

\* Types; every tree is a binary tree with every window once, whatever commands
\* are applied to which tree and however many windows, Spaces and steps there are.
THEOREM TypeCorrect == Spec => []TypeOK
<1>1. IInv => TypeOK
  <2> SUFFICES ASSUME IInv PROVE TypeOK
    OBVIOUS
  <2>1. \A s \in Spaces : WellFormed(trees[s], Windows)
    BY TreeIsWellFormed DEF IInv, IsForest
  <2>2. \A w \in Windows : frames[w] = None \/ frames[w] \in Rects
    BY AreaIs DEF IInv, Packed
  <2> QED BY <2>1, <2>2 DEF IInv, Counts, TypeOK
<1> QED BY <1>1, InitRight, StepRight, PTL DEF Spec

\* After an observation the tree of a Space in use has its tiled windows and
\* none of another Space (apply_layout).
THEOREM TreesMatchHolds == Spec => []TreesMatch
<1>1. IInv => TreesMatch
  BY DEF IInv
<1> QED BY <1>1, InitRight, StepRight, PTL DEF Spec

\* The frames of a Space never overlap, and after an observation they fill the
\* display unless a window about to close keeps its slot (placements).
THEOREM TilingHolds == Spec => []Tiling
<1>1. IInv => Tiling
  <2> SUFFICES ASSUME IInv, NEW s \in Spaces
               PROVE  /\ \A u, v \in Shown(s) : u # v => Apart(frames[u], frames[v])
                      /\ missed = 0 /\ Shown(s) # {} /\ Leaves(trees[s]) \subseteq Shown(s)
                           => Filled(s)
    BY DEF Tiling
  <2>1. Packed /\ Filling
    BY DEF IInv
  <2>2. \A u, v \in Shown(s) : u # v => Apart(frames[u], frames[v])
    BY <2>1 DEF Packed
  <2>3. ASSUME missed = 0, Shown(s) # {}, Leaves(trees[s]) \subseteq Shown(s)
        PROVE  Filled(s)
    <3>1. \A w \in Shown(s) : frames[w] \in Rects
      BY <2>1, AreaIs DEF Packed, Shown
    <3> DEFINE X == {0} \cup UNION {{frames[w].x, frames[w].x + frames[w].w} : w \in Shown(s)}
               Y == {0} \cup UNION {{frames[w].y, frames[w].y + frames[w].h} : w \in Shown(s)}
    <3>2. \A w \in Shown(s) : /\ frames[w].x \in 0 .. Size
                              /\ frames[w].x + frames[w].w \in 0 .. Size
                              /\ frames[w].y \in 0 .. Size
                              /\ frames[w].y + frames[w].h \in 0 .. Size
      BY <2>1, LayoutConstants DEF Packed, Shown, Boxes, Within, Area
    <3>3. X \subseteq 0 .. Size /\ Y \subseteq 0 .. Size
      BY <3>2, LayoutConstants
    <3>4. ASSUME NEW x \in X \ {Size}, NEW y \in Y \ {Size}
          PROVE  \E w \in Shown(s) : Inside(x, y, frames[w])
      <4>1. x \in Int /\ y \in Int /\ Inside(x, y, Area)
        <5> HIDE DEF X, Y
        <5> QED BY <3>3, <3>4, LayoutConstants, AreaIs
      <4> QED BY <2>1, <2>3, <4>1 DEF Filling
    <3> QED BY <3>4 DEF Filled
  <2> QED BY <2>2, <2>3
<1> QED BY <1>1, InitRight, StepRight, PTL DEF Spec
=============================================================================
