----------------------------- MODULE TreeProofs -----------------------------
(***************************************************************************)
(* Theorems about the trees of TebFlat and MutableTree and about HybridTeb,*)
(* for every length of the bitmap.  A slot is found on a path of nodes,    *)
(* one on each level; the facts about the paths come first, with the       *)
(* arithmetic.  A tree is then read as the level on which each path ends   *)
(* in a leaf (Ends), and a write as what it does to these levels.  A TEB   *)
(* numbers the nodes of a tree in level order: it is read through their    *)
(* ranks (Encodes), by its own walk, and by the constructor of the mutable *)
(* tree.  An update in place writes one label (InOrder says what it        *)
(* needs); with that the diff in front of the TEB is followed step by step.*)
(***************************************************************************)
EXTENDS HybridTeb, TreeMerge, TebAlone, NatLemmas

\* A power is above its exponent.
LEMMA PowerAbove ==
  ASSUME NEW k \in Nat
  PROVE  k < 2^k
<1> DEFINE S == {x \in Nat : ~(x < 2^x)}
<1>1. SUFFICES ASSUME S # {} PROVE FALSE
  OBVIOUS
<1>2. PICK x \in S : \A y \in S : x <= y
  BY <1>1, LeastNatural
<1>3. x # 0
  <2>1. 0 \notin S
    BY PowerStep
  <2> QED
    BY <1>2, <2>1
<1>4. PICK m \in Nat : x = m + 1
  BY <1>3
<1>5. m < 2^m
  <2>1. m \notin S
    BY <1>2, <1>4
  <2> QED
    BY <2>1
<1>6. 2^x = 2 * 2^m /\ 2^m \in Nat
  BY <1>4, PowerStep, PowerOfTwo
<1> QED
  BY <1>2, <1>4, <1>5, <1>6

\* The height of the tree, and the number of its slots
LEMMA Height ==
  h \in Nat /\ n \in Nat /\ n > 0 /\ N <= n
<1> DEFINE S == {k \in Nat : 2^k >= N}
<1>1. N \in Nat
  BY BitmapTreeAssumption
<1>2. N \in S
  <2>1. N < 2^N /\ 2^N \in Nat
    BY <1>1, PowerAbove, PowerOfTwo
  <2> QED
    BY <1>1, <2>1
<1>3. PICK k \in S : \A y \in S : k <= y
  BY <1>2, LeastNatural
<1>4. k \in 0 .. N
  BY <1>1, <1>2, <1>3
<1>5. k = 0 \/ 2^(k - 1) < N
  <2>1. CASE k # 0
    <3>1. k - 1 \in Nat /\ ~(k <= k - 1)
      BY <1>3, <2>1
    <3>2. k - 1 \notin S
      BY <1>3, <3>1
    <3>3. 2^(k - 1) \in Nat
      BY <3>1, PowerOfTwo
    <3> QED
      BY <1>1, <3>1, <3>2, <3>3
  <2> QED
    BY <2>1
<1>6. h \in 0 .. N /\ 2^h >= N
  <2>1. \E x \in 0 .. N : 2^x >= N /\ (x = 0 \/ 2^(x - 1) < N)
    BY <1>3, <1>4, <1>5
  <2> QED
    BY <2>1 DEF h
<1>7. h \in Nat
  BY <1>1, <1>6
<1> QED
  BY <1>1, <1>6, <1>7, PowerOfTwo DEF n

\* The number of slots, parted at a level: 2^l nodes above 2^(h-l) slots each
LEMMA SlotsPerNode ==
  ASSUME NEW l \in 0 .. h
  PROVE  /\ l \in Nat /\ h - l \in Nat
         /\ 2^l \in Nat /\ 2^l > 0
         /\ 2^(h - l) \in Nat /\ 2^(h - l) > 0
         /\ n = 2^(h - l) * 2^l
<1>1. h \in Nat
  BY Height
<1>2. l \in Nat /\ h - l \in Nat /\ h = (h - l) + l
  BY <1>1
<1>3. 2^h = 2^(h - l) * 2^l
  BY <1>2, PowerSum
<1> QED
  BY <1>2, <1>3, PowerOfTwo DEF n

\* The node above a slot is a node of its level.
LEMMA PathNode ==
  ASSUME NEW p \in Slots, NEW l \in 0 .. h
  PROVE  /\ NodeAbove(p, l) \in Nat
         /\ 2^l - 1 <= NodeAbove(p, l)
         /\ NodeAbove(p, l) < 2 * 2^l - 1
<1>1. /\ 2^l \in Nat /\ 2^(h - l) \in Nat /\ 2^(h - l) > 0 /\ n = 2^(h - l) * 2^l
      /\ 2^l > 0
  BY SlotsPerNode
<1>2. p \in Nat /\ p < n
  BY Height DEF Slots
<1>3. p \div 2^(h - l) \in Nat
  BY <1>1, <1>2, BlockOf
<1>4. p \div 2^(h - l) < 2^l
  BY <1>1, <1>2, BeforeBlock
<1> QED
  BY <1>1, <1>3, <1>4 DEF NodeAbove, first_node_idx_at_level

\* A path starts at the root
LEMMA PathStart ==
  ASSUME NEW p \in Slots
  PROVE  NodeAbove(p, 0) = 0
<1>1. 0 \in 0 .. h
  BY Height
<1>2. 2^0 = 1
  BY PowerStep
<1>3. NodeAbove(p, 0) \in Nat /\ NodeAbove(p, 0) < 2 * 2^0 - 1
  BY <1>1, PathNode
<1> QED
  BY <1>2, <1>3

\* ... and ends in the slot.
LEMMA PathEnd ==
  ASSUME NEW p \in Slots
  PROVE  NodeAbove(p, h) = n - 1 + p
<1>1. h - h = 0 /\ p \in Nat
  BY Height DEF Slots
<1>2. 2^(h - h) = 1
  BY <1>1, PowerStep
<1>3. p \div 1 = p
  <2>1. p \div 1 \in Nat /\ p % 1 \in 0 .. 0 /\ p = 1 * (p \div 1) + (p % 1)
    BY <1>1, BlockOf
  <2> QED
    BY <2>1, <1>1
<1> QED
  BY <1>1, <1>2, <1>3, Height DEF NodeAbove, first_node_idx_at_level, n

\* On a path, the bit of the slot's number for a level says which child is next.
LEMMA PathBit ==
  ASSUME NEW p \in Slots, NEW l \in 0 .. h - 1
  PROVE  /\ DirectionBit(p, h - (l + 1)) \in 0 .. 1
         /\ NodeAbove(p, l + 1) = 2 * NodeAbove(p, l) + 1 + DirectionBit(p, h - (l + 1))
<1>1. h \in Nat /\ l \in 0 .. h /\ l + 1 \in 0 .. h
  BY Height
<1> DEFINE b == 2^(h - (l + 1))
<1>2. b \in Nat /\ b > 0 /\ 2^(l + 1) \in Nat
  BY <1>1, SlotsPerNode
<1>3. 2^(h - l) = 2 * b
  <2>1. h - (l + 1) \in Nat /\ (h - (l + 1)) + 1 = h - l
    BY <1>1
  <2> QED
    BY <2>1, PowerStep
<1>4. 2^(l + 1) = 2 * 2^l /\ 2^l \in Nat
  BY <1>1, PowerStep, SlotsPerNode
<1>5. p \in Nat
  BY Height DEF Slots
<1>6. PICK q \in Nat : q = p \div b
  BY <1>2, <1>5, BlockOf
<1>7. PICK r \in 0 .. b - 1 : p = b * q + r
  <2>1. p % b \in 0 .. b - 1 /\ p = b * (p \div b) + (p % b)
    BY <1>2, <1>5, BlockOf
  <2> QED
    BY <2>1, <1>6
<1>8. PICK u \in Nat, s \in 0 .. 1 : q = 2 * u + s /\ s = q % 2
  <2>1. q \div 2 \in Nat /\ q % 2 \in 0 .. 2 - 1 /\ q = 2 * (q \div 2) + (q % 2)
    BY BlockOf
  <2> QED
    BY <2>1
<1>9. p \div (2 * b) = u
  <2> HIDE DEF b
  <2>1. 2 * b \in Nat /\ 2 * b > 0 /\ b * s + r \in 0 .. 2 * b - 1
    <3>1. s = 0 \/ s = 1
      OBVIOUS
    <3>2. b * 0 = 0 /\ b * 1 = b
      BY <1>2
    <3> QED
      BY <1>2, <3>1, <3>2
  <2>2. p = (2 * b) * u + (b * s + r)
    <3>1. \A x \in Nat : x * (2 * u + s) = (2 * x) * u + x * s
      OBVIOUS
    <3>2. b * q = (2 * b) * u + b * s
      BY <1>2, <1>8, <3>1
    <3>3. b * s \in Nat /\ (2 * b) * u \in Nat
      BY <1>2
    <3> QED
      BY <1>2, <1>7, <3>2, <3>3
  <2> QED
    BY <2>1, <2>2, PlaceInBlock
<1>10. NodeAbove(p, l) = 2^l - 1 + u
  BY <1>3, <1>9 DEF NodeAbove, first_node_idx_at_level
<1>11. NodeAbove(p, l + 1) = 2^(l + 1) - 1 + (2 * u + s)
  BY <1>6, <1>8 DEF NodeAbove, first_node_idx_at_level
<1> HIDE DEF b
<1>12. DirectionBit(p, h - (l + 1)) = s
  BY <1>6, <1>8 DEF DirectionBit, b
<1> QED
  BY <1>4, <1>10, <1>11, <1>12

\* On a path, each node is the child of the one before.
LEMMA PathChild ==
  ASSUME NEW p \in Slots, NEW l \in 0 .. h - 1
  PROVE  NodeAbove(p, l + 1) \in Children(NodeAbove(p, l))
<1>1. DirectionBit(p, h - (l + 1)) = 0 \/ DirectionBit(p, h - (l + 1)) = 1
  BY PathBit
<1>2. l \in 0 .. h
  BY Height
<1>3. NodeAbove(p, l) \in Nat
  BY <1>2, PathNode
<1>4. NodeAbove(p, l + 1) = 2 * NodeAbove(p, l) + 1 + DirectionBit(p, h - (l + 1))
  BY PathBit
<1> QED
  BY <1>1, <1>3, <1>4 DEF Children

\* Nodes of a lower level have higher numbers.
LEMMA PathOrder ==
  ASSUME NEW p \in Slots, NEW q \in Slots, NEW l \in 0 .. h, NEW m \in 0 .. h, l < m
  PROVE  NodeAbove(p, l) < NodeAbove(q, m)
<1>1. l \in Nat /\ m \in Nat
  BY SlotsPerNode
<1>2. 2^(l + 1) <= 2^m
  BY <1>1, PowerOrder
<1>3. 2^(l + 1) = 2 * 2^l
  BY <1>1, PowerStep
<1>4. 2^l \in Nat /\ 2^m \in Nat
  BY <1>1, PowerOfTwo
<1>5. NodeAbove(p, l) \in Nat /\ NodeAbove(p, l) < 2 * 2^l - 1
  BY PathNode
<1>6. NodeAbove(q, m) \in Nat /\ 2^m - 1 <= NodeAbove(q, m)
  BY PathNode
<1> QED
  BY <1>2, <1>3, <1>4, <1>5, <1>6

\* No node has two parents.
LEMMA OneParent ==
  ASSUME NEW v \in Nat, NEW w \in Nat, Children(v) \cap Children(w) # {}
  PROVE  v = w
BY DEF Children

\* The paths to two slots part once.
LEMMA PathsPart ==
  ASSUME NEW p \in Slots, NEW q \in Slots, p # q
  PROVE  \E m \in 0 .. h - 1 :
           /\ \A k \in 0 .. m : NodeAbove(p, k) = NodeAbove(q, k)
           /\ \A k \in m + 1 .. h : NodeAbove(p, k) # NodeAbove(q, k)
<1>1. h \in Nat /\ p \in Nat /\ q \in Nat /\ n \in Nat
  BY Height DEF Slots
<1> DEFINE S == {k \in 0 .. h : NodeAbove(p, k) # NodeAbove(q, k)}
<1>2. h \in S
  <2>1. NodeAbove(p, h) = n - 1 + p /\ NodeAbove(q, h) = n - 1 + q
    BY PathEnd
  <2> QED
    BY <1>1, <2>1
<1>3. PICK k \in S : \A y \in S : k <= y
  <2>1. S \subseteq Nat
    BY <1>1
  <2> QED
    BY <1>2, <2>1, LeastNatural
<1>4. k # 0
  <2>1. NodeAbove(p, 0) = NodeAbove(q, 0)
    BY PathStart
  <2> QED
    BY <2>1
<1>5. k \in Nat /\ k <= h /\ k - 1 \in 0 .. h - 1 /\ (k - 1) + 1 = k
  BY <1>1, <1>4
<1>6. ASSUME NEW j \in 0 .. k - 1
      PROVE  NodeAbove(p, j) = NodeAbove(q, j)
  <2>1. j \in 0 .. h /\ ~(k <= j)
    BY <1>1, <1>5
  <2> QED
    BY <1>3, <2>1
<1> DEFINE R == {j \in k .. h : NodeAbove(p, j) = NodeAbove(q, j)}
<1>7. R = {}
  <2>1. SUFFICES ASSUME R # {} PROVE FALSE
    OBVIOUS
  <2>2. PICK j \in R : \A y \in R : j <= y
    <3>1. R \subseteq Nat
      BY <1>5
    <3> QED
      BY <2>1, <3>1, LeastNatural
  <2>3. j # k
    OBVIOUS
  <2>4. j - 1 \in k .. h /\ j - 1 \in 0 .. h - 1 /\ (j - 1) + 1 = j /\ ~(j <= j - 1)
    <3>1. j \in Nat /\ k <= j /\ j <= h
      BY <1>1, <1>5
    <3> QED
      BY <1>1, <1>5, <2>3, <3>1
  <2>5. NodeAbove(p, j - 1) # NodeAbove(q, j - 1)
    BY <2>2, <2>4
  <2>6. /\ NodeAbove(p, j) \in Children(NodeAbove(p, j - 1))
        /\ NodeAbove(q, j) \in Children(NodeAbove(q, j - 1))
    <3>1. /\ NodeAbove(p, (j - 1) + 1) \in Children(NodeAbove(p, j - 1))
          /\ NodeAbove(q, (j - 1) + 1) \in Children(NodeAbove(q, j - 1))
      BY <2>4, PathChild
    <3> QED
      BY <2>4, <3>1
  <2>7. NodeAbove(p, j - 1) \in Nat /\ NodeAbove(q, j - 1) \in Nat
    <3>1. j - 1 \in 0 .. h
      BY <2>4, <1>1
    <3> QED
      BY <3>1, PathNode
  <2>8. NodeAbove(p, j) = NodeAbove(q, j)
    BY <2>2
  <2> QED
    BY <2>5, <2>6, <2>7, <2>8, OneParent
<1>8. \A j \in (k - 1) + 1 .. h : NodeAbove(p, j) # NodeAbove(q, j)
  BY <1>5, <1>7
<1> QED
  BY <1>5, <1>6, <1>8

\* The level of a node, by its number
LEMMA PathLevel ==
  ASSUME NEW p \in Slots, NEW l \in 0 .. h
  PROVE  level_of(NodeAbove(p, l)) = l
<1> DEFINE v == NodeAbove(p, l)
<1>1. v \in Nat /\ 2^l - 1 <= v /\ v < 2 * 2^l - 1
  BY PathNode
<1>2. l \in Nat /\ 2^l \in Nat /\ 2^(l + 1) = 2 * 2^l
  BY SlotsPerNode, PowerStep
<1>3. 2^l <= v + 1 /\ v + 1 < 2^(l + 1)
  BY <1>1, <1>2
<1>4. l < 2^l
  BY <1>2, PowerAbove
<1>5. l \in 0 .. v + 1
  BY <1>1, <1>2, <1>3, <1>4
<1>6. ASSUME NEW k \in 0 .. v + 1, 2^k <= v + 1, v + 1 < 2^(k + 1)
      PROVE  k = l
  <2>1. k \in Nat /\ 2^k \in Nat /\ 2^(k + 1) \in Nat /\ 2^(l + 1) \in Nat
    BY <1>1, <1>2, PowerOfTwo
  <2>2. k < l => 2^(k + 1) <= 2^l
    BY <2>1, <1>2, PowerOrder
  <2>3. l < k => 2^(l + 1) <= 2^k
    BY <2>1, <1>2, PowerOrder
  <2> QED
    BY <1>1, <1>2, <1>3, <1>6, <2>1, <2>2, <2>3
<1> HIDE DEF v
<1>7. Log2(v + 1) = l
  BY <1>3, <1>5, <1>6 DEF Log2
<1> QED
  BY <1>7 DEF level_of, v

-----------------------------------------------------------------------------
\* What the writes rely on and keep
GoodTree(tree) == IsTree(tree) /\ SkippedArePerfect(tree)

\* The path to slot p ends in a leaf on level e: the nodes above it, and no
\* others on the path, are inner.
Ends(tree, p, e) ==
  /\ e \in 0 .. h
  /\ \A k \in 0 .. h : NodeAbove(p, k) \in tree.inner <=> k < e

\* Above an inner node, a path has inner nodes only.
LEMMA InnerAbove ==
  ASSUME NEW tree, IsTree(tree), NEW p \in Slots, NEW l \in 0 .. h - 1,
         NodeAbove(p, l + 1) \in tree.inner
  PROVE  NodeAbove(p, l) \in tree.inner
<1> DEFINE v == NodeAbove(p, l)
           w == NodeAbove(p, l + 1)
<1>1. h \in Nat /\ l \in 0 .. h /\ l + 1 \in 0 .. h
  BY Height
<1>2. v \in Nat /\ w \in Nat
  BY <1>1, PathNode
<1>3. w \in Children(v)
  BY PathChild
<1>4. w # 0
  BY <1>2, <1>3 DEF Children
<1>5. w \in {0} \cup UNION {Children(u) : u \in tree.inner}
  BY DEF IsTree
<1>6. PICK u \in tree.inner : w \in Children(u)
  BY <1>4, <1>5
<1>7. u \in Nat
  BY <1>6, Height DEF IsTree
<1>8. u = v
  BY <1>2, <1>3, <1>6, <1>7, OneParent
<1> QED
  BY <1>6, <1>8

\* The path to every slot ends in a leaf, at or below the first level that the
\* walk looks at.
LEMMA PathHasLeaf ==
  ASSUME NEW tree, GoodTree(tree), NEW p \in Slots
  PROVE  \E e \in tree.perfect - 1 .. h : Ends(tree, p, e)
<1> DEFINE S == {k \in 0 .. h : NodeAbove(p, k) \notin tree.inner}
<1>1. h \in Nat /\ n \in Nat /\ n > 0 /\ p \in Nat
  BY Height DEF Slots
<1>2. tree.inner \subseteq 0 .. n - 2 /\ tree.perfect \in 1 .. h + 1
  BY DEF GoodTree, IsTree
<1>3. h \in S
  <2>1. NodeAbove(p, h) = n - 1 + p
    BY PathEnd
  <2> QED
    BY <1>1, <1>2, <2>1
<1>4. PICK e \in S : \A y \in S : e <= y
  <2>1. S \subseteq Nat
    BY <1>1
  <2> QED
    BY <1>3, <2>1, LeastNatural
<1>5. e \in Nat /\ e <= h
  BY <1>1
<1>6. \A k \in 0 .. h : k < e => NodeAbove(p, k) \in tree.inner
  BY <1>4, <1>5
<1>7. \A k \in 0 .. h : k >= e => NodeAbove(p, k) \notin tree.inner
  <2> DEFINE R == {k \in e .. h : NodeAbove(p, k) \in tree.inner}
  <2>1. R = {}
    <3>1. SUFFICES ASSUME R # {} PROVE FALSE
      OBVIOUS
    <3>2. PICK k \in R : \A y \in R : k <= y
      <4>1. R \subseteq Nat
        BY <1>5
      <4> QED
        BY <3>1, <4>1, LeastNatural
    <3>3. k # e
      OBVIOUS
    <3>4. k \in Nat /\ k <= h /\ e <= k
      BY <1>1, <1>5
    <3>5. k - 1 \in 0 .. h - 1 /\ (k - 1) + 1 = k /\ k - 1 \in e .. h /\ ~(k <= k - 1)
      BY <1>1, <1>5, <3>3, <3>4
    <3>6. NodeAbove(p, (k - 1) + 1) \in tree.inner
      BY <3>5
    <3>7. NodeAbove(p, k - 1) \in tree.inner
      BY <3>5, <3>6, InnerAbove DEF GoodTree
    <3> QED
      BY <3>2, <3>5, <3>7
  <2> QED
    BY <1>5, <2>1
<1>8. tree.perfect - 1 <= e
  <2>1. SUFFICES ASSUME e < tree.perfect - 1 PROVE FALSE
    BY <1>2, <1>5
  <2>2. tree.perfect - 1 \in Nat
    BY <1>1, <1>2
  <2>3. 2^(e + 1) <= 2^(tree.perfect - 1) /\ 2^(e + 1) = 2 * 2^e
    BY <1>5, <2>1, <2>2, PowerOrder, PowerStep
  <2>4. 2^e \in Nat /\ 2^(tree.perfect - 1) \in Nat
    BY <1>5, <2>2, PowerOfTwo
  <2>5. NodeAbove(p, e) \in Nat /\ NodeAbove(p, e) < 2 * 2^e - 1
    BY PathNode
  <2>6. NodeAbove(p, e) \in 0 .. 2^(tree.perfect - 1) - 1 - 1
    BY <2>3, <2>4, <2>5
  <2>7. NodeAbove(p, e) \in tree.inner
    BY <2>6 DEF GoodTree, SkippedArePerfect, first_node_idx_at_level
  <2> QED
    BY <2>7
<1>9. Ends(tree, p, e)
  BY <1>1, <1>5, <1>6, <1>7 DEF Ends
<1>10. e \in tree.perfect - 1 .. h
  BY <1>1, <1>2, <1>5, <1>8
<1> QED
  BY <1>9, <1>10

\* The walk finds the leaf that the path ends in.
LEMMA WalkFindsLeaf ==
  ASSUME NEW tree, GoodTree(tree), NEW p \in Slots, NEW e, Ends(tree, p, e)
  PROVE  /\ e \in tree.perfect - 1 .. h
         /\ LeafLevel(tree, p) = e
         /\ tree_test(tree, p) = (NodeAbove(p, e) \in tree.labels)
<1>1. h \in Nat /\ tree.perfect \in 1 .. h + 1
  BY Height DEF GoodTree, IsTree
<1>2. PICK d \in tree.perfect - 1 .. h : Ends(tree, p, d)
  BY PathHasLeaf
<1>3. d = e
  <2>1. d \in 0 .. h /\ e \in 0 .. h
    BY <1>2 DEF Ends
  <2>2. NodeAbove(p, d) \notin tree.inner /\ NodeAbove(p, e) \notin tree.inner
    BY <1>1, <1>2, <2>1 DEF Ends
  <2>3. ~(d < e) /\ ~(e < d)
    BY <1>2, <2>1, <2>2 DEF Ends
  <2> QED
    BY <1>1, <2>1, <2>3
<1>4. \A k \in tree.perfect - 1 .. h : NodeAbove(p, k) \in tree.inner <=> k < e
  BY <1>1 DEF Ends
<1>5. /\ NodeAbove(p, e) \notin tree.inner
      /\ \A k \in tree.perfect - 1 .. e - 1 : NodeAbove(p, k) \in tree.inner
  BY <1>1, <1>2, <1>3, <1>4
<1>6. ASSUME NEW l \in tree.perfect - 1 .. h, NodeAbove(p, l) \notin tree.inner,
             \A k \in tree.perfect - 1 .. l - 1 : NodeAbove(p, k) \in tree.inner
      PROVE  l = e
  <2>1. ~(l < e)
    BY <1>4, <1>6
  <2>2. e < l => e \in tree.perfect - 1 .. l - 1
    BY <1>1, <1>2, <1>3
  <2>3. ~(e < l)
    BY <1>5, <1>6, <2>2
  <2> QED
    BY <1>1, <1>2, <1>3, <2>1, <2>3
<1>7. LeafLevel(tree, p) = e
  BY <1>2, <1>3, <1>5, <1>6 DEF LeafLevel
<1> QED
  BY <1>2, <1>3, <1>7 DEF tree_test

-----------------------------------------------------------------------------
\* Node v becomes a leaf, with the label of its children.
Joined(tree, v) == SetLabel(SetLeaf(tree, v), v, 2 * v + 1 \in tree.labels)

\* What a collapse leaves of the record
LEMMA JoinedParts ==
  ASSUME NEW tree, IsTree(tree), NEW v \in Nodes
  PROVE  /\ Joined(tree, v).inner = tree.inner \ {v}
         /\ Joined(tree, v).active = tree.active \ Children(v)
         /\ Joined(tree, v).perfect = tree.perfect
         /\ \A u : u # v => (u \in Joined(tree, v).labels <=> u \in tree.labels)
         /\ v \in Joined(tree, v).labels <=> 2 * v + 1 \in tree.labels
         /\ Joined(tree, v) \in [inner : SUBSET (0 .. n - 2), active : SUBSET Nodes,
                                 labels : SUBSET Nodes, perfect : 1 .. h + 1]
BY DEF Joined, SetLabel, SetLeaf, IsTree

\* A path leads through one node of each level.
LEMMA OncePerPath ==
  ASSUME NEW p \in Slots, NEW q \in Slots, NEW l \in 0 .. h, NEW k \in 0 .. h, k # l
  PROVE  NodeAbove(q, k) # NodeAbove(p, l)
<1>1. k \in Nat /\ l \in Nat
  BY SlotsPerNode
<1>2. NodeAbove(q, k) \in Nat /\ NodeAbove(p, l) \in Nat
  BY PathNode
<1>3. k < l \/ l < k
  BY <1>1
<1> QED
  BY <1>2, <1>3, PathOrder

\* The nodes of the paths are nodes of the tree.
LEMMA PathInTree ==
  ASSUME NEW p \in Slots, NEW l \in 0 .. h
  PROVE  /\ NodeAbove(p, l) \in Nodes
         /\ l < h => NodeAbove(p, l) \in 0 .. n - 2
<1>1. h \in Nat /\ l \in Nat /\ n \in Nat /\ 2^l \in Nat
  BY Height, SlotsPerNode
<1>2. NodeAbove(p, l) \in Nat /\ NodeAbove(p, l) < 2 * 2^l - 1
  BY PathNode
<1>3. l < h => 2 * 2^l <= n
  <2>1. ASSUME l < h PROVE 2 * 2^l <= n
    <3>1. 2^(l + 1) <= 2^h
      BY <1>1, <2>1, PowerOrder
    <3> QED
      BY <1>1, <3>1, PowerStep DEF n
  <2> QED
    BY <2>1
<1>4. l = h => 2^l = n
  BY DEF n
<1> QED
  BY <1>1, <1>2, <1>3, <1>4 DEF Nodes

\* A collapse keeps the tree a tree, and every bit.
LEMMA JoinKeeps ==
  ASSUME NEW tree, GoodTree(tree), NEW p \in Slots, NEW l \in 1 .. h - 1,
         Ends(tree, p, l + 1), Collapsible(tree, NodeAbove(p, l))
  PROVE  LET after == Joined(tree, NodeAbove(p, l))
         IN  /\ GoodTree(after) /\ after.perfect = tree.perfect
             /\ Ends(after, p, l)
             /\ \A q \in Slots : tree_test(after, q) = tree_test(tree, q)
<1> DEFINE v == NodeAbove(p, l)
           after == Joined(tree, v)
<1>1. h \in Nat /\ n \in Nat /\ l \in 0 .. h /\ l + 1 \in 0 .. h /\ l \in 0 .. h - 1
  BY Height
<1>2. v \in Nodes /\ v \in Nat
  BY <1>1, PathInTree, PathNode
<1>3. IsTree(tree) /\ SkippedArePerfect(tree)
  BY DEF GoodTree
<1>4. /\ after.inner = tree.inner \ {v}
      /\ after.active = tree.active \ Children(v)
      /\ after.perfect = tree.perfect
      /\ \A u : u # v => (u \in after.labels <=> u \in tree.labels)
      /\ v \in after.labels <=> 2 * v + 1 \in tree.labels
      /\ after \in [inner : SUBSET (0 .. n - 2), active : SUBSET Nodes,
                    labels : SUBSET Nodes, perfect : 1 .. h + 1]
  BY <1>2, <1>3, JoinedParts
<1>5. /\ Children(v) \cap tree.inner = {}
      /\ 2 * v + 1 \in tree.labels <=> 2 * v + 2 \in tree.labels
      /\ l > tree.perfect
  <2>1. level_of(v) = l
    BY <1>1, PathLevel
  <2> HIDE DEF v
  <2> QED
    BY <2>1 DEF Collapsible, v
<1> HIDE DEF after, v
<1>6. IsTree(after)
  <2>1. tree.active = {0} \cup UNION {Children(u) : u \in tree.inner}
    BY <1>3 DEF IsTree
  <2>2. tree.inner \subseteq Nat /\ tree.inner \subseteq tree.active
    BY <1>1, <1>3 DEF IsTree
  <2>3. after.inner \subseteq after.active
    BY <1>4, <1>5, <2>2
  <2>4. ASSUME NEW x
        PROVE  x \in after.active <=> x \in {0} \cup UNION {Children(u) : u \in after.inner}
    <3>1. ASSUME x \in after.active
          PROVE  x \in {0} \cup UNION {Children(u) : u \in after.inner}
      <4>1. x \in tree.active /\ x \notin Children(v)
        BY <1>4, <3>1
      <4>2. CASE x # 0
        <5>1. PICK u \in tree.inner : x \in Children(u)
          BY <2>1, <4>1, <4>2
        <5>2. u \in after.inner
          BY <1>4, <4>1, <5>1
        <5> QED
          BY <5>1, <5>2
      <4> QED
        BY <4>2
    <3>2. ASSUME x \in {0} \cup UNION {Children(u) : u \in after.inner}
          PROVE  x \in after.active
      <4>1. CASE x = 0
        <5>1. 0 \notin Children(v)
          BY <1>2 DEF Children
        <5> QED
          BY <1>4, <2>1, <4>1, <5>1
      <4>2. CASE x # 0
        <5>1. PICK u \in after.inner : x \in Children(u)
          BY <3>2, <4>2
        <5>2. u \in tree.inner /\ u # v /\ u \in Nat
          BY <1>4, <2>2, <5>1
        <5>3. x \notin Children(v)
          BY <1>2, <5>1, <5>2, OneParent
        <5>4. x \in tree.active
          BY <2>1, <5>1, <5>2
        <5> QED
          BY <1>4, <5>3, <5>4
      <4> QED
        BY <4>1, <4>2
    <3> QED
      BY <3>1, <3>2
  <2>5. after.active = {0} \cup UNION {Children(u) : u \in after.inner}
    BY <2>4
  <2> QED
    BY <1>4, <2>3, <2>5 DEF IsTree
<1>7. SkippedArePerfect(after)
  <2>1. tree.perfect \in 1 .. h + 1
    BY <1>3 DEF IsTree
  <2>2. tree.perfect - 1 \in Nat /\ l \in Nat /\ tree.perfect - 1 < l
    BY <1>1, <1>5, <2>1
  <2>3. 2^((tree.perfect - 1) + 1) <= 2^l /\ 2^((tree.perfect - 1) + 1) = 2 * 2^(tree.perfect - 1)
    BY <2>2, PowerOrder, PowerStep
  <2>4. 2^l \in Nat /\ 2^(tree.perfect - 1) \in Nat
    BY <2>2, PowerOfTwo
  <2>5. 2^l - 1 <= v
    BY <1>1, PathNode DEF v
  <2>6. v \notin 0 .. 2^(tree.perfect - 1) - 1 - 1
    BY <1>2, <2>3, <2>4, <2>5
  <2> QED
    BY <1>3, <1>4, <2>6 DEF SkippedArePerfect, first_node_idx_at_level
<1>8. GoodTree(after)
  BY <1>6, <1>7 DEF GoodTree
<1>9. ASSUME NEW q \in Slots
      PROVE  /\ tree_test(after, q) = tree_test(tree, q)
             /\ q = p => Ends(after, p, l)
  <2>1. PICK e \in 0 .. h : Ends(tree, q, e)
    <3>1. PICK e : Ends(tree, q, e)
      BY PathHasLeaf
    <3> QED
      BY <3>1 DEF Ends
  <2>2. \A k \in 0 .. h : NodeAbove(q, k) \in tree.inner <=> k < e
    BY <2>1 DEF Ends
  <2>3. \A k \in 0 .. h : k # l => NodeAbove(q, k) # v
    BY <1>1, OncePerPath DEF v
  <2>4. tree_test(tree, q) = (NodeAbove(q, e) \in tree.labels)
    BY <2>1, WalkFindsLeaf
  <2>5. CASE NodeAbove(q, l) = v
    <3>1. v \in tree.inner
      BY <1>1 DEF Ends, v
    <3>2. NodeAbove(q, l + 1) \in Children(v)
      BY <1>1, <2>5, PathChild
    <3>3. l < e /\ ~(l + 1 < e)
      BY <1>1, <1>5, <2>2, <2>5, <3>1, <3>2
    <3>4. e = l + 1
      BY <1>1, <3>3
    <3>5. \A k \in 0 .. h : NodeAbove(q, k) \in after.inner <=> k < l
      <4>1. ASSUME NEW k \in 0 .. h
            PROVE  NodeAbove(q, k) \in after.inner <=> k < l
        <5>1. NodeAbove(q, k) \in after.inner <=> k < e /\ k # l
          BY <1>4, <2>2, <2>3, <2>5
        <5> QED
          BY <1>1, <3>4, <5>1
      <4> QED
        BY <4>1
    <3>6. Ends(after, q, l)
      BY <1>1, <3>5 DEF Ends
    <3>7. tree_test(after, q) = (v \in after.labels)
      BY <1>8, <2>5, <3>6, WalkFindsLeaf
    <3>8. NodeAbove(q, e) \in tree.labels <=> 2 * v + 1 \in tree.labels
      BY <1>5, <3>2, <3>4 DEF Children
    <3> QED
      BY <1>4, <2>4, <3>6, <3>7, <3>8
  <2>6. CASE NodeAbove(q, l) # v
    <3>1. \A k \in 0 .. h : NodeAbove(q, k) # v
      BY <2>3, <2>6
    <3>2. Ends(after, q, e)
      BY <1>4, <2>2, <3>1 DEF Ends
    <3>3. tree_test(after, q) = (NodeAbove(q, e) \in after.labels)
      BY <1>8, <3>2, WalkFindsLeaf
    <3>4. q # p
      BY <2>6 DEF v
    <3> QED
      BY <1>4, <2>4, <3>1, <3>3, <3>4
  <2> QED
    BY <2>5, <2>6
<1> QED
  BY <1>4, <1>8, <1>9 DEF after, v

-----------------------------------------------------------------------------
\* The path that is opened by a write to slot p, and the nodes beside it, when
\* the path ended on level top
Opened(p, top)    == {NodeAbove(p, l) : l \in top .. h - 1}
OnPath(p, top)    == {NodeAbove(p, l) : l \in top .. h}
ChildrenOf(nodes) == UNION {Children(v) : v \in nodes}
Beside(p, top)    == ChildrenOf(Opened(p, top)) \ OnPath(p, top)

\* The nodes that an expansion adds are nodes of the tree.
LEMMA OpenedInTree ==
  ASSUME NEW p \in Slots, NEW top \in 0 .. h
  PROVE  /\ Opened(p, top) \subseteq 0 .. n - 2
         /\ ChildrenOf(Opened(p, top)) \subseteq Nodes
<1>1. h \in Nat /\ n \in Nat
  BY Height
<1>2. ASSUME NEW l \in top .. h - 1
      PROVE  NodeAbove(p, l) \in 0 .. n - 2
  <2>1. l \in 0 .. h /\ l < h
    BY <1>1
  <2> QED
    BY <2>1, PathInTree
<1>3. Opened(p, top) \subseteq 0 .. n - 2
  BY <1>2 DEF Opened
<1>4. \A v \in 0 .. n - 2 : Children(v) \subseteq Nodes
  BY <1>1 DEF Children, Nodes
<1> QED
  BY <1>3, <1>4 DEF ChildrenOf

\* What an expansion makes of the record
LEMMA ExpandParts ==
  ASSUME NEW tree, IsTree(tree), NEW p \in Slots, NEW value \in BOOLEAN,
         NEW top \in 0 .. h, LeafLevel(tree, p) = top
  PROVE  /\ Expand(tree, p, value).inner = tree.inner \cup Opened(p, top)
         /\ Expand(tree, p, value).active = tree.active \cup ChildrenOf(Opened(p, top))
         /\ Expand(tree, p, value).perfect = tree.perfect
         /\ NodeAbove(p, h) \in Expand(tree, p, value).labels <=> value
         /\ \A u : u # NodeAbove(p, h) =>
              (u \in Expand(tree, p, value).labels
                 <=> IF u \in Beside(p, top) THEN ~value ELSE u \in tree.labels)
         /\ Expand(tree, p, value) \in
              [inner : SUBSET (0 .. n - 2), active : SUBSET Nodes,
               labels : SUBSET Nodes, perfect : 1 .. h + 1]
<1> DEFINE opened == [tree EXCEPT !.inner  = @ \cup Opened(p, top),
                                  !.active = @ \cup ChildrenOf(Opened(p, top)),
                                  !.labels = IF value THEN @ \ Beside(p, top)
                                             ELSE @ \cup Beside(p, top)]
           after == SetLabel(opened, NodeAbove(p, h), value)
<1>1. Expand(tree, p, value) = after
  <2>1. Expand(tree, p, value) =
          SetLabel([tree EXCEPT
                      !.inner  = @ \cup Opened(p, LeafLevel(tree, p)),
                      !.active = @ \cup ChildrenOf(Opened(p, LeafLevel(tree, p))),
                      !.labels = IF value THEN @ \ Beside(p, LeafLevel(tree, p))
                                 ELSE @ \cup Beside(p, LeafLevel(tree, p))],
                   NodeAbove(p, h), value)
    BY Zenon DEF Expand, Opened, OnPath, ChildrenOf, Beside
  <2> QED
    BY <2>1
<1>2. tree \in [inner : SUBSET (0 .. n - 2), active : SUBSET Nodes,
                labels : SUBSET Nodes, perfect : 1 .. h + 1]
  BY DEF IsTree
<1>3. /\ Opened(p, top) \subseteq 0 .. n - 2
      /\ ChildrenOf(Opened(p, top)) \subseteq Nodes
      /\ Beside(p, top) \subseteq Nodes
      /\ NodeAbove(p, h) \in Nodes
  BY OpenedInTree, PathInTree, Height DEF Beside
<1>4. /\ opened.inner = tree.inner \cup Opened(p, top)
      /\ opened.active = tree.active \cup ChildrenOf(Opened(p, top))
      /\ opened.perfect = tree.perfect
      /\ opened.labels = IF value THEN tree.labels \ Beside(p, top)
                         ELSE tree.labels \cup Beside(p, top)
      /\ opened \in [inner : SUBSET (0 .. n - 2), active : SUBSET Nodes,
                     labels : SUBSET Nodes, perfect : 1 .. h + 1]
  BY <1>2, <1>3
<1> HIDE DEF opened
<1>5. /\ after.inner = opened.inner
      /\ after.active = opened.active
      /\ after.perfect = opened.perfect
      /\ after.labels = IF value THEN opened.labels \cup {NodeAbove(p, h)}
                        ELSE opened.labels \ {NodeAbove(p, h)}
      /\ after \in [inner : SUBSET (0 .. n - 2), active : SUBSET Nodes,
                    labels : SUBSET Nodes, perfect : 1 .. h + 1]
  BY <1>3, <1>4 DEF SetLabel
<1> HIDE DEF after
<1> QED
  BY <1>1, <1>4, <1>5

\* An expansion keeps the tree a tree, and changes the bit that is written.
LEMMA ExpandKeeps ==
  ASSUME NEW tree, GoodTree(tree), NEW p \in Slots, NEW value \in BOOLEAN,
         tree_test(tree, p) = ~value
  PROVE  LET after == Expand(tree, p, value)
         IN  /\ GoodTree(after) /\ after.perfect = tree.perfect
             /\ Ends(after, p, h)
             /\ \A q \in Slots :
                  tree_test(after, q) = IF q = p THEN value ELSE tree_test(tree, q)
<1> DEFINE after == Expand(tree, p, value)
<1>1. h \in Nat /\ n \in Nat
  BY Height
<1>2. IsTree(tree) /\ SkippedArePerfect(tree)
  BY DEF GoodTree
<1>3. PICK top \in 0 .. h : Ends(tree, p, top)
  <2>1. PICK e : Ends(tree, p, e)
    BY PathHasLeaf
  <2> QED
    BY <2>1 DEF Ends
<1>4. LeafLevel(tree, p) = top /\ tree_test(tree, p) = (NodeAbove(p, top) \in tree.labels)
  BY <1>3, WalkFindsLeaf
<1>5. /\ after.inner = tree.inner \cup Opened(p, top)
      /\ after.active = tree.active \cup ChildrenOf(Opened(p, top))
      /\ after.perfect = tree.perfect
      /\ NodeAbove(p, h) \in after.labels <=> value
      /\ \A u : u # NodeAbove(p, h) =>
           (u \in after.labels <=> IF u \in Beside(p, top) THEN ~value ELSE u \in tree.labels)
      /\ after \in [inner : SUBSET (0 .. n - 2), active : SUBSET Nodes,
                    labels : SUBSET Nodes, perfect : 1 .. h + 1]
  BY <1>2, <1>4, ExpandParts
<1> HIDE DEF after
<1>6. tree.active = {0} \cup ChildrenOf(tree.inner) /\ tree.inner \subseteq tree.active
  BY <1>2 DEF IsTree, ChildrenOf
<1>7. \A k \in 0 .. h : NodeAbove(p, k) \in tree.inner <=> k < top
  BY <1>3 DEF Ends
<1>8. IsTree(after)
  <2>1. ChildrenOf(tree.inner \cup Opened(p, top))
          = ChildrenOf(tree.inner) \cup ChildrenOf(Opened(p, top))
    BY DEF ChildrenOf
  <2>2. after.active = {0} \cup ChildrenOf(after.inner)
    BY <1>5, <1>6, <2>1
  <2>3. ASSUME NEW l \in top .. h - 1
        PROVE  NodeAbove(p, l) \in after.active
    <3>1. CASE l = 0
      BY <1>5, <1>6, <3>1, PathStart
    <3>2. CASE l # 0
      <4>1. l - 1 \in 0 .. h - 1 /\ (l - 1) + 1 = l /\ l - 1 \in 0 .. h
        BY <1>1, <3>2
      <4>2. NodeAbove(p, (l - 1) + 1) \in Children(NodeAbove(p, l - 1))
        BY <4>1, PathChild
      <4>3. NodeAbove(p, l - 1) \in after.inner
        <5>1. CASE l - 1 < top
          BY <1>5, <1>7, <4>1, <5>1
        <5>2. CASE ~(l - 1 < top)
          <6>1. l - 1 \in top .. h - 1
            BY <1>1, <4>1, <5>2
          <6> QED
            BY <1>5, <6>1 DEF Opened
        <5> QED
          BY <5>1, <5>2
      <4> QED
        BY <2>2, <4>1, <4>2, <4>3 DEF ChildrenOf
    <3> QED
      BY <3>1, <3>2
  <2>4. after.inner \subseteq after.active
    BY <1>5, <1>6, <2>3 DEF Opened
  <2> QED
    BY <1>5, <2>2, <2>4 DEF IsTree, ChildrenOf
<1>9. GoodTree(after)
  BY <1>2, <1>5, <1>8 DEF GoodTree, SkippedArePerfect
<1>10. \A q \in Slots, k \in 0 .. h :
         NodeAbove(q, k) \in Opened(p, top)
           <=> (top <= k /\ k < h /\ NodeAbove(q, k) = NodeAbove(p, k))
  <2>1. ASSUME NEW q \in Slots, NEW k \in 0 .. h, NodeAbove(q, k) \in Opened(p, top)
        PROVE  top <= k /\ k < h /\ NodeAbove(q, k) = NodeAbove(p, k)
    <3>1. PICK l \in top .. h - 1 : NodeAbove(q, k) = NodeAbove(p, l)
      BY <2>1 DEF Opened
    <3>2. l \in 0 .. h
      BY <1>1
    <3>3. k = l
      BY <3>1, <3>2, OncePerPath
    <3> QED
      BY <1>1, <3>1, <3>3
  <2>2. ASSUME NEW q \in Slots, NEW k \in 0 .. h, top <= k, k < h,
               NodeAbove(q, k) = NodeAbove(p, k)
        PROVE  NodeAbove(q, k) \in Opened(p, top)
    <3>1. k \in top .. h - 1
      BY <1>1, <2>2
    <3> QED
      BY <2>2, <3>1 DEF Opened
  <2> QED
    BY <2>1, <2>2
<1>11. Ends(after, p, h)
  <2>1. ASSUME NEW k \in 0 .. h
        PROVE  NodeAbove(p, k) \in after.inner <=> k < h
    <3>1. NodeAbove(p, k) \in after.inner <=> k < top \/ (top <= k /\ k < h)
      BY <1>5, <1>7, <1>10
    <3> QED
      BY <1>1, <3>1
  <2> QED
    BY <1>1, <2>1 DEF Ends
<1>12. tree_test(after, p) = value
  <2>1. tree_test(after, p) = (NodeAbove(p, h) \in after.labels)
    BY <1>9, <1>11, WalkFindsLeaf
  <2> QED
    BY <1>5, <2>1
<1>13. ASSUME NEW q \in Slots, q # p
       PROVE  tree_test(after, q) = tree_test(tree, q)
  <2>1. PICK m \in 0 .. h - 1 :
          /\ \A k \in 0 .. m : NodeAbove(p, k) = NodeAbove(q, k)
          /\ \A k \in m + 1 .. h : NodeAbove(p, k) # NodeAbove(q, k)
    BY <1>13, PathsPart
  <2>2. m \in Nat /\ m < h /\ m \in 0 .. h /\ m + 1 \in 0 .. h
    BY <1>1
  <2>3. PICK e \in 0 .. h : Ends(tree, q, e)
    <3>1. PICK e : Ends(tree, q, e)
      BY PathHasLeaf
    <3> QED
      BY <3>1 DEF Ends
  <2>4. tree_test(tree, q) = (NodeAbove(q, e) \in tree.labels)
    BY <2>3, WalkFindsLeaf
  <2>5. \A k \in 0 .. h : NodeAbove(q, k) \in tree.inner <=> k < e
    BY <2>3 DEF Ends
  <2>6. \A k \in 0 .. h : NodeAbove(q, k) \in after.inner <=> k < e \/ (top <= k /\ k <= m)
    <3>1. ASSUME NEW k \in 0 .. h
          PROVE  NodeAbove(q, k) \in after.inner <=> k < e \/ (top <= k /\ k <= m)
      <4>1. NodeAbove(q, k) = NodeAbove(p, k) <=> k <= m
        BY <1>1, <2>1, <2>2
      <4>2. NodeAbove(q, k) \in after.inner
              <=> k < e \/ (top <= k /\ k < h /\ NodeAbove(q, k) = NodeAbove(p, k))
        BY <1>5, <1>10, <2>5
      <4> QED
        BY <1>1, <2>2, <4>1, <4>2
    <3> QED
      BY <3>1
  <2>7. CASE m < top
    <3>1. m < e
      <4>1. NodeAbove(p, m) \in tree.inner /\ NodeAbove(q, m) = NodeAbove(p, m)
        BY <1>7, <2>1, <2>2, <2>7
      <4> QED
        BY <2>2, <2>5, <4>1
    <3>2. Ends(after, q, e)
      <4>1. \A k \in 0 .. h : NodeAbove(q, k) \in after.inner <=> k < e
        BY <1>1, <2>2, <2>6, <2>7
      <4> QED
        BY <4>1 DEF Ends
    <3>3. tree_test(after, q) = (NodeAbove(q, e) \in after.labels)
      BY <1>9, <3>2, WalkFindsLeaf
    <3>4. NodeAbove(q, e) # NodeAbove(p, h)
      <4>1. CASE e = h
        BY <1>1, <2>1, <2>2, <4>1
      <4>2. CASE e # h
        <5>1. h \in 0 .. h
          BY <1>1
        <5> QED
          BY <4>2, <5>1, OncePerPath
      <4> QED
        BY <4>1, <4>2
    <3>5. NodeAbove(q, e) \notin ChildrenOf(Opened(p, top))
      <4>1. SUFFICES ASSUME NodeAbove(q, e) \in ChildrenOf(Opened(p, top)) PROVE FALSE
        OBVIOUS
      <4>2. PICK l \in top .. h - 1 : NodeAbove(q, e) \in Children(NodeAbove(p, l))
        BY <4>1 DEF ChildrenOf, Opened
      <4>3. e - 1 \in 0 .. h - 1 /\ (e - 1) + 1 = e /\ e - 1 \in 0 .. h /\ l \in 0 .. h
        BY <1>1, <2>2, <3>1
      <4>4. NodeAbove(q, (e - 1) + 1) \in Children(NodeAbove(q, e - 1))
        BY <4>3, PathChild
      <4>5. NodeAbove(q, e - 1) \in Nat /\ NodeAbove(p, l) \in Nat
        BY <4>3, PathNode
      <4>6. NodeAbove(q, e - 1) = NodeAbove(p, l)
        BY <4>2, <4>3, <4>4, <4>5, OneParent
      <4>7. NodeAbove(q, e - 1) \in Opened(p, top)
        BY <4>6 DEF Opened
      <4>8. top <= e - 1 /\ NodeAbove(q, e - 1) = NodeAbove(p, e - 1)
        BY <1>10, <4>3, <4>7
      <4>9. e - 1 \in m + 1 .. h
        BY <1>1, <2>2, <2>7, <4>3, <4>8
      <4> QED
        BY <2>1, <4>8, <4>9
    <3> QED
      BY <1>5, <2>4, <3>3, <3>4, <3>5 DEF Beside
  <2>8. CASE top <= m
    <3>1. e = top
      <4>1. \A k \in 0 .. top : NodeAbove(q, k) = NodeAbove(p, k)
        BY <1>1, <2>1, <2>2, <2>8
      <4>2. NodeAbove(q, top) \notin tree.inner
        BY <1>1, <1>7, <4>1
      <4>3. ~(top < e)
        BY <2>5, <4>2
      <4>4. e < top => NodeAbove(q, e) \in tree.inner
        BY <1>1, <1>7, <4>1
      <4>5. ~(e < top)
        BY <1>1, <2>5, <4>4
      <4> QED
        BY <1>1, <4>3, <4>5
    <3>2. NodeAbove(q, top) = NodeAbove(p, top)
      BY <1>1, <2>1, <2>2, <2>8
    <3>3. tree_test(tree, q) = ~value
      BY <1>4, <2>4, <3>1, <3>2
    <3>4. Ends(after, q, m + 1)
      <4>1. \A k \in 0 .. h : NodeAbove(q, k) \in after.inner <=> k < m + 1
        BY <1>1, <2>2, <2>6, <2>8, <3>1
      <4> QED
        BY <2>2, <4>1 DEF Ends
    <3>5. tree_test(after, q) = (NodeAbove(q, m + 1) \in after.labels)
      BY <1>9, <3>4, WalkFindsLeaf
    <3>6. \A k \in 0 .. h : NodeAbove(q, m + 1) # NodeAbove(p, k)
      <4>1. ASSUME NEW k \in 0 .. h
            PROVE  NodeAbove(q, m + 1) # NodeAbove(p, k)
        <5>1. CASE k = m + 1
          BY <1>1, <2>1, <2>2, <5>1
        <5>2. CASE k # m + 1
          BY <2>2, <5>2, OncePerPath
        <5> QED
          BY <5>1, <5>2
      <4> QED
        BY <4>1
    <3>7. NodeAbove(q, m + 1) \in ChildrenOf(Opened(p, top))
      <4>1. NodeAbove(q, m + 1) \in Children(NodeAbove(q, m))
        BY PathChild
      <4>2. NodeAbove(q, m) \in Opened(p, top)
        BY <1>10, <2>1, <2>2, <2>8
      <4> QED
        BY <4>1, <4>2 DEF ChildrenOf
    <3>8. NodeAbove(q, m + 1) \notin OnPath(p, top)
      BY <1>1, <3>6 DEF OnPath
    <3>9. NodeAbove(q, m + 1) # NodeAbove(p, h)
      BY <1>1, <3>6
    <3>10. NodeAbove(q, m + 1) \in after.labels <=> ~value
      BY <1>5, <3>7, <3>8, <3>9 DEF Beside
    <3> QED
      BY <3>3, <3>5, <3>10
  <2> QED
    BY <1>1, <2>2, <2>7, <2>8
<1> QED
  BY <1>5, <1>9, <1>11, <1>12, <1>13 DEF after

-----------------------------------------------------------------------------
TreeRecord == [inner : SUBSET (0 .. n - 2), active : SUBSET Nodes,
               labels : SUBSET Nodes, perfect : 1 .. h + 1]

\* One step of CollapseUp, on level l; x is what the steps below it left.
CollapseStep(p, l, x) ==
  IF x.going /\ l > 0 /\ Collapsible(x.tree, NodeAbove(p, l))
    THEN [tree |-> Joined(x.tree, NodeAbove(p, l)), going |-> TRUE]
    ELSE [x EXCEPT !.going = FALSE]

\* The steps of CollapseUp, from the last level to the root
LEMMA CollapseSteps ==
  ASSUME NEW tree \in TreeRecord, NEW p \in Slots
  PROVE  \E up :
           /\ CollapseUp(tree, p) = up[0].tree
           /\ up[h] = [tree |-> tree, going |-> TRUE]
           /\ \A l \in 0 .. h - 1 : up[l] = CollapseStep(p, l, up[l + 1])
<1> DEFINE up[l \in 0 .. h] ==
             IF l = h THEN [tree |-> tree, going |-> TRUE]
             ELSE LET below == up[l + 1]
                      v     == NodeAbove(p, l)
                  IN  IF below.going /\ l > 0 /\ Collapsible(below.tree, v)
                        THEN [tree  |-> SetLabel(SetLeaf(below.tree, v), v,
                                                 2 * v + 1 \in below.tree.labels),
                              going |-> TRUE]
                        ELSE [below EXCEPT !.going = FALSE]
           X == [tree : TreeRecord, going : BOOLEAN]
           first == [tree |-> tree, going |-> TRUE]
           step  == [l \in 0 .. h |-> [x \in X |-> CollapseStep(p, l, x)]]
<1>1. h \in Nat
  BY Height
<1>2. step \in Steps(0, h, X)
  <2>1. ASSUME NEW l \in 0 .. h, NEW x \in X
        PROVE  CollapseStep(p, l, x) \in X
    <3>1. NodeAbove(p, l) \in Nodes
      BY PathInTree
    <3>2. x.tree \in TreeRecord /\ x.going \in BOOLEAN
      OBVIOUS
    <3>3. Joined(x.tree, NodeAbove(p, l)) \in TreeRecord
      BY <3>1, <3>2 DEF Joined, SetLabel, SetLeaf, TreeRecord
    <3> HIDE DEF TreeRecord
    <3> QED
      BY <3>3 DEF CollapseStep
  <2> HIDE DEF X
  <2> QED
    BY <2>1 DEF Steps
<1>3. first \in X
  OBVIOUS
<1> HIDE DEF X, first
<1>4. PICK f \in [0 .. h -> X] :
        \A l \in 0 .. h : f[l] = IF l = h THEN first ELSE step[l][f[l + 1]]
  <2> HIDE DEF step, up
  <2> QED
    BY <1>1, <1>2, <1>3, FunctionDown
<1>5. ASSUME NEW l \in 0 .. h, l # h
      PROVE  step[l][f[l + 1]] = CollapseStep(p, l, f[l + 1])
  <2>1. l + 1 \in 0 .. h
    BY <1>1, <1>5
  <2>2. f[l + 1] \in X
    BY <1>4, <2>1
  <2> QED
    BY <2>2
<1>6. f = [l \in 0 .. h |-> IF l = h THEN first ELSE CollapseStep(p, l, f[l + 1])]
  <2>1. ASSUME NEW l \in 0 .. h
        PROVE  f[l] = IF l = h THEN first ELSE CollapseStep(p, l, f[l + 1])
    <3> HIDE DEF step
    <3> QED
      BY <1>4, <1>5
  <2>2. f = [l \in 0 .. h |-> f[l]]
    BY <1>4
  <2> QED
    BY <2>1, <2>2
<1>7. f = [l \in 0 .. h |->
             IF l = h THEN [tree |-> tree, going |-> TRUE]
             ELSE LET below == f[l + 1]
                      v     == NodeAbove(p, l)
                  IN  IF below.going /\ l > 0 /\ Collapsible(below.tree, v)
                        THEN [tree  |-> SetLabel(SetLeaf(below.tree, v), v,
                                                 2 * v + 1 \in below.tree.labels),
                              going |-> TRUE]
                        ELSE [below EXCEPT !.going = FALSE]]
  BY <1>6, Zenon DEF first, CollapseStep, Joined
<1>8. up = [l \in 0 .. h |->
             IF l = h THEN [tree |-> tree, going |-> TRUE]
             ELSE LET below == up[l + 1]
                      v     == NodeAbove(p, l)
                  IN  IF below.going /\ l > 0 /\ Collapsible(below.tree, v)
                        THEN [tree  |-> SetLabel(SetLeaf(below.tree, v), v,
                                                 2 * v + 1 \in below.tree.labels),
                              going |-> TRUE]
                        ELSE [below EXCEPT !.going = FALSE]]
  BY <1>7, Zenon DEF up
<1>9. up = [l \in 0 .. h |-> IF l = h THEN first ELSE CollapseStep(p, l, up[l + 1])]
  <2> HIDE DEF up
  <2> QED
    BY <1>8, Zenon DEF first, CollapseStep, Joined
<1>10. CollapseUp(tree, p) = up[0].tree
  BY Zenon DEF CollapseUp
<1> HIDE DEF up
<1>11. h \in 0 .. h /\ \A l \in 0 .. h - 1 : l \in 0 .. h /\ l # h
  BY <1>1
<1>12. up[h] = first
  BY <1>9, <1>11
<1>13. \A l \in 0 .. h - 1 : up[l] = CollapseStep(p, l, up[l + 1])
  BY <1>9, <1>11
<1> QED
  BY <1>10, <1>12, <1>13 DEF first

\* Nothing on the path to slot p could be collapsed.
PathPruned(tree, p) ==
  \A l \in 0 .. h - 1 :
    NodeAbove(p, l) \in tree.inner => ~Collapsible(tree, NodeAbove(p, l))

\* Collapsing from an opened slot upwards keeps the tree a tree and every bit,
\* and leaves nothing on the path that could be collapsed.
LEMMA CollapseKeeps ==
  ASSUME NEW tree, GoodTree(tree), NEW p \in Slots, Ends(tree, p, h)
  PROVE  LET after == CollapseUp(tree, p)
         IN  /\ GoodTree(after) /\ after.perfect = tree.perfect
             /\ PathPruned(after, p)
             /\ \A q \in Slots : tree_test(after, q) = tree_test(tree, q)
<1>1. h \in Nat
  BY Height
<1>2. tree \in TreeRecord
  BY DEF GoodTree, IsTree, TreeRecord
<1>3. PICK up : /\ CollapseUp(tree, p) = up[0].tree
                /\ up[h] = [tree |-> tree, going |-> TRUE]
                /\ \A l \in 0 .. h - 1 : up[l] = CollapseStep(p, l, up[l + 1])
  BY <1>2, CollapseSteps
<1> DEFINE Stops(x, l, e) == /\ Ends(x.tree, p, e) /\ l <= e
                             /\ x.going => e = l
                             /\ ~x.going => e > 0 /\ ~Collapsible(x.tree, NodeAbove(p, e - 1))
           Holds(x, l) == /\ x = [tree |-> x.tree, going |-> x.going] /\ x.going \in BOOLEAN
                          /\ GoodTree(x.tree) /\ x.tree.perfect = tree.perfect
                          /\ \A q \in Slots : tree_test(x.tree, q) = tree_test(tree, q)
                          /\ \E e \in 0 .. h : Stops(x, l, e)
<1>4. Holds(up[h], h)
  <2>1. /\ up[h].tree = tree /\ up[h].going = TRUE
        /\ up[h] = [tree |-> up[h].tree, going |-> up[h].going]
    BY <1>3
  <2>2. Stops(up[h], h, h) /\ h \in 0 .. h
    BY <1>1, <2>1
  <2> QED
    BY <2>1, <2>2
<1>5. ASSUME NEW l \in 0 .. h - 1, Holds(up[l + 1], l + 1)
      PROVE  Holds(up[l], l)
  <2> DEFINE x == up[l + 1]
             v == NodeAbove(p, l)
  <2>1. up[l] = CollapseStep(p, l, x)
    BY <1>3
  <2>2. PICK e \in 0 .. h : Stops(x, l + 1, e)
    BY <1>5
  <2>3. l \in Nat /\ l + 1 <= e /\ l <= e
    BY <1>1, <2>2
  <2> HIDE DEF x, v
  <2>4. CASE x.going /\ l > 0 /\ Collapsible(x.tree, v)
    <3>1. /\ up[l].tree = Joined(x.tree, v) /\ up[l].going = TRUE
          /\ up[l] = [tree |-> up[l].tree, going |-> up[l].going]
      BY <2>1, <2>4 DEF CollapseStep, v
    <3>2. e = l + 1 /\ Ends(x.tree, p, l + 1)
      BY <2>2, <2>4
    <3>3. l \in 1 .. h - 1 /\ l \in 0 .. h
      BY <1>1, <2>4
    <3>4. GoodTree(x.tree)
      BY <1>5 DEF x
    <3>5. /\ GoodTree(Joined(x.tree, v)) /\ Joined(x.tree, v).perfect = x.tree.perfect
          /\ Ends(Joined(x.tree, v), p, l)
          /\ \A q \in Slots : tree_test(Joined(x.tree, v), q) = tree_test(x.tree, q)
      BY <2>4, <3>2, <3>3, <3>4, JoinKeeps DEF v
    <3>6. Stops(up[l], l, l)
      BY <2>3, <3>1, <3>5
    <3>7. x.tree.perfect = tree.perfect /\ \A q \in Slots : tree_test(x.tree, q) = tree_test(tree, q)
      BY <1>5 DEF x
    <3> HIDE DEF Stops
    <3> QED
      BY <3>1, <3>3, <3>5, <3>6, <3>7
  <2>5. CASE ~(x.going /\ l > 0 /\ Collapsible(x.tree, v))
    <3>1. up[l] = [x EXCEPT !.going = FALSE]
      BY <2>1, <2>5 DEF CollapseStep, v
    <3>2. /\ up[l].tree = x.tree /\ up[l].going = FALSE
          /\ up[l] = [tree |-> up[l].tree, going |-> up[l].going]
      <4>1. x = [tree |-> x.tree, going |-> x.going]
        BY <1>5 DEF x
      <4> QED
        BY <3>1, <4>1
    <3>3. ~Collapsible(x.tree, NodeAbove(p, e - 1)) /\ e > 0
      <4>1. CASE ~x.going
        BY <2>2, <4>1
      <4>2. CASE x.going
        <5>1. e = l + 1 /\ e - 1 = l /\ e > 0
          BY <2>2, <2>3, <4>2
        <5>2. CASE l = 0
          <6>1. level_of(NodeAbove(p, 0)) = 0
            BY <1>1, PathLevel
          <6>2. x.tree.perfect \in 1 .. h + 1
            BY <1>5 DEF x, GoodTree, IsTree
          <6>3. ~(0 > x.tree.perfect)
            BY <1>1, <6>2
          <6> QED
            BY <5>1, <5>2, <6>1, <6>3 DEF Collapsible
        <5>3. CASE l # 0
          BY <2>3, <2>5, <4>2, <5>1, <5>3 DEF v
        <5> QED
          BY <5>2, <5>3
      <4> QED
        BY <4>1, <4>2
    <3>4. Stops(up[l], l, e)
      BY <2>2, <2>3, <3>2, <3>3
    <3>5. /\ GoodTree(x.tree) /\ x.tree.perfect = tree.perfect
          /\ \A q \in Slots : tree_test(x.tree, q) = tree_test(tree, q)
      BY <1>5 DEF x
    <3> HIDE DEF Stops
    <3> QED
      BY <3>2, <3>4, <3>5
  <2> QED
    BY <2>4, <2>5
<1> HIDE DEF Holds
<1>6. \A l \in 0 .. h : Holds(up[l], l)
  <2> DEFINE S == {k \in 0 .. h : ~Holds(up[h - k], h - k)}
  <2>1. S = {}
    <3>1. SUFFICES ASSUME S # {} PROVE FALSE
      OBVIOUS
    <3>2. PICK k \in S : \A y \in S : k <= y
      <4>1. S \subseteq Nat
        BY <1>1
      <4> QED
        BY <3>1, <4>1, LeastNatural
    <3>3. k # 0
      <4>1. h - 0 = h
        BY <1>1
      <4> QED
        BY <1>4, <4>1
    <3>4. k - 1 \in 0 .. h /\ h - k \in 0 .. h - 1 /\ h - (k - 1) = (h - k) + 1 /\ ~(k <= k - 1)
      BY <1>1, <3>3
    <3>5. Holds(up[h - (k - 1)], h - (k - 1))
      BY <3>2, <3>4
    <3>6. Holds(up[h - k], h - k)
      BY <1>5, <3>4, <3>5
    <3> QED
      BY <3>6
  <2>2. ASSUME NEW l \in 0 .. h
        PROVE  Holds(up[l], l)
    <3>1. h - l \in 0 .. h /\ h - (h - l) = l
      BY <1>1
    <3>2. Holds(up[h - (h - l)], h - (h - l))
      BY <2>1, <3>1
    <3> QED
      BY <3>1, <3>2
  <2> QED
    BY <2>2
<1> DEFINE after == up[0].tree
<1>7. 0 \in 0 .. h
  BY <1>1
<1>8. Holds(up[0], 0)
  BY <1>6, <1>7
<1>9. /\ GoodTree(after) /\ after.perfect = tree.perfect
      /\ \A q \in Slots : tree_test(after, q) = tree_test(tree, q)
  BY <1>8 DEF Holds
<1>10. PICK e \in 0 .. h : Stops(up[0], 0, e)
  BY <1>8 DEF Holds
<1>11. PathPruned(after, p)
  <2> HIDE DEF after
  <2>1. SUFFICES ASSUME NEW l \in 0 .. h - 1, NodeAbove(p, l) \in after.inner
                 PROVE  ~Collapsible(after, NodeAbove(p, l))
    BY DEF PathPruned
  <2>2. \A k \in 0 .. h : NodeAbove(p, k) \in after.inner <=> k < e
    BY <1>10 DEF Ends, after
  <2>3. l \in 0 .. h /\ l + 1 \in 0 .. h /\ l \in Nat
    BY <1>1
  <2>4. l < e
    BY <2>1, <2>2, <2>3
  <2>5. CASE l = e - 1
    <3>1. up[0].going \in BOOLEAN
      BY <1>8 DEF Holds
    <3>2. ~up[0].going
      BY <1>10, <2>3, <2>4, <3>1
    <3> QED
      BY <1>10, <2>5, <3>2 DEF after
  <2>6. CASE l # e - 1
    <3>1. l + 1 < e
      BY <1>1, <2>3, <2>4, <2>6
    <3>2. NodeAbove(p, l + 1) \in after.inner
      BY <2>2, <2>3, <3>1
    <3>3. NodeAbove(p, l + 1) \in Children(NodeAbove(p, l))
      BY PathChild
    <3> QED
      BY <3>2, <3>3 DEF Collapsible
  <2> QED
    BY <2>5, <2>6
<1> QED
  BY <1>3, <1>9, <1>11

-----------------------------------------------------------------------------
\* A write of the opposite bit
LEMMA WriteChangesBit ==
  ASSUME NEW tree, GoodTree(tree), NEW p \in Slots, NEW value \in BOOLEAN,
         tree_test(tree, p) = ~value
  PROVE  LET after == write(tree, p, value)
         IN  /\ GoodTree(after) /\ after.perfect = tree.perfect
             /\ PathPruned(after, p)
             /\ \A q \in Slots :
                  tree_test(after, q) = IF q = p THEN value ELSE tree_test(tree, q)
<1> DEFINE wide == Expand(tree, p, value)
           after == CollapseUp(wide, p)
<1>1. /\ GoodTree(wide) /\ wide.perfect = tree.perfect
      /\ Ends(wide, p, h)
      /\ \A q \in Slots : tree_test(wide, q) = IF q = p THEN value ELSE tree_test(tree, q)
  BY ExpandKeeps
<1> HIDE DEF wide
<1>2. /\ GoodTree(after) /\ after.perfect = wide.perfect
      /\ PathPruned(after, p)
      /\ \A q \in Slots : tree_test(after, q) = tree_test(wide, q)
  BY <1>1, CollapseKeeps
<1>3. write(tree, p, value) = after
  BY DEF write, wide
<1> HIDE DEF after
<1> QED
  BY <1>1, <1>2, <1>3

\* The positions of the bitmap are slots of the tree.
LEMMA PosAreSlots ==
  Pos \subseteq Slots
BY Height, BitmapTreeAssumption DEF Pos, Slots

\* toggle() flips the bit it is for and no other, whatever it expands and
\* collapses; the tree stays a tree with the levels perfect that the walks skip,
\* and nothing is left on the path of the bit that could be collapsed.
THEOREM ToggleFlipsOneBit ==
  ASSUME NEW tree, IsTree(tree), SkippedArePerfect(tree), NEW p \in Pos
  PROVE  LET after == toggle(tree, p)
         IN  /\ IsTree(after) /\ SkippedArePerfect(after)
             /\ after.perfect = tree.perfect
             /\ PathPruned(after, p)
             /\ \A q \in Pos :
                  tree_test(after, q) = IF q = p THEN ~tree_test(tree, p)
                                        ELSE tree_test(tree, q)
<1>1. tree_test(tree, p) \in BOOLEAN
  BY DEF tree_test
<1>2. PICK value \in BOOLEAN : tree_test(tree, p) = ~value /\ value = ~tree_test(tree, p)
  BY <1>1
<1>3. toggle(tree, p) = write(tree, p, value)
  BY <1>2 DEF toggle
<1>4. GoodTree(tree) /\ p \in Slots
  BY PosAreSlots DEF GoodTree
<1>5. LET after == write(tree, p, value)
      IN  /\ GoodTree(after) /\ after.perfect = tree.perfect
          /\ PathPruned(after, p)
          /\ \A q \in Slots :
               tree_test(after, q) = IF q = p THEN value ELSE tree_test(tree, q)
  <2>1. tree_test(tree, p) = ~value
    BY <1>2
  <2> QED
    BY <1>4, <2>1, WriteChangesBit
<1> QED
  BY <1>2, <1>3, <1>5, PosAreSlots DEF GoodTree

\* set() leaves the bit it is for with the value it is given, and every other
\* bit as it was; the tree stays a tree, as with toggle().
THEOREM SetWritesOneBit ==
  ASSUME NEW tree, IsTree(tree), SkippedArePerfect(tree), NEW p \in Pos, NEW value \in BOOLEAN
  PROVE  LET after == set(tree, p, value)
         IN  /\ IsTree(after) /\ SkippedArePerfect(after)
             /\ after.perfect = tree.perfect
             /\ after # tree => PathPruned(after, p)
             /\ \A q \in Pos :
                  tree_test(after, q) = IF q = p THEN value ELSE tree_test(tree, q)
<1>1. tree_test(tree, p) \in BOOLEAN
  BY DEF tree_test
<1>2. CASE tree_test(tree, p) = value
  <2>1. set(tree, p, value) = tree
    BY <1>2 DEF set
  <2> QED
    BY <1>2, <2>1
<1>3. CASE tree_test(tree, p) # value
  <2>1. set(tree, p, value) = write(tree, p, value)
    BY <1>3 DEF set
  <2>2. tree_test(tree, p) = ~value
    BY <1>1, <1>3
  <2>3. GoodTree(tree) /\ p \in Slots
    BY PosAreSlots DEF GoodTree
  <2>4. LET after == write(tree, p, value)
        IN  /\ GoodTree(after) /\ after.perfect = tree.perfect
            /\ PathPruned(after, p)
            /\ \A q \in Slots :
                 tree_test(after, q) = IF q = p THEN value ELSE tree_test(tree, q)
    BY <2>2, <2>3, WriteChangesBit
  <2> QED
    BY <2>1, <2>4, PosAreSlots DEF GoodTree
<1> QED
  BY <1>2, <1>3

-----------------------------------------------------------------------------
\* merge_tree: toggling the bits of a diff one after the other leaves each bit
\* of the tree as the bit it had, flipped if and only if the diff says so.
THEOREM MergeFlipsTheDiff ==
  ASSUME NEW tree, IsTree(tree), SkippedArePerfect(tree), NEW diff \in [Pos -> BOOLEAN]
  PROVE  LET after == ToggleAll(tree, diff)
         IN  /\ IsTree(after) /\ SkippedArePerfect(after)
             /\ \A q \in Pos : tree_test(after, q) = (tree_test(tree, q) # diff[q])
<1> DEFINE toggled[k \in 0 .. N] ==
             IF k = 0 THEN tree
             ELSE IF diff[k - 1] THEN toggle(toggled[k - 1], k - 1)
             ELSE toggled[k - 1]
           X == {t \in TreeRecord : GoodTree(t)}
           step == [k \in 0 .. N |-> [x \in X |->
                      IF k > 0 /\ diff[k - 1] THEN toggle(x, k - 1) ELSE x]]
<1>1. N \in Nat
  BY BitmapTreeAssumption
<1>2. \A t : GoodTree(t) <=> t \in X
  BY DEF GoodTree, IsTree, TreeRecord
<1>3. ASSUME NEW t \in X, NEW i \in Pos
      PROVE  /\ toggle(t, i) \in X
             /\ \A q \in Pos :
                  tree_test(toggle(t, i), q) = IF q = i THEN ~tree_test(t, i) ELSE tree_test(t, q)
  <2> HIDE DEF X
  <2>1. IsTree(t) /\ SkippedArePerfect(t)
    BY <1>2 DEF GoodTree
  <2>2. LET after == toggle(t, i)
        IN  /\ IsTree(after) /\ SkippedArePerfect(after)
            /\ after.perfect = t.perfect
            /\ PathPruned(after, i)
            /\ \A q \in Pos :
                 tree_test(after, q) = IF q = i THEN ~tree_test(t, i) ELSE tree_test(t, q)
    BY <2>1, ToggleFlipsOneBit
  <2> QED
    BY <1>2, <2>2 DEF GoodTree
<1>4. tree \in X
  BY <1>2 DEF GoodTree
<1> HIDE DEF X
<1>5. step \in Steps(0, N, X)
  <2>1. ASSUME NEW k \in 0 .. N, NEW x \in X
        PROVE  (IF k > 0 /\ diff[k - 1] THEN toggle(x, k - 1) ELSE x) \in X
    <3>1. k > 0 => k - 1 \in Pos
      BY <1>1 DEF Pos
    <3> QED
      BY <1>3, <3>1
  <2> QED
    BY <2>1 DEF Steps
<1>6. PICK f \in [0 .. N -> X] :
        \A k \in 0 .. N : f[k] = IF k = 0 THEN tree ELSE step[k][f[k - 1]]
  <2> HIDE DEF step, toggled
  <2>1. 0 <= N /\ 0 \in Nat
    BY <1>1
  <2>2. \E f \in [0 .. N -> X] : FollowsUp(f, 0, N, tree, step)
    BY <1>1, <1>4, <1>5, <2>1, FunctionUp
  <2> QED
    BY <2>2 DEF FollowsUp
<1>7. ASSUME NEW k \in 0 .. N
      PROVE  f[k] = IF k = 0 THEN tree
                    ELSE IF diff[k - 1] THEN toggle(f[k - 1], k - 1)
                    ELSE f[k - 1]
  <2>1. CASE k = 0
    BY <1>6, <2>1
  <2>2. CASE k # 0
    <3>1. k - 1 \in 0 .. N /\ k > 0
      BY <1>1, <2>2
    <3>2. f[k - 1] \in X
      BY <1>6, <3>1
    <3>3. step[k][f[k - 1]] = IF k > 0 /\ diff[k - 1] THEN toggle(f[k - 1], k - 1) ELSE f[k - 1]
      BY <3>2
    <3>4. f[k] = step[k][f[k - 1]]
      <4> HIDE DEF step
      <4> QED
        BY <1>6, <2>2
    <3> QED
      BY <2>2, <3>1, <3>3, <3>4
  <2> QED
    BY <2>1, <2>2
<1>8. f = [k \in 0 .. N |-> IF k = 0 THEN tree
                            ELSE IF diff[k - 1] THEN toggle(f[k - 1], k - 1)
                            ELSE f[k - 1]]
  <2>1. f = [k \in 0 .. N |-> f[k]]
    BY <1>6
  <2> QED
    BY <1>7, <2>1
<1>9. toggled = [k \in 0 .. N |-> IF k = 0 THEN tree
                            ELSE IF diff[k - 1] THEN toggle(toggled[k - 1], k - 1)
                            ELSE toggled[k - 1]]
  BY <1>8, Zenon DEF toggled
<1>10. ToggleAll(tree, diff) = toggled[N]
  BY Zenon DEF ToggleAll
<1> HIDE DEF toggled, step
<1> DEFINE Holds(k) == /\ toggled[k] \in X
                       /\ \A q \in Pos : tree_test(toggled[k], q)
                                           = (tree_test(tree, q) # (q < k /\ diff[q]))
           S == {k \in 0 .. N : ~Holds(k)}
<1>11. \A t, q : tree_test(t, q) \in BOOLEAN
  BY DEF tree_test
<1>12. Holds(0)
  <2>1. toggled[0] = tree
    BY <1>1, <1>9
  <2>2. \A q \in Pos : ~(q < 0)
    BY <1>1 DEF Pos
  <2> QED
    BY <1>4, <1>11, <2>1, <2>2
<1>13. ASSUME NEW k \in 1 .. N, Holds(k - 1)
       PROVE  Holds(k)
  <2>1. k - 1 \in Pos /\ k \in 0 .. N /\ k # 0
    BY <1>1 DEF Pos
  <2>2. toggled[k] = IF diff[k - 1] THEN toggle(toggled[k - 1], k - 1) ELSE toggled[k - 1]
    BY <1>9, <2>1
  <2>3. \A q \in Pos : q < k <=> q < k - 1 \/ q = k - 1
    BY <1>1 DEF Pos
  <2>4. ~(k - 1 < k - 1)
    BY <1>1
  <2>5. diff[k - 1] \in BOOLEAN
    BY <2>1
  <2>6. CASE diff[k - 1]
    <3>1. /\ toggle(toggled[k - 1], k - 1) \in X
          /\ \A q \in Pos :
               tree_test(toggle(toggled[k - 1], k - 1), q) =
                 IF q = k - 1 THEN ~tree_test(toggled[k - 1], k - 1)
                 ELSE tree_test(toggled[k - 1], q)
      BY <1>3, <1>13, <2>1
    <3> QED
      BY <1>11, <1>13, <2>1, <2>2, <2>3, <2>4, <2>6, <3>1
  <2>7. CASE ~diff[k - 1]
    BY <1>11, <1>13, <2>1, <2>2, <2>3, <2>4, <2>7
  <2> QED
    BY <2>6, <2>7
<1> HIDE DEF Holds
<1>14. S = {}
  <2>1. SUFFICES ASSUME S # {} PROVE FALSE
    OBVIOUS
  <2>2. PICK k \in S : \A y \in S : k <= y
    <3>1. S \subseteq Nat
      BY <1>1
    <3> QED
      BY <2>1, <3>1, LeastNatural
  <2>3. k # 0
    BY <1>12
  <2>4. k \in 1 .. N /\ k - 1 \in 0 .. N /\ ~(k <= k - 1)
    BY <1>1, <2>3
  <2>5. Holds(k - 1)
    BY <2>2, <2>4
  <2> QED
    BY <1>13, <2>4, <2>5
<1>15. Holds(N)
  BY <1>1, <1>14
<1>16. \A q \in Pos : q < N
  BY <1>1 DEF Pos
<1> QED
  BY <1>2, <1>10, <1>15, <1>16 DEF Holds, GoodTree

-----------------------------------------------------------------------------
\* The logarithm, rounded down
LEMMA Log2Bounds ==
  ASSUME NEW m \in Nat, m > 0
  PROVE  Log2(m) \in Nat /\ 2^Log2(m) <= m /\ m < 2^(Log2(m) + 1)
<1> DEFINE S == {k \in Nat : m < 2^(k + 1)}
<1>1. m \in S
  <2>1. m < 2^m /\ 2^m \in Nat /\ 2^(m + 1) = 2 * 2^m
    BY PowerAbove, PowerOfTwo, PowerStep
  <2> QED
    BY <2>1
<1>2. PICK k \in S : \A y \in S : k <= y
  <2>1. S # {} /\ S \subseteq Nat
    BY <1>1
  <2> HIDE DEF S
  <2> QED
    BY <2>1, LeastNatural
<1>3. k \in 0 .. m
  BY <1>1, <1>2
<1>4. 2^k <= m
  <2>1. CASE k = 0
    BY <2>1, PowerStep
  <2>2. CASE k # 0
    <3>1. k - 1 \in Nat /\ (k - 1) + 1 = k /\ ~(k <= k - 1)
      BY <2>2
    <3>2. k - 1 \notin S
      BY <1>2, <3>1
    <3>3. 2^k \in Nat
      BY PowerOfTwo
    <3> QED
      BY <3>1, <3>2, <3>3
  <2> QED
    BY <2>1, <2>2
<1>5. \E x \in 0 .. m : 2^x <= m /\ m < 2^(x + 1)
  BY <1>3, <1>4
<1>6. Log2(m) \in 0 .. m /\ 2^Log2(m) <= m /\ m < 2^(Log2(m) + 1)
  BY <1>5, Zenon DEF Log2
<1> QED
  BY <1>6

\* The flags of inner and active nodes agree.
FlagsAgree(tree) ==
  /\ tree.active = {0} \cup ChildrenOf(tree.inner)
  /\ tree.inner \subseteq tree.active

\* A node whose parent is inner can be made inner.
LEMMA SetInnerKeepsFlags ==
  ASSUME NEW tree, FlagsAgree(tree), NEW v \in Nat, v > 0, parent_of(v) \in tree.inner,
         {"inner", "active"} \subseteq DOMAIN tree
  PROVE  /\ FlagsAgree(SetInner(tree, v))
         /\ SetInner(tree, v).inner = tree.inner \cup {v}
<1>1. /\ SetInner(tree, v).inner = tree.inner \cup {v}
      /\ SetInner(tree, v).active = tree.active \cup Children(v)
  BY DEF SetInner
<1>2. v \in Children(parent_of(v))
  <2>1. PICK u \in Nat, s \in 0 .. 1 : v - 1 = 2 * u + s /\ u = (v - 1) \div 2
    <3>1. v - 1 \in Nat
      OBVIOUS
    <3>2. /\ (v - 1) \div 2 \in Nat /\ (v - 1) % 2 \in 0 .. 2 - 1
          /\ v - 1 = 2 * ((v - 1) \div 2) + ((v - 1) % 2)
      BY <3>1, BlockOf
    <3> QED
      BY <3>2
  <2> QED
    BY <2>1 DEF Children, parent_of
<1>3. ChildrenOf(tree.inner \cup {v}) = ChildrenOf(tree.inner) \cup Children(v)
  BY DEF ChildrenOf
<1>4. v \in tree.active
  BY <1>2 DEF FlagsAgree, ChildrenOf
<1> QED
  BY <1>1, <1>3, <1>4 DEF FlagsAgree

\* One step of the constructor: node v of the TEB t, of which c inner nodes lead
ReadStep(t, v, r) ==
  IF parent_of(v) \notin r.tree.inner THEN r
  ELSE IF v # t.implicit_inner_node_cnt /\ NextNode(t, r.nodes)
    THEN [r EXCEPT !.tree = SetInner(@, v), !.nodes = @ + 1]
  ELSE [tree   |-> SetLabel(r.tree, v, NextLabel(t, r.labels)),
        nodes  |-> r.nodes + 1,
        labels |-> r.labels + 1]

\* What the constructor keeps after each node
Reads(t) ==
  [tree : [inner : SUBSET Nodes, active : SUBSET Nat, labels : SUBSET Nodes,
           perfect : {Log2(t.implicit_inner_node_cnt + 1) + 1}],
   nodes : Nat, labels : Nat]

\* The upper levels, which are only counted
LEMMA UpperIsTree ==
  ASSUME NEW t, t.implicit_inner_node_cnt \in 1 .. n - 1
  PROVE  /\ [tree |-> Upper(t), nodes |-> 0, labels |-> 0] \in Reads(t)
         /\ FlagsAgree(Upper(t))
         /\ Upper(t).inner = 0 .. t.implicit_inner_node_cnt - 1
<1> DEFINE c == t.implicit_inner_node_cnt
<1>1. n \in Nat /\ c \in Nat /\ c > 0 /\ c <= n - 1
  BY Height
<1>2. Lesser(2 * c, 2 * n - 2) = 2 * c
  BY <1>1 DEF Lesser
<1>3. Upper(t) = [inner |-> 0 .. c - 1, active |-> 0 .. 2 * c, labels |-> {},
                  perfect |-> Log2(c + 1) + 1]
  BY <1>2 DEF Upper
<1> HIDE DEF c
<1>4. [tree |-> Upper(t), nodes |-> 0, labels |-> 0] \in Reads(t)
  <2>1. 0 .. c - 1 \in SUBSET Nodes /\ 0 .. 2 * c \in SUBSET Nat
    BY <1>1 DEF Nodes
  <2> QED
    BY <1>3, <2>1 DEF Reads, c
<1>5. 0 .. 2 * c = {0} \cup ChildrenOf(0 .. c - 1)
  <2>1. ASSUME NEW x \in 1 .. 2 * c
        PROVE  x \in ChildrenOf(0 .. c - 1)
    <3>1. x - 1 \in Nat
      BY <1>1
    <3>2. /\ (x - 1) \div 2 \in Nat /\ (x - 1) % 2 \in 0 .. 2 - 1
          /\ x - 1 = 2 * ((x - 1) \div 2) + ((x - 1) % 2)
      BY <3>1, BlockOf
    <3>3. PICK u \in Nat, s \in 0 .. 1 : x - 1 = 2 * u + s
      BY <3>2
    <3>4. u \in 0 .. c - 1 /\ x \in Children(u)
      BY <1>1, <3>3 DEF Children
    <3> QED
      BY <3>4 DEF ChildrenOf
  <2>2. \A u \in 0 .. c - 1 : Children(u) \subseteq 0 .. 2 * c
    BY <1>1 DEF Children
  <2>3. ChildrenOf(0 .. c - 1) \subseteq 0 .. 2 * c
    BY <2>2 DEF ChildrenOf
  <2>4. 0 .. 2 * c = {0} \cup (1 .. 2 * c)
    BY <1>1
  <2> QED
    BY <2>1, <2>3, <2>4
<1>6. 0 .. c - 1 \subseteq 0 .. 2 * c
  BY <1>1
<1>7. FlagsAgree(Upper(t))
  BY <1>3, <1>5, <1>6 DEF FlagsAgree
<1> QED
  BY <1>3, <1>4, <1>7 DEF c

\* The steps of the constructor, from the last of the nodes that are only counted
ReadsBy(t, read) ==
  LET a == t.implicit_inner_node_cnt - 1
  IN  /\ read[a] = [tree |-> Upper(t), nodes |-> 0, labels |-> 0]
      /\ \A v \in a .. 2 * n - 3 : read[v + 1] = ReadStep(t, v + 1, read[v])
      /\ \A v \in a .. 2 * n - 2 : read[v] \in Reads(t)

\* They are the steps of the recursive function.
LEMMA ReadSteps ==
  ASSUME NEW t, t.implicit_inner_node_cnt \in 1 .. n - 1
  PROVE  \E read : ReadsBy(t, read) /\ FromTeb(t) = read[2 * n - 2].tree
<1> DEFINE c == t.implicit_inner_node_cnt
           read[v \in c - 1 .. 2 * n - 2] ==
             IF v = c - 1 THEN [tree |-> Upper(t), nodes |-> 0, labels |-> 0]
             ELSE LET r == read[v - 1] IN
               IF parent_of(v) \notin r.tree.inner THEN r
               ELSE IF v # c /\ NextNode(t, r.nodes)
                 THEN [r EXCEPT !.tree = SetInner(@, v), !.nodes = @ + 1]
               ELSE [tree   |-> SetLabel(r.tree, v, NextLabel(t, r.labels)),
                     nodes  |-> r.nodes + 1,
                     labels |-> r.labels + 1]
           X     == Reads(t)
           first == [tree |-> Upper(t), nodes |-> 0, labels |-> 0]
           a     == c - 1
           b     == 2 * n - 2
           step  == [v \in a .. b |-> [r \in X |-> IF v = a THEN r ELSE ReadStep(t, v, r)]]
<1>1. n \in Nat /\ c \in Nat /\ c > 0 /\ c <= n - 1 /\ a \in Nat /\ b \in Nat /\ a <= b
  BY Height
<1>2. /\ first \in X /\ FlagsAgree(Upper(t)) /\ Upper(t).inner = 0 .. c - 1
  BY UpperIsTree
<1> HIDE DEF c, first
<1>3. ASSUME NEW v \in a .. b, v # a, NEW r \in X
      PROVE  ReadStep(t, v, r) \in X
  <2>1. v \in Nodes /\ v \in Nat
    BY <1>1, <1>3 DEF Nodes
  <2>2. Children(v) \subseteq Nat
    BY <2>1 DEF Children
  <2>0. r \in Reads(t) /\ r.nodes + 1 \in Nat /\ r.labels + 1 \in Nat
    BY DEF Reads
  <2>3. SetInner(r.tree, v) \in [inner : SUBSET Nodes, active : SUBSET Nat, labels : SUBSET Nodes,
                                 perfect : {Log2(t.implicit_inner_node_cnt + 1) + 1}]
    BY <2>1, <2>2 DEF SetInner, Reads
  <2>4. SetLabel(r.tree, v, NextLabel(t, r.labels))
          \in [inner : SUBSET Nodes, active : SUBSET Nat, labels : SUBSET Nodes,
               perfect : {Log2(t.implicit_inner_node_cnt + 1) + 1}]
    BY <2>1 DEF SetLabel, Reads
  <2>5. CASE parent_of(v) \notin r.tree.inner
    BY <2>0, <2>5 DEF ReadStep
  <2>6. CASE parent_of(v) \in r.tree.inner /\ v # t.implicit_inner_node_cnt /\ NextNode(t, r.nodes)
    <3>1. ReadStep(t, v, r) = [r EXCEPT !.tree = SetInner(@, v), !.nodes = @ + 1]
      BY <2>6 DEF ReadStep
    <3> QED
      BY <2>0, <2>3, <3>1 DEF Reads
  <2>7. CASE parent_of(v) \in r.tree.inner /\ ~(v # t.implicit_inner_node_cnt /\ NextNode(t, r.nodes))
    <3>1. ReadStep(t, v, r) = [tree   |-> SetLabel(r.tree, v, NextLabel(t, r.labels)),
                               nodes  |-> r.nodes + 1,
                               labels |-> r.labels + 1]
      BY <2>7 DEF ReadStep
    <3> QED
      BY <2>0, <2>4, <3>1 DEF Reads
  <2> QED
    BY <2>5, <2>6, <2>7
<1> HIDE DEF X
<1>4. step \in Steps(a, b, X)
  BY <1>3 DEF Steps
<1>5. PICK f \in [a .. b -> X] :
        \A v \in a .. b : f[v] = IF v = a THEN first ELSE step[v][f[v - 1]]
  <2>1. a \in Nat /\ b \in Nat /\ a <= b /\ first \in X
    BY <1>1, <1>2
  <2> HIDE DEF step, read, a, b
  <2>2. step \in Steps(a, b, X)
    BY <1>4
  <2>3. \E f \in [a .. b -> X] : FollowsUp(f, a, b, first, step)
    BY <2>1, <2>2, FunctionUp
  <2> QED
    BY <2>3 DEF FollowsUp
<1>6. ASSUME NEW v \in a .. b
      PROVE  f[v] = IF v = a THEN first ELSE ReadStep(t, v, f[v - 1])
  <2>1. CASE v = a
    BY <1>5, <2>1
  <2>2. CASE v # a
    <3>1. v - 1 \in a .. b
      BY <1>1, <2>2
    <3>2. f[v - 1] \in X
      BY <1>5, <3>1
    <3>3. step[v][f[v - 1]] = ReadStep(t, v, f[v - 1])
      BY <2>2, <3>2
    <3> HIDE DEF step
    <3> QED
      BY <1>5, <2>2, <3>3
  <2> QED
    BY <2>1, <2>2
<1>7. f = [v \in a .. b |-> IF v = a THEN first ELSE ReadStep(t, v, f[v - 1])]
  <2>1. f = [v \in a .. b |-> f[v]]
    BY <1>5
  <2> QED
    BY <1>6, <2>1
<1>8. f = [v \in c - 1 .. 2 * n - 2 |->
             IF v = c - 1 THEN [tree |-> Upper(t), nodes |-> 0, labels |-> 0]
             ELSE LET r == f[v - 1] IN
               IF parent_of(v) \notin r.tree.inner THEN r
               ELSE IF v # c /\ NextNode(t, r.nodes)
                 THEN [r EXCEPT !.tree = SetInner(@, v), !.nodes = @ + 1]
               ELSE [tree   |-> SetLabel(r.tree, v, NextLabel(t, r.labels)),
                     nodes  |-> r.nodes + 1,
                     labels |-> r.labels + 1]]
  BY <1>7, Zenon DEF ReadStep, first, c
<1>9. read = [v \in c - 1 .. 2 * n - 2 |->
             IF v = c - 1 THEN [tree |-> Upper(t), nodes |-> 0, labels |-> 0]
             ELSE LET r == read[v - 1] IN
               IF parent_of(v) \notin r.tree.inner THEN r
               ELSE IF v # c /\ NextNode(t, r.nodes)
                 THEN [r EXCEPT !.tree = SetInner(@, v), !.nodes = @ + 1]
               ELSE [tree   |-> SetLabel(r.tree, v, NextLabel(t, r.labels)),
                     nodes  |-> r.nodes + 1,
                     labels |-> r.labels + 1]]
  BY <1>8, Zenon DEF read
<1>10. FromTeb(t) = read[2 * n - 2].tree
  BY Zenon DEF FromTeb, c
<1> HIDE DEF read
<1>11. read = [v \in a .. b |-> IF v = a THEN first ELSE ReadStep(t, v, read[v - 1])]
  BY <1>9, Zenon DEF ReadStep, first, c
<1> HIDE DEF a, b, step
<1>12. \A v \in a .. b : v # a => v - 1 \in a .. b
  BY <1>1
<1>13. a \in a .. b /\ first \in X
  BY <1>1, <1>2
<1>14. read[a] = first
  BY <1>11, <1>13
<1>15. ASSUME NEW v \in a .. b - 1, read[v] \in X
       PROVE  read[v + 1] = ReadStep(t, v + 1, read[v]) /\ read[v + 1] \in X
  <2>1. v + 1 \in a .. b /\ v + 1 # a /\ (v + 1) - 1 = v
    BY <1>1
  <2>2. read[v + 1] = ReadStep(t, v + 1, read[v])
    BY <1>11, <2>1
  <2> QED
    BY <1>3, <1>15, <2>1, <2>2
<1>16. a .. b \subseteq {v \in a .. b : read[v] \in X}
  <2> DEFINE S == {v \in a .. b : read[v] \in X}
  <2>1. a \in S
    BY <1>13, <1>14
  <2>2. \A v \in a .. b - 1 : v \in S => v + 1 \in S
    <3>1. \A v \in a .. b - 1 : v + 1 \in a .. b
      BY <1>1
    <3> QED
      BY <1>15, <3>1
  <2> HIDE DEF S
  <2>3. a .. b \subseteq S
    BY <1>1, <2>1, <2>2, ReachedUp
  <2> QED
    BY <2>3 DEF S
<1>17. \A v \in a .. b : read[v] \in Reads(t)
  BY <1>16 DEF X
<1>18. \A v \in a .. b - 1 : read[v + 1] = ReadStep(t, v + 1, read[v])
  <2>1. \A v \in a .. b - 1 : v \in a .. b
    BY <1>1
  <2> QED
    BY <1>15, <1>16, <2>1
<1>19. b - 1 = 2 * n - 3
  BY <1>1 DEF b
<1>20. ReadsBy(t, read)
  BY <1>14, <1>17, <1>18, <1>19 DEF ReadsBy, first, a, b, c
<1> QED
  BY <1>10, <1>20

\* The constructor makes a tree whose upper levels are perfect, from every TEB
\* that is more than one leaf, unless T has a 1-bit for a node of the last level.
THEOREM OpenGivesTree ==
  ASSUME NEW t, t.implicit_inner_node_cnt \in 1 .. n - 1,
         FromTeb(t).inner \subseteq 0 .. n - 2
  PROVE  IsTree(FromTeb(t)) /\ SkippedArePerfect(FromTeb(t))
<1> DEFINE c == t.implicit_inner_node_cnt
           X == Reads(t)
           first == [tree |-> Upper(t), nodes |-> 0, labels |-> 0]
           a == c - 1
           b == 2 * n - 2
<1>1. n \in Nat /\ c \in Nat /\ c > 0 /\ c <= n - 1 /\ a \in Nat /\ b \in Nat /\ a <= b
  BY Height
<1>2. /\ first \in X /\ FlagsAgree(Upper(t)) /\ Upper(t).inner = 0 .. c - 1
  BY UpperIsTree
<1>3. PICK read : ReadsBy(t, read) /\ FromTeb(t) = read[b].tree
  BY ReadSteps
<1>4. /\ read[a] = first
      /\ \A v \in a .. b - 1 : read[v + 1] = ReadStep(t, v + 1, read[v])
      /\ \A v \in a .. b : read[v] \in X
  <2>1. b - 1 = 2 * n - 3
    BY <1>1
  <2> QED
    BY <1>3, <2>1 DEF ReadsBy
<1> HIDE DEF a, b, c, first
<1> DEFINE Holds(v) == /\ read[v] \in X
                       /\ FlagsAgree(read[v].tree)
                       /\ 0 .. c - 1 \subseteq read[v].tree.inner
<1>5. Holds(a)
  <2>1. first.tree = Upper(t)
    BY DEF first
  <2> QED
    BY <1>2, <1>4, <2>1
<1>6. ASSUME NEW u \in a .. b - 1, Holds(u)
      PROVE  Holds(u + 1)
  <2> DEFINE r == read[u]
             v == u + 1
  <2> SUFFICES Holds(v)
    OBVIOUS
  <2>1. read[v] = ReadStep(t, v, r)
    BY <1>4, <1>6
  <2>2. r \in X /\ FlagsAgree(r.tree) /\ 0 .. c - 1 \subseteq r.tree.inner
    BY <1>6
  <2>3. read[v] \in X
    <3>1. v \in a .. b
      BY <1>1
    <3> QED
      BY <1>4, <3>1
  <2>4. v \in Nat /\ v > 0
    BY <1>1, <1>6
  <2> HIDE DEF r, v
  <2>5. /\ DOMAIN r = {"tree", "nodes", "labels"}
        /\ DOMAIN r.tree = {"inner", "active", "labels", "perfect"}
    BY <2>2 DEF X, Reads
  <2>6. CASE parent_of(v) \notin r.tree.inner
    BY <2>1, <2>2, <2>3, <2>6 DEF ReadStep
  <2>7. CASE parent_of(v) \in r.tree.inner /\ v # c /\ NextNode(t, r.nodes)
    <3>1. read[v].tree = SetInner(r.tree, v)
      BY <2>1, <2>5, <2>7 DEF ReadStep, c
    <3>2. /\ FlagsAgree(SetInner(r.tree, v))
          /\ SetInner(r.tree, v).inner = r.tree.inner \cup {v}
      BY <2>2, <2>4, <2>5, <2>7, SetInnerKeepsFlags
    <3> QED
      BY <2>2, <2>3, <3>1, <3>2
  <2>8. CASE parent_of(v) \in r.tree.inner /\ ~(v # c /\ NextNode(t, r.nodes))
    <3>1. read[v].tree = SetLabel(r.tree, v, NextLabel(t, r.labels))
      BY <2>1, <2>8 DEF ReadStep, c
    <3>2. /\ read[v].tree.inner = r.tree.inner
          /\ read[v].tree.active = r.tree.active
      BY <2>5, <3>1 DEF SetLabel
    <3> QED
      BY <2>2, <2>3, <3>2 DEF FlagsAgree
  <2> QED
    BY <2>6, <2>7, <2>8
<1> HIDE DEF Holds
<1>7. Holds(b)
  <2> DEFINE S == {v \in a .. b : Holds(v)}
  <2>1. a \in S
    BY <1>1, <1>5
  <2>2. \A u \in a .. b - 1 : u \in S => u + 1 \in S
    <3>1. \A u \in a .. b - 1 : u + 1 \in a .. b
      BY <1>1
    <3> QED
      BY <1>6, <3>1
  <2> HIDE DEF S
  <2>3. a .. b \subseteq S
    BY <1>1, <2>1, <2>2, ReachedUp
  <2>4. b \in a .. b
    BY <1>1
  <2> QED
    BY <2>3, <2>4 DEF S
<1> DEFINE tree == FromTeb(t)
<1>8. /\ FlagsAgree(tree) /\ 0 .. c - 1 \subseteq tree.inner
       /\ tree \in [inner : SUBSET Nodes, active : SUBSET Nat, labels : SUBSET Nodes,
                    perfect : {Log2(c + 1) + 1}]
  <2>1. tree = read[b].tree /\ read[b] \in Reads(t)
    BY <1>3, <1>7 DEF Holds, X
  <2> QED
    BY <1>7, <2>1 DEF Holds, Reads, c
<1>9. tree.inner \subseteq 0 .. n - 2
  OBVIOUS
<1> HIDE DEF tree
<1>10. Log2(c + 1) \in Nat /\ 2^Log2(c + 1) <= c + 1
  <2>1. c + 1 \in Nat /\ c + 1 > 0
    BY <1>1
  <2> QED
    BY <2>1, Log2Bounds
<1>11. Log2(c + 1) <= h
  <2>1. h \in Nat /\ n = 2^h
    BY Height DEF n
  <2>2. h < Log2(c + 1) => 2^(h + 1) <= 2^Log2(c + 1)
    BY <1>10, <2>1, PowerOrder
  <2>3. 2^(h + 1) = 2 * 2^h /\ 2^Log2(c + 1) \in Nat
    BY <1>10, <2>1, PowerStep, PowerOfTwo
  <2> QED
    BY <1>1, <1>10, <2>1, <2>2, <2>3
<1>12. tree.perfect = Log2(c + 1) + 1 /\ tree.perfect \in 1 .. h + 1
  BY <1>8, <1>10, <1>11, Height
<1>13. ChildrenOf(tree.inner) \subseteq Nodes
  <2>1. \A u \in 0 .. n - 2 : Children(u) \subseteq Nodes
    BY <1>1 DEF Children, Nodes
  <2> QED
    BY <1>9, <2>1 DEF ChildrenOf
<1>14. 0 \in Nodes
  BY <1>1 DEF Nodes
<1>15. IsTree(tree)
  <2>1. tree.active \subseteq Nodes
    BY <1>8, <1>13, <1>14 DEF FlagsAgree
  <2>2. tree \in [inner : SUBSET (0 .. n - 2), active : SUBSET Nodes,
                  labels : SUBSET Nodes, perfect : 1 .. h + 1]
    BY <1>8, <1>9, <1>12, <2>1
  <2> QED
    BY <1>8, <2>2 DEF IsTree, FlagsAgree, ChildrenOf
<1>16. SkippedArePerfect(tree)
  <2>1. tree.perfect - 1 = Log2(c + 1)
    BY <1>10, <1>12
  <2>2. 2^Log2(c + 1) \in Nat
    BY <1>10, PowerOfTwo
  <2>3. 0 .. 2^Log2(c + 1) - 1 - 1 \subseteq 0 .. c - 1
    BY <1>1, <1>10, <2>2
  <2> QED
    BY <1>8, <2>1, <2>3 DEF SkippedArePerfect, first_node_idx_at_level
<1> QED
  BY <1>15, <1>16 DEF tree

\* Nth is the inverse of the rank.
LEMMA NthOfRank ==
  ASSUME NEW S, S \subseteq Nat, IsFiniteSet(S), NEW v \in S
  PROVE  Nth(S, Rank(S, v)) = v
<1>1. \A w \in S : Rank(S, w) = Rank(S, v) => w = v
  BY RankInjective
<1>2. Nth(S, Rank(S, v)) = CHOOSE w \in S : Rank(S, w) = Rank(S, v)
  BY DEF Nth, Rank
<1> QED
  BY <1>1, <1>2

\* A tree and its active nodes, leaves included
LEMMA ActiveNodes ==
  ASSUME NEW tree, IsTree(tree)
  PROVE  /\ tree.active \subseteq Nat /\ IsFiniteSet(tree.active)
         /\ tree.inner \subseteq Nat /\ IsFiniteSet(tree.inner)
         /\ tree.inner \subseteq tree.active /\ 0 \in tree.active
         /\ tree.active = {0} \cup ChildrenOf(tree.inner)
         /\ tree.active \subseteq Nodes /\ tree.inner \subseteq 0 .. n - 2
         /\ IsFiniteSet(tree.active \ tree.inner)
<1>1. n \in Nat
  BY Height
<1>2. /\ tree.active \subseteq Nodes /\ tree.inner \subseteq 0 .. n - 2
      /\ tree.inner \subseteq tree.active
      /\ tree.active = {0} \cup ChildrenOf(tree.inner)
  BY DEF IsTree, ChildrenOf
<1>3. IsFiniteSet(Nodes)
  <2>1. 0 \in Int /\ 2 * n - 2 \in Int
    BY <1>1
  <2> QED
    BY <2>1, FS_Interval DEF Nodes
<1>4. IsFiniteSet(tree.active) /\ IsFiniteSet(tree.inner)
  <2>1. tree.active \in SUBSET Nodes /\ tree.inner \in SUBSET tree.active
    BY <1>2
  <2> QED
    BY <1>3, <2>1, FS_Subset
<1>5. tree.active \ tree.inner \in SUBSET tree.active
  OBVIOUS
<1>6. IsFiniteSet(tree.active \ tree.inner)
  BY <1>4, <1>5, FS_Subset
<1>7. Nodes \subseteq Nat
  BY <1>1 DEF Nodes
<1> QED
  BY <1>1, <1>2, <1>4, <1>6, <1>7

\* Below inner nodes that leave no gap, nothing is missing either.
LEMMA ActiveWithoutGap ==
  ASSUME NEW tree, IsTree(tree), NEW b \in Nat, 0 .. b - 1 \subseteq tree.inner
  PROVE  0 .. 2 * b \subseteq tree.active
<1>1. ASSUME NEW x \in 1 .. 2 * b
      PROVE  x \in ChildrenOf(tree.inner)
  <2>1. x - 1 \in Nat
    OBVIOUS
  <2>2. /\ (x - 1) \div 2 \in Nat /\ (x - 1) % 2 \in 0 .. 2 - 1
        /\ x - 1 = 2 * ((x - 1) \div 2) + ((x - 1) % 2)
    <3>1. PICK y \in Nat : y = x - 1
      BY <2>1
    <3>2. 2 \in Nat /\ 2 > 0
      OBVIOUS
    <3>3. y \div 2 \in Nat /\ y % 2 \in 0 .. 2 - 1 /\ y = 2 * (y \div 2) + (y % 2)
      BY <3>2, BlockOf
    <3> QED
      BY <3>1, <3>3
  <2>3. PICK u \in Nat, s \in 0 .. 1 : x - 1 = 2 * u + s
    BY <2>2
  <2>4. u \in 0 .. b - 1 /\ x \in Children(u)
    BY <2>3 DEF Children
  <2> QED
    BY <2>4 DEF ChildrenOf
<1>2. tree.active = {0} \cup ChildrenOf(tree.inner)
  BY ActiveNodes
<1>3. \A x \in 0 .. 2 * b : x = 0 \/ x \in 1 .. 2 * b
  OBVIOUS
<1> QED
  BY <1>1, <1>2, <1>3

\* Of the active nodes, those before the places of the children of a node are the root
\* and the children of the inner nodes before it.
LEMMA RankOfRow ==
  ASSUME NEW tree, IsTree(tree), NEW v \in Nat
  PROVE  Rank(tree.active, 2 * v + 1) = 2 * Rank(tree.inner, v) + 1
<1> DEFINE A   == {w \in tree.inner : w < v}
           odd  == {u \in tree.active : u < 2 * v + 1 /\ \E w \in A : u = 2 * w + 1}
           even == {u \in tree.active : u < 2 * v + 1 /\ \E w \in A : u = 2 * w + 2}
           k    == Cardinality(A)
<1>1. /\ tree.active \subseteq Nat /\ IsFiniteSet(tree.active)
      /\ tree.inner \subseteq Nat /\ IsFiniteSet(tree.inner)
      /\ 0 \in tree.active /\ v \in Nat
      /\ tree.active = {0} \cup ChildrenOf(tree.inner)
  BY ActiveNodes
<1>2. IsFiniteSet(A) /\ k \in Nat /\ k = Rank(tree.inner, v)
  BY <1>1, RankType DEF Rank
<1>3. \A w \in tree.inner : 2 * w + 1 \in tree.active /\ 2 * w + 2 \in tree.active
  BY <1>1 DEF ChildrenOf, Children
<1>4. \A w \in A : w \in Nat /\ 2 * w + 2 < 2 * v + 1 /\ w \in tree.inner
  BY <1>1
<1>5. IsFiniteSet(odd) /\ Cardinality(odd) = k
  <2> DEFINE f == [w \in A |-> 2 * w + 1]
  <2>1. \A w \in A : 2 * w + 1 \in odd
    BY <1>1, <1>3, <1>4
  <2> HIDE DEF A
  <2>2. f \in [A -> odd]
    <3> HIDE DEF odd
    <3> QED
      BY <2>1
  <2>3. \A x \in A, y \in A : f[x] = f[y] => x = y
    <3>1. \A x \in A : f[x] = 2 * x + 1 /\ x \in Nat
      BY <1>4
    <3> HIDE DEF f
    <3> QED
      BY <3>1
  <2>4. \A y \in odd : \E x \in A : f[x] = y
    OBVIOUS
  <2> HIDE DEF odd, f
  <2> QED
    BY <1>2, <2>2, <2>3, <2>4, RankOfImage
<1>6. IsFiniteSet(even) /\ Cardinality(even) = k
  <2> DEFINE f == [w \in A |-> 2 * w + 2]
  <2>1. \A w \in A : 2 * w + 2 \in even
    BY <1>1, <1>3, <1>4
  <2> HIDE DEF A
  <2>2. f \in [A -> even]
    <3> HIDE DEF even
    <3> QED
      BY <2>1
  <2>3. \A x \in A, y \in A : f[x] = f[y] => x = y
    <3>1. ASSUME NEW x \in A, NEW y \in A, f[x] = f[y]
          PROVE  x = y
      <4>1. x \in Nat /\ y \in Nat
        BY <1>4
      <4>2. 2 * x + 2 = 2 * y + 2
        BY <3>1
      <4> QED
        BY <4>1, <4>2
    <3> QED
      BY <3>1
  <2>4. \A y \in even : \E x \in A : f[x] = y
    OBVIOUS
  <2> HIDE DEF even, f
  <2> QED
    BY <1>2, <2>2, <2>3, <2>4, RankOfImage
<1>7. odd \cap even = {} /\ 0 \notin odd \cup even
  BY <1>4
<1>8. {u \in tree.active : u < 2 * v + 1} = (odd \cup even) \cup {0}
  <2>1. ASSUME NEW u \in tree.active, u < 2 * v + 1, u # 0
        PROVE  u \in odd \cup even
    <3>1. PICK w \in tree.inner : u = 2 * w + 1 \/ u = 2 * w + 2
      BY <1>1, <2>1 DEF ChildrenOf, Children
    <3>2. w \in Nat /\ w < v
      BY <1>1, <2>1, <3>1
    <3> QED
      BY <2>1, <3>1, <3>2
  <2>2. 0 \in tree.active /\ 0 < 2 * v + 1
    BY <1>1
  <2> QED
    BY <2>1, <2>2
<1> HIDE DEF odd, even, A, k
<1>9. IsFiniteSet(odd \cup even) /\ Cardinality(odd \cup even) = k + k
  <2>1. /\ IsFiniteSet(odd \cup even)
        /\ Cardinality(odd \cup even) = Cardinality(odd) + Cardinality(even) - Cardinality(odd \cap even)
    BY <1>5, <1>6, FS_Union
  <2>2. Cardinality(odd \cap even) = 0
    BY <1>7, FS_EmptySet
  <2> QED
    BY <1>2, <1>5, <1>6, <2>1, <2>2
<1>10. Cardinality((odd \cup even) \cup {0}) = k + k + 1
  BY <1>7, <1>9, FS_AddElement
<1>11. Rank(tree.active, 2 * v + 1) = k + k + 1
  BY <1>8, <1>10 DEF Rank
<1> QED
  BY <1>2, <1>11

\* So the children of an inner node are numbered.
LEMMA RankOfChild ==
  ASSUME NEW tree, IsTree(tree), NEW v \in tree.inner, NEW s \in 0 .. 1
  PROVE  Rank(tree.active, 2 * v + 1 + s) = 2 * Rank(tree.inner, v + 1) - 1 + s
<1>1. /\ tree.active \subseteq Nat /\ IsFiniteSet(tree.active)
      /\ tree.inner \subseteq Nat /\ IsFiniteSet(tree.inner) /\ v \in Nat
      /\ tree.active = {0} \cup ChildrenOf(tree.inner)
  BY ActiveNodes
<1>2. PICK k \in Nat : k = Rank(tree.inner, v)
  BY <1>1, RankType
<1>3. Rank(tree.active, 2 * v + 1) = 2 * k + 1
  BY <1>1, <1>2, RankOfRow
<1>4. Rank(tree.inner, v + 1) = k + 1
  BY <1>1, <1>2, RankNext
<1>5. CASE s = 0
  <2>1. 2 * v + 1 + 0 = 2 * v + 1
    BY <1>1
  <2> QED
    BY <1>3, <1>4, <1>5, <2>1
<1>6. CASE s = 1
  <2>1. 2 * v + 1 \in tree.active /\ 2 * v + 1 \in Nat
    BY <1>1 DEF ChildrenOf, Children
  <2>2. Rank(tree.active, (2 * v + 1) + 1) = (2 * k + 1) + 1
    BY <1>1, <1>3, <2>1, RankNext
  <2> QED
    BY <1>4, <1>6, <2>2
<1> QED
  BY <1>5, <1>6

-----------------------------------------------------------------------------
\* The TEB t encodes a tree: it counts the nodes in level order, and answers
\* whether one is inner, what its rank is, and how a leaf is labelled.  The
\* levels that its walks skip are perfect.
Encodes(t, tree) ==
  LET leaves == tree.active \ tree.inner
  IN  /\ IsTree(tree)
      /\ t.perfect_level_cnt \in 1 .. h + 1
      /\ 0 .. first_node_idx_at_level(t.perfect_level_cnt - 1) - 1 \subseteq tree.inner
      /\ \A v \in tree.active :
           /\ is_inner_node(t, Rank(tree.active, v)) <=> v \in tree.inner
           /\ rank_inclusive(t, Rank(tree.active, v)) = Rank(tree.inner, v + 1)
      /\ \A v \in leaves :
           get_label_by_idx(t, Rank(leaves, v)) <=> v \in tree.labels

\* A leaf comes after as many labels as there are leaves before it.
LEMMA RankOfLeaf ==
  ASSUME NEW tree, IsTree(tree), NEW v \in tree.active \ tree.inner
  PROVE  Rank(tree.active, v) - Rank(tree.inner, v + 1) = Rank(tree.active \ tree.inner, v)
<1> DEFINE leaves == tree.active \ tree.inner
<1>1. /\ tree.inner \subseteq Nat /\ IsFiniteSet(tree.inner) /\ IsFiniteSet(leaves)
      /\ tree.inner \subseteq tree.active /\ tree.active \subseteq Nat
  BY ActiveNodes
<1>2. v \in Nat /\ v \notin tree.inner
  BY <1>1
<1>3. tree.active = leaves \cup tree.inner /\ leaves \cap tree.inner = {}
  BY <1>1
<1> HIDE DEF leaves
<1>4. Rank(leaves \cup tree.inner, v) = Rank(leaves, v) + Rank(tree.inner, v)
  BY <1>1, <1>3, RankOfUnion
<1>5. Rank(tree.inner, v + 1) = Rank(tree.inner, v)
  BY <1>1, <1>2, RankNext
<1>6. Rank(leaves, v) \in Nat /\ Rank(tree.inner, v) \in Nat
  BY <1>1, RankType
<1>7. Rank(tree.active, v) - Rank(tree.inner, v + 1) = Rank(leaves, v)
  BY <1>3, <1>4, <1>5, <1>6
<1> QED
  BY <1>7 DEF leaves

\* Down to its leaf, a path has active nodes only.
LEMMA PathIsActive ==
  ASSUME NEW tree, IsTree(tree), NEW p \in Slots, NEW e, Ends(tree, p, e), NEW l \in 0 .. e
  PROVE  NodeAbove(p, l) \in tree.active
<1>1. h \in Nat /\ e \in 0 .. h
  BY Height DEF Ends
<1>2. 0 \in tree.active /\ tree.active = {0} \cup ChildrenOf(tree.inner)
  BY ActiveNodes
<1>3. CASE l = 0
  BY <1>2, <1>3, PathStart
<1>4. CASE l # 0
  <2>1. l - 1 \in 0 .. h - 1 /\ (l - 1) + 1 = l /\ l - 1 < e /\ l - 1 \in 0 .. h
    BY <1>1, <1>4
  <2>2. NodeAbove(p, l - 1) \in tree.inner
    BY <2>1 DEF Ends
  <2>3. NodeAbove(p, (l - 1) + 1) \in Children(NodeAbove(p, l - 1))
    BY <2>1, PathChild
  <2> QED
    BY <1>2, <2>1, <2>2, <2>3 DEF ChildrenOf
<1> QED
  BY <1>3, <1>4

\* The node that a walk starts from has no gap before it.
LEMMA WalkStarts ==
  ASSUME NEW tree, IsTree(tree), NEW p \in Slots, NEW top \in 0 .. h,
         0 .. first_node_idx_at_level(top) - 1 \subseteq tree.inner
  PROVE  Rank(tree.active, NodeAbove(p, top)) = NodeAbove(p, top)
<1> DEFINE v == NodeAbove(p, top)
<1>1. PICK b \in Nat : b = 2^top - 1 /\ 2 * 2^top = 2 * b + 2
  <2>1. 2^top \in Nat /\ 2^top > 0
    BY SlotsPerNode
  <2>2. 2^top - 1 \in Nat /\ 2 * 2^top = 2 * (2^top - 1) + 2
    BY <2>1
  <2> QED
    BY <2>2
<1>2. 0 .. b - 1 \subseteq tree.inner
  BY <1>1 DEF first_node_idx_at_level
<1>3. 0 .. 2 * b \subseteq tree.active
  BY <1>2, ActiveWithoutGap
<1>4. v \in Nat /\ v < 2 * b + 1
  <2>1. v \in Nat /\ v < 2 * 2^top - 1
    BY PathNode
  <2> QED
    BY <1>1, <2>1
<1>5. 0 .. v - 1 \subseteq tree.active
  <2>1. 0 .. v - 1 \subseteq 0 .. 2 * b
    BY <1>4
  <2> QED
    BY <1>3, <2>1
<1>6. tree.active \subseteq Nat
  BY ActiveNodes
<1> HIDE DEF v
<1>7. Rank(tree.active, v) = v
  BY <1>4, <1>5, <1>6, RankOfFull
<1> QED
  BY <1>7 DEF v

\* The walk through a TEB follows the path to its leaf, counting nodes.
LEMMA EncodedWalk ==
  ASSUME NEW t, NEW tree, Encodes(t, tree), NEW p \in Slots
  PROVE  \E e \in 0 .. h :
           /\ Ends(tree, p, e)
           /\ Descend(t, p).node = Rank(tree.active, NodeAbove(p, e))
<1> DEFINE top == t.perfect_level_cnt - 1
           A   == tree.active
           at[l \in top .. h] ==
             IF l = top THEN first_node_idx_at_level(top) + p \div 2^(h - top)
             ELSE LET v == at[l - 1] IN
                  IF is_inner_node(t, v)
                    THEN 2 * rank_inclusive(t, v) - 1 + DirectionBit(p, h - l)
                    ELSE v
           level == CHOOSE l \in top .. h :
                      /\ l = h \/ ~is_inner_node(t, at[l])
                      /\ \A k \in top .. l - 1 : is_inner_node(t, at[k])
           Down(l, v) == IF is_inner_node(t, v)
                           THEN 2 * rank_inclusive(t, v) - 1 + DirectionBit(p, h - l)
                           ELSE v
<1>1. h \in Nat /\ top \in 0 .. h /\ IsTree(tree)
  <2>1. t.perfect_level_cnt \in 1 .. h + 1 /\ IsTree(tree)
    BY DEF Encodes
  <2> QED
    BY <2>1, Height
<1>2. 0 .. first_node_idx_at_level(top) - 1 \subseteq tree.inner
  BY DEF Encodes
<1>3. \A v \in A : /\ is_inner_node(t, Rank(A, v)) <=> v \in tree.inner
                   /\ rank_inclusive(t, Rank(A, v)) = Rank(tree.inner, v + 1)
  BY DEF Encodes
<1>4. PICK e \in top .. h : Ends(tree, p, e)
  <2> DEFINE view == [tree EXCEPT !.perfect = top + 1]
  <2>1. view.inner = tree.inner /\ view.active = tree.active /\ view.perfect = top + 1
    BY <1>1 DEF IsTree
  <2>2. IsTree(view)
    BY <1>1 DEF IsTree
  <2>3. GoodTree(view)
    <3>1. (top + 1) - 1 = top
      BY <1>1
    <3> QED
      BY <1>2, <2>1, <2>2, <3>1 DEF GoodTree, SkippedArePerfect
  <2>4. \E e \in view.perfect - 1 .. h : Ends(view, p, e)
    BY <2>3, PathHasLeaf
  <2>5. view.perfect - 1 = top
    BY <1>1, <2>1
  <2> HIDE DEF view
  <2>6. \A e : Ends(view, p, e) => Ends(tree, p, e)
    BY <2>1 DEF Ends
  <2> QED
    BY <2>4, <2>5, <2>6
<1> HIDE DEF top
<1>5. e \in 0 .. h /\ e \in Nat
  BY <1>1, <1>4
<1> DEFINE r(l) == Rank(A, NodeAbove(p, l))
<1>6. ASSUME NEW l \in 0 .. e
      PROVE  is_inner_node(t, r(l)) <=> l < e
  <2>1. NodeAbove(p, l) \in A
    BY <1>1, <1>4, PathIsActive
  <2>2. NodeAbove(p, l) \in tree.inner <=> l < e
    <3>1. l \in 0 .. h
      BY <1>1, <1>5
    <3> QED
      BY <1>4, <3>1 DEF Ends
  <2> QED
    BY <1>3, <2>1, <2>2
<1>7. r(top) = first_node_idx_at_level(top) + p \div 2^(h - top)
  <2>1. r(top) = NodeAbove(p, top)
    BY <1>1, <1>2, WalkStarts
  <2> QED
    BY <2>1 DEF NodeAbove
<1>8. ASSUME NEW l \in 1 .. e
      PROVE  r(l) = 2 * rank_inclusive(t, r(l - 1)) - 1 + DirectionBit(p, h - l)
  <2>1. l - 1 \in 0 .. e /\ l - 1 \in 0 .. h - 1 /\ (l - 1) + 1 = l /\ l - 1 < e /\ l - 1 \in 0 .. h
    BY <1>1, <1>5, <1>8
  <2>2. NodeAbove(p, l - 1) \in A
    BY <1>1, <1>4, <2>1, PathIsActive
  <2>3. NodeAbove(p, l - 1) \in tree.inner
    BY <1>4, <2>1 DEF Ends
  <2>4. /\ DirectionBit(p, h - l) \in 0 .. 1
        /\ NodeAbove(p, l) = 2 * NodeAbove(p, l - 1) + 1 + DirectionBit(p, h - l)
    <3>1. /\ DirectionBit(p, h - ((l - 1) + 1)) \in 0 .. 1
          /\ NodeAbove(p, (l - 1) + 1)
               = 2 * NodeAbove(p, l - 1) + 1 + DirectionBit(p, h - ((l - 1) + 1))
      BY <2>1, PathBit
    <3> QED
      BY <2>1, <3>1
  <2>5. Rank(A, 2 * NodeAbove(p, l - 1) + 1 + DirectionBit(p, h - l))
          = 2 * Rank(tree.inner, NodeAbove(p, l - 1) + 1) - 1 + DirectionBit(p, h - l)
    BY <1>1, <2>3, <2>4, RankOfChild
  <2>6. rank_inclusive(t, r(l - 1)) = Rank(tree.inner, NodeAbove(p, l - 1) + 1)
    BY <1>3, <2>2
  <2> QED
    BY <2>4, <2>5, <2>6
<1> DEFINE f == [l \in top .. h |-> IF l <= e THEN r(l) ELSE r(e)]
<1>9. ASSUME NEW l \in top .. h
      PROVE  f[l] = IF l = top THEN first_node_idx_at_level(top) + p \div 2^(h - top)
                    ELSE Down(l, f[l - 1])
  <2> HIDE DEF r
  <2>1. CASE l = top
    BY <1>4, <1>7, <2>1, <1>1
  <2>2. CASE l # top /\ l <= e
    <3>1. l - 1 \in top .. h /\ l - 1 <= e /\ l - 1 \in 0 .. e /\ l - 1 < e /\ l \in 1 .. e
      BY <1>1, <1>4, <2>2
    <3>2. f[l - 1] = r(l - 1) /\ f[l] = r(l)
      BY <2>2, <3>1
    <3>3. Down(l, r(l - 1)) = r(l)
      BY <1>6, <1>8, <3>1
    <3> QED
      BY <2>2, <3>2, <3>3
  <2>3. CASE l # top /\ ~(l <= e)
    <3>1. l - 1 \in top .. h /\ e \in 0 .. e /\ ~(e < e)
      BY <1>1, <1>4, <2>3
    <3>2. f[l - 1] = r(e) /\ f[l] = r(e)
      <4>1. l - 1 <= e => l - 1 = e
        BY <1>1, <1>4, <2>3
      <4> QED
        BY <2>3, <3>1, <4>1
    <3>3. Down(l, r(e)) = r(e)
      BY <1>6, <3>1
    <3> QED
      BY <2>3, <3>2, <3>3
  <2> QED
    BY <2>1, <2>2, <2>3
<1>10. f = [l \in top .. h |->
              IF l = top THEN first_node_idx_at_level(top) + p \div 2^(h - top)
              ELSE Down(l, f[l - 1])]
  <2>1. f = [l \in top .. h |-> f[l]]
    OBVIOUS
  <2> HIDE DEF f, Down
  <2> QED
    BY <1>9, <2>1
<1> HIDE DEF r, A
<1>11. f = [l \in top .. h |->
              IF l = top THEN first_node_idx_at_level(top) + p \div 2^(h - top)
              ELSE LET v == f[l - 1] IN
                   IF is_inner_node(t, v)
                     THEN 2 * rank_inclusive(t, v) - 1 + DirectionBit(p, h - l)
                     ELSE v]
  <2> HIDE DEF f
  <2> QED
    BY <1>10, Zenon DEF Down
<1>12. at = [l \in top .. h |->
              IF l = top THEN first_node_idx_at_level(top) + p \div 2^(h - top)
              ELSE LET v == at[l - 1] IN
                   IF is_inner_node(t, v)
                     THEN 2 * rank_inclusive(t, v) - 1 + DirectionBit(p, h - l)
                     ELSE v]
  <2> HIDE DEF f
  <2> QED
    BY <1>11, Zenon DEF at
<1>13. Descend(t, p).node = at[level]
  BY Zenon DEF Descend, top
<1> HIDE DEF at
<1>14. at = [l \in top .. h |->
              IF l = top THEN first_node_idx_at_level(top) + p \div 2^(h - top)
              ELSE Down(l, at[l - 1])]
  BY <1>12, Zenon DEF Down
<1> HIDE DEF Down, f
<1>15. \A l \in top .. h : at[l] = f[l]
  <2> DEFINE S == {l \in top .. h : at[l] # f[l]}
  <2>1. SUFFICES ASSUME S # {} PROVE FALSE
    OBVIOUS
  <2>2. PICK l \in S : \A y \in S : l <= y
    <3>1. S \subseteq Nat
      BY <1>1
    <3> QED
      BY <2>1, <3>1, LeastNatural
  <2>3. l # top
    BY <1>1, <1>9, <1>14
  <2>4. l - 1 \in top .. h /\ ~(l <= l - 1)
    BY <1>1, <2>3
  <2>5. at[l - 1] = f[l - 1]
    BY <2>2, <2>4
  <2>6. at[l] = Down(l, at[l - 1]) /\ f[l] = Down(l, f[l - 1])
    BY <1>9, <1>14, <2>3
  <2> QED
    BY <2>5, <2>6
<1>16. \A l \in top .. h : l <= e => (is_inner_node(t, at[l]) <=> l < e)
  <2>1. ASSUME NEW l \in top .. h, l <= e
        PROVE  is_inner_node(t, at[l]) <=> l < e
    <3>1. at[l] = r(l)
      BY <1>15, <2>1 DEF f
    <3>2. l \in 0 .. e
      BY <1>1, <1>5, <2>1
    <3> QED
      BY <1>6, <3>1, <3>2
  <2> QED
    BY <2>1
<1>17. level = e
  <2>1. \A l \in top .. h :
          (/\ l = h \/ ~is_inner_node(t, at[l])
           /\ \A k \in top .. l - 1 : is_inner_node(t, at[k])) <=> l = e
    <3>1. ASSUME NEW l \in top .. h, l < e
          PROVE  ~(l = h \/ ~is_inner_node(t, at[l]))
      BY <1>1, <1>5, <1>16, <3>1
    <3>2. ASSUME NEW l \in top .. h, e < l
          PROVE  ~ \A k \in top .. l - 1 : is_inner_node(t, at[k])
      <4>1. e \in top .. l - 1 /\ ~(e < e) /\ e <= e
        BY <1>1, <1>4, <3>2
      <4> QED
        BY <1>4, <1>16, <4>1
    <3>3. /\ e = h \/ ~is_inner_node(t, at[e])
          /\ \A k \in top .. e - 1 : is_inner_node(t, at[k])
      <4>1. ~(e < e) /\ e <= e
        BY <1>5
      <4>2. \A k \in top .. e - 1 : k \in top .. h /\ k <= e /\ k < e
        BY <1>1, <1>4
      <4> QED
        BY <1>4, <1>16, <4>1, <4>2
    <3>4. \A l \in top .. h : l < e \/ e < l \/ l = e
      BY <1>1, <1>5
    <3> QED
      BY <3>1, <3>2, <3>3, <3>4
  <2>2. level = CHOOSE l \in top .. h : l = e
    BY <2>1
  <2> QED
    BY <1>4, <2>2
<1>18. at[e] = r(e)
  <2>1. e <= e
    BY <1>5
  <2> QED
    BY <1>4, <1>15, <2>1 DEF f
<1>19. Descend(t, p).node = Rank(tree.active, NodeAbove(p, e))
  <2> HIDE DEF level
  <2> QED
    BY <1>13, <1>17, <1>18 DEF r, A
<1> QED
  BY <1>4, <1>5, <1>19

\* test() on a TEB gives the label of the leaf that the path to the bit ends in.
LEMMA EncodedTest ==
  ASSUME NEW t, NEW tree, Encodes(t, tree), NEW p \in Slots, NEW e, Ends(tree, p, e)
  PROVE  test(t, p) <=> NodeAbove(p, e) \in tree.labels
<1>1. PICK d \in 0 .. h : Ends(tree, p, d) /\ Descend(t, p).node = Rank(tree.active, NodeAbove(p, d))
  BY EncodedWalk
<1>2. d = e
  <2>1. d \in 0 .. h /\ e \in 0 .. h /\ h \in Nat
    BY <1>1, Height DEF Ends
  <2>2. ~(d < e) /\ ~(e < d)
    <3>1. (NodeAbove(p, d) \in tree.inner <=> d < d) /\ (NodeAbove(p, d) \in tree.inner <=> d < e)
      BY <1>1, <2>1 DEF Ends
    <3>2. (NodeAbove(p, e) \in tree.inner <=> e < e) /\ (NodeAbove(p, e) \in tree.inner <=> e < d)
      BY <1>1, <2>1 DEF Ends
    <3> QED
      BY <2>1, <3>1, <3>2
  <2> QED
    BY <2>1, <2>2
<1> DEFINE v == NodeAbove(p, e)
           leaves == tree.active \ tree.inner
<1>3. IsTree(tree)
  BY DEF Encodes
<1>4. e \in 0 .. e /\ e \in 0 .. h /\ ~(e < e)
  BY Height DEF Ends
<1>5. v \in tree.active /\ v \notin tree.inner
  BY <1>3, <1>4, PathIsActive DEF Ends
<1>6. get_label_idx(t, Rank(tree.active, v)) = Rank(leaves, v)
  <2>1. rank_inclusive(t, Rank(tree.active, v)) = Rank(tree.inner, v + 1)
    BY <1>5 DEF Encodes
  <2> QED
    BY <1>3, <1>5, <2>1, RankOfLeaf DEF get_label_idx
<1>7. get_label_by_idx(t, Rank(leaves, v)) <=> v \in tree.labels
  BY <1>5 DEF Encodes
<1> QED
  BY <1>1, <1>2, <1>6, <1>7 DEF test, get_label

\* Whole words hold the bits they are made for.
LEMMA WordsSuffice ==
  ASSUME NEW cnt \in Nat
  PROVE  0 .. cnt - 1 \subseteq Array(cnt)
<1>1. W \in Nat /\ W > 1
  BY BitArrayAssumption
<1>2. PICK i \in Nat : i = cnt + W - 1
  BY <1>1
<1>3. /\ i \div W \in Nat /\ i % W \in 0 .. W - 1 /\ W * (i \div W) \in Nat
      /\ i = W * (i \div W) + (i % W)
  BY <1>1, BlockOf
<1>4. W * Words(cnt) = W * (i \div W)
  BY <1>2 DEF Words
<1>5. cnt <= W * Words(cnt) /\ W * Words(cnt) \in Nat
  BY <1>1, <1>2, <1>3, <1>4
<1> QED
  BY <1>5 DEF Array

\* The bit stored for a member of S is the one of its rank.
LEMMA StoredBit ==
  ASSUME NEW S, S \subseteq Nat, IsFiniteSet(S), NEW ones, NEW k
  PROVE  Bit(Stored(S, ones), k) <=> \E v \in S : v \in ones /\ Rank(S, v) = k
<1>1. Cardinality(S) \in Nat
  BY FS_CardinalityType
<1>2. Bit(Stored(S, ones), k)
        <=> k \in Array(Cardinality(S)) /\ k < Cardinality(S) /\ Nth(S, k) \in ones
  BY DEF Bit, Stored
<1>3. ASSUME k \in Array(Cardinality(S)), k < Cardinality(S), Nth(S, k) \in ones
      PROVE  \E v \in S : v \in ones /\ Rank(S, v) = k
  <2>1. k \in 0 .. Cardinality(S) - 1
    BY <1>1, <1>3 DEF Array
  <2>2. PICK v \in S : Rank(S, v) = k
    BY <2>1, RankOnto
  <2>3. Nth(S, k) = v
    BY <2>2, NthOfRank
  <2> QED
    BY <1>3, <2>2, <2>3
<1>4. ASSUME NEW v \in S, v \in ones, Rank(S, v) = k
      PROVE  k \in Array(Cardinality(S)) /\ k < Cardinality(S) /\ Nth(S, k) \in ones
  <2>1. k \in Nat /\ k < Cardinality(S)
    BY <1>4, RankType, RankBelow
  <2>2. Nth(S, k) = v
    BY <1>4, NthOfRank
  <2>3. k \in 0 .. Cardinality(S) - 1
    BY <1>1, <2>1
  <2>4. k \in Array(Cardinality(S))
    BY <1>1, <2>3, WordsSuffice
  <2> QED
    BY <1>4, <2>1, <2>2, <2>4
<1> QED
  BY <1>2, <1>3, <1>4

\* The 1-bits of an array up to place m, and the members of S among ones whose
\* rank is at most m
OnesUpTo(a, m)        == {k \in 0 .. m : Bit(a, k)}
RankedUpTo(S, ones, m) == {v \in S \cap ones : Rank(S, v) <= m}

\* Counting stored bits counts the members they are stored for.
LEMMA StoredCount ==
  ASSUME NEW S, S \subseteq Nat, IsFiniteSet(S), NEW ones, NEW m \in Nat
  PROVE  Cardinality(OnesUpTo(Stored(S, ones), m)) = Cardinality(RankedUpTo(S, ones, m))
<1> DEFINE A == {v \in S \cap ones : Rank(S, v) <= m}
           B == {k \in 0 .. m : Bit(Stored(S, ones), k)}
           f == [v \in A |-> Rank(S, v)]
<1>1. \A v \in S : Rank(S, v) \in Nat
  BY RankType
<1>2. IsFiniteSet(A)
  <2>1. A \in SUBSET S
    OBVIOUS
  <2> QED
    BY <2>1, FS_Subset
<1>3. \A k : Bit(Stored(S, ones), k) <=> \E v \in S : v \in ones /\ Rank(S, v) = k
  BY StoredBit
<1>4. \A v \in A : Rank(S, v) \in B
  <2>1. ASSUME NEW v \in A PROVE Rank(S, v) \in B
    <3>1. v \in S /\ v \in ones /\ Rank(S, v) \in 0 .. m
      BY <1>1
    <3> QED
      BY <1>3, <3>1
  <2> QED
    BY <2>1
<1>5. f \in [A -> B]
  <2> HIDE DEF A, B
  <2> QED
    BY <1>4
<1>6. \A x \in A, y \in A : f[x] = f[y] => x = y
  <2>1. ASSUME NEW x \in A, NEW y \in A, Rank(S, x) = Rank(S, y)
        PROVE  x = y
    <3>1. x \in S /\ y \in S
      OBVIOUS
    <3> QED
      BY <2>1, <3>1, RankInjective
  <2> HIDE DEF A
  <2> QED
    BY <2>1
<1>7. \A k \in B : \E x \in A : f[x] = k
  <2>1. ASSUME NEW k \in B PROVE \E x \in A : Rank(S, x) = k
    <3>1. Bit(Stored(S, ones), k) /\ k <= m
      OBVIOUS
    <3>2. PICK v \in S : v \in ones /\ Rank(S, v) = k
      BY <1>3, <3>1
    <3> QED
      BY <3>1, <3>2
  <2> HIDE DEF A, B
  <2> QED
    BY <2>1
<1> HIDE DEF A, B, f
<1>8. Cardinality(B) = Cardinality(A)
  BY <1>2, <1>5, <1>6, <1>7, RankOfImage
<1> QED
  BY <1>8 DEF A, B, OnesUpTo, RankedUpTo

\* The first leaf of a tree, and the nodes before it
LEMMA FirstLeaf ==
  ASSUME NEW tree, IsTree(tree)
  PROVE  LET begin == Min(tree.active \ tree.inner)
         IN  /\ begin \in tree.active \ tree.inner
             /\ begin \in 0 .. n - 1
             /\ \A v \in tree.active \ tree.inner : begin <= v
             /\ 0 .. begin - 1 \subseteq tree.inner
<1> DEFINE leaves == tree.active \ tree.inner
           begin == Min(leaves)
<1>1. h \in Nat /\ n \in Nat /\ n > 0
  BY Height
<1>2. leaves \subseteq Nat
  BY ActiveNodes
<1>3. leaves # {}
  <2> DEFINE view == [tree EXCEPT !.perfect = 1]
  <2>1. view.inner = tree.inner /\ view.active = tree.active /\ view.perfect = 1
    BY DEF IsTree
  <2>2. IsTree(view)
    BY <1>1 DEF IsTree
  <2>3. first_node_idx_at_level(1 - 1) = 0
    BY PowerStep DEF first_node_idx_at_level
  <2>4. GoodTree(view)
    <3>1. 0 .. 0 - 1 = {}
      OBVIOUS
    <3> QED
      BY <2>1, <2>2, <2>3, <3>1 DEF GoodTree, SkippedArePerfect
  <2>5. 0 \in Slots
    BY <1>1 DEF Slots
  <2>6. PICK e : e \in view.perfect - 1 .. h /\ Ends(view, 0, e)
    BY <2>4, <2>5, PathHasLeaf
  <2> HIDE DEF view
  <2>7. Ends(tree, 0, e) /\ e \in 0 .. h
    BY <2>1, <2>6 DEF Ends
  <2>8. e \in 0 .. e /\ ~(e < e)
    BY <1>1, <2>7
  <2>9. NodeAbove(0, e) \in tree.active /\ NodeAbove(0, e) \notin tree.inner
    BY <2>5, <2>7, <2>8, PathIsActive DEF Ends
  <2> QED
    BY <2>9
<1> HIDE DEF leaves
<1>4. begin \in leaves /\ \A v \in leaves : begin <= v
  BY <1>2, <1>3, MinOf
<1>5. begin \in Nat
  BY <1>2, <1>4
<1> HIDE DEF begin
<1>6. 0 .. begin - 1 \subseteq tree.inner
  <2> DEFINE S == {v \in 0 .. begin - 1 : v \notin tree.inner}
  <2>1. SUFFICES ASSUME S # {} PROVE FALSE
    OBVIOUS
  <2>2. PICK v \in S : \A y \in S : v <= y
    <3>1. S \subseteq Nat
      OBVIOUS
    <3> QED
      BY <2>1, <3>1, LeastNatural
  <2>3. v \in Nat /\ v < begin /\ v \notin tree.inner
    BY <1>5
  <2>4. 0 .. v - 1 \subseteq tree.inner
    <3>1. \A u \in 0 .. v - 1 : u \in 0 .. begin - 1 /\ ~(v <= u)
      BY <1>5, <2>3
    <3> QED
      BY <2>2, <3>1
  <2>5. 0 .. 2 * v \subseteq tree.active
    BY <2>3, <2>4, ActiveWithoutGap
  <2>6. v \in leaves
    <3>1. v \in 0 .. 2 * v
      BY <2>3
    <3> QED
      BY <2>3, <2>5, <3>1 DEF leaves
  <2>7. ~(begin <= v)
    BY <1>5, <2>3
  <2> QED
    BY <1>4, <2>6, <2>7
<1>7. begin <= n - 1
  <2>1. CASE begin = 0
    BY <1>1, <2>1
  <2>2. CASE begin # 0
    <3>1. begin - 1 \in 0 .. begin - 1
      BY <1>5, <2>2
    <3>2. begin - 1 \in 0 .. n - 2
      BY <1>6, <3>1, ActiveNodes
    <3> QED
      BY <1>1, <1>5, <3>2
  <2> QED
    BY <2>1, <2>2
<1>8. begin \in 0 .. n - 1
  BY <1>1, <1>5, <1>7
<1> QED
  BY <1>4, <1>6, <1>8 DEF begin, leaves

\* As many levels are perfect as the nodes before the first leaf fill.
LEMMA PerfectLevels ==
  ASSUME NEW c \in 0 .. n - 1, NEW k, k = Log2(c + 1) + 1
  PROVE  /\ k \in 1 .. h + 1
         /\ first_node_idx_at_level(k - 1) \in Nat
         /\ first_node_idx_at_level(k - 1) <= c
<1>1. n \in Nat /\ c \in Nat /\ c + 1 \in Nat /\ c + 1 > 0 /\ c <= n - 1
  BY Height
<1>2. Log2(c + 1) \in Nat /\ 2^Log2(c + 1) <= c + 1
  BY <1>1, Log2Bounds
<1>3. 2^Log2(c + 1) \in Nat /\ 2^Log2(c + 1) > 0
  BY <1>2, PowerOfTwo
<1>4. Log2(c + 1) <= h
  <2>1. h \in Nat /\ n = 2^h
    BY Height DEF n
  <2>2. h < Log2(c + 1) => 2^(h + 1) <= 2^Log2(c + 1)
    BY <1>2, <2>1, PowerOrder
  <2>3. 2^(h + 1) = 2 * 2^h
    BY <2>1, PowerStep
  <2> QED
    BY <1>1, <1>2, <1>3, <2>1, <2>2, <2>3
<1>5. k - 1 = Log2(c + 1)
  BY <1>2
<1> QED
  BY <1>2, <1>3, <1>4, <1>5, Height DEF first_node_idx_at_level

\* What is left of the rank of a node once the inner nodes that lead, which are
\* only counted, are taken off is its rank among the stored nodes, or for a
\* leaf that trails no less than the number of them.
LEMMA StoredNodes ==
  ASSUME NEW tree, IsTree(tree), NEW begin \in Nat, 0 .. begin - 1 \subseteq tree.inner,
         NEW end \in Nat, \A v \in tree.inner : v < end,
         NEW E, E = {v \in tree.active : begin <= v /\ v < end},
         NEW v \in tree.active, begin <= v
  PROVE  /\ E \subseteq Nat /\ IsFiniteSet(E) /\ Cardinality(E) \in Nat
         /\ Rank(tree.active, v) - begin \in Nat
         /\ v \in E => Rank(tree.active, v) - begin = Rank(E, v)
         /\ v \notin E => Rank(tree.active, v) - begin >= Cardinality(E) /\ v \notin tree.inner
<1> DEFINE B == {u \in tree.active : begin <= u}
<1>1. /\ tree.active \subseteq Nat /\ IsFiniteSet(tree.active)
      /\ tree.inner \subseteq tree.active /\ v \in Nat
  BY ActiveNodes
<1>2. E \subseteq Nat /\ IsFiniteSet(E) /\ Cardinality(E) \in Nat
  <2>1. E \in SUBSET tree.active
    OBVIOUS
  <2> QED
    BY <1>1, <2>1, FS_Subset, FS_CardinalityType
<1>3. IsFiniteSet(B)
  <2>1. B \in SUBSET tree.active
    OBVIOUS
  <2> QED
    BY <1>1, <2>1, FS_Subset
<1>4. Rank(tree.active, v) = begin + Rank(B, v)
  <2>1. Rank(tree.active, begin) = begin
    <3>1. 0 .. begin - 1 \subseteq tree.active
      BY <1>1
    <3> QED
      BY <1>1, <3>1, RankOfFull
  <2>2. Rank(tree.active, v) = Rank(tree.active, begin) + Rank(B, v)
    BY <1>1, RankFrom
  <2> QED
    BY <2>1, <2>2
<1>5. Rank(B, v) \in Nat
  BY <1>3, RankType
<1>6. ASSUME v \in E
      PROVE  Rank(B, v) = Rank(E, v)
  <2>1. v < end
    BY <1>6
  <2>2. {u \in B : u < v} = {u \in E : u < v}
    BY <1>1, <2>1
  <2> QED
    BY <2>2 DEF Rank
<1>7. ASSUME v \notin E
      PROVE  Rank(B, v) >= Cardinality(E) /\ v \notin tree.inner
  <2>1. ~(v < end)
    BY <1>7
  <2>2. E \in SUBSET {u \in B : u < v}
    BY <1>1, <2>1
  <2>3. IsFiniteSet({u \in B : u < v})
    BY <1>3, RankType
  <2>4. Cardinality(E) <= Rank(B, v)
    BY <2>2, <2>3, FS_Subset DEF Rank
  <2> QED
    BY <1>2, <1>5, <2>1, <2>4
<1> HIDE DEF B
<1>8. Rank(tree.active, v) - begin = Rank(B, v)
  BY <1>4, <1>5
<1> QED
  BY <1>2, <1>5, <1>6, <1>7, <1>8

\* T and the inner nodes that lead, as the readers read them
LEMMA TreeBitsAnswer ==
  ASSUME NEW tree, IsTree(tree), NEW begin \in Nat, 0 .. begin - 1 \subseteq tree.inner,
         NEW end \in Nat, \A v \in tree.inner : v < end,
         NEW E, E = {v \in tree.active : begin <= v /\ v < end},
         NEW t, t.implicit_inner_node_cnt = begin,
         t.tree_bit_cnt = IF Cardinality(E) = 0 THEN 1 ELSE Cardinality(E),
         t.T = Stored(E, tree.inner),
         NEW v \in tree.active
  PROVE  /\ is_inner_node(t, Rank(tree.active, v)) <=> v \in tree.inner
         /\ rank_inclusive(t, Rank(tree.active, v)) = Rank(tree.inner, v + 1)
<1> DEFINE r == Rank(tree.active, v)
           j == r - begin
<1>1. /\ tree.active \subseteq Nat /\ IsFiniteSet(tree.active)
      /\ tree.inner \subseteq Nat /\ IsFiniteSet(tree.inner)
      /\ tree.inner \subseteq tree.active /\ v \in Nat
  BY ActiveNodes
<1>2. CASE v < begin
  <2>1. 0 .. v - 1 \subseteq tree.active /\ 0 .. (v + 1) - 1 \subseteq tree.inner /\ v \in tree.inner
    <3>1. \A u \in 0 .. v - 1 : u \in 0 .. begin - 1
      BY <1>1, <1>2
    <3>2. \A u \in 0 .. (v + 1) - 1 : u \in 0 .. begin - 1
      BY <1>1, <1>2
    <3>3. v \in 0 .. begin - 1
      BY <1>1, <1>2
    <3> QED
      BY <1>1, <3>1, <3>2, <3>3
  <2>2. r = v
    BY <1>1, <2>1, RankOfFull
  <2>3. Rank(tree.inner, v + 1) = v + 1
    <3>1. v + 1 \in Nat
      BY <1>1
    <3> QED
      BY <1>1, <2>1, <3>1, RankOfFull
  <2> HIDE DEF r
  <2>4. is_inner_node(t, r) /\ rank_inclusive(t, r) = v + 1
    BY <1>1, <1>2, <2>2 DEF is_inner_node, rank_inclusive
  <2> QED
    BY <2>1, <2>3, <2>4 DEF r
<1>3. CASE begin <= v
  <2>1. /\ E \subseteq Nat /\ IsFiniteSet(E) /\ Cardinality(E) \in Nat
        /\ j \in Nat
        /\ v \in E => j = Rank(E, v)
        /\ v \notin E => j >= Cardinality(E) /\ v \notin tree.inner
    BY <1>3, StoredNodes
  <2>2. r \in Nat /\ ~(r < begin)
    <3>1. r \in Nat
      BY <1>1, RankType
    <3> HIDE DEF r
    <3> QED
      BY <2>1, <3>1
  <2>3. \A k : Bit(t.T, k) <=> \E u \in E : u \in tree.inner /\ Rank(E, u) = k
    BY <2>1, StoredBit
  <2>4. \A u \in E : Rank(E, u) \in Nat /\ Rank(E, u) < Cardinality(E)
    BY <2>1, RankType, RankBelow
  <2>5. is_inner_node(t, r) <=> j < t.tree_bit_cnt /\ Bit(t.T, j)
    <3>0. t.tree_bit_cnt \in Nat
      BY <2>1
    <3>1. r < TrailingT(t) <=> j < t.tree_bit_cnt
      <4> HIDE DEF r
      <4> QED
        BY <2>2, <3>0 DEF TrailingT
    <3> HIDE DEF r
    <3> QED
      BY <2>2, <3>1 DEF is_inner_node
  <2>6. is_inner_node(t, r) <=> v \in tree.inner
    <3>1. CASE v \in E
      <4>1. j = Rank(E, v) /\ j < Cardinality(E) /\ j \in Nat
        BY <2>1, <2>4, <3>1
      <4>2. j < t.tree_bit_cnt
        BY <2>1, <4>1
      <4>3. \A u \in E : Rank(E, u) = Rank(E, v) => u = v
        BY <2>1, <3>1, RankInjective
      <4>4. Bit(t.T, j) <=> v \in tree.inner
        BY <2>3, <3>1, <4>1, <4>3
      <4> QED
        BY <2>5, <4>2, <4>4
    <3>2. CASE v \notin E
      <4>1. ~Bit(t.T, j)
        <5>1. SUFFICES ASSUME Bit(t.T, j) PROVE FALSE
          OBVIOUS
        <5>2. PICK u \in E : Rank(E, u) = j
          BY <2>3, <5>1
        <5>3. j < Cardinality(E)
          BY <2>4, <5>2
        <5>4. j >= Cardinality(E) /\ j \in Nat /\ Cardinality(E) \in Nat
          BY <2>1, <3>2
        <5> HIDE DEF j
        <5> QED
          BY <5>3, <5>4
      <4> QED
        BY <2>1, <2>5, <3>2, <4>1
    <3> QED
      BY <3>1, <3>2
  <2> DEFINE m == Lesser(j, t.tree_bit_cnt - 1)
             I == {u \in tree.inner : begin <= u}
  <2>7. m \in Nat /\ m <= j /\ (m = j \/ m >= Cardinality(E) - 1)
    <3> HIDE DEF j
    <3> QED
      BY <2>1 DEF Lesser
  <2>8. rank_inclusive(t, r) = begin + Cardinality({k \in 0 .. m : Bit(t.T, k)})
    <3> HIDE DEF r
    <3> QED
      BY <2>2 DEF rank_inclusive
  <2>9. Cardinality({k \in 0 .. m : Bit(t.T, k)})
          = Cardinality({u \in E \cap tree.inner : Rank(E, u) <= m})
    <3> HIDE DEF m, j
    <3>1. Cardinality(OnesUpTo(Stored(E, tree.inner), m))
            = Cardinality(RankedUpTo(E, tree.inner, m))
      BY <2>1, <2>7, StoredCount
    <3> QED
      BY <3>1 DEF OnesUpTo, RankedUpTo
  <2>10. {u \in E \cap tree.inner : Rank(E, u) <= m} = {u \in I : u < v + 1}
    <3> HIDE DEF m, j
    <3>1. \A u : u \in E \cap tree.inner <=> u \in I
      BY <1>1
    <3>2. ASSUME NEW u \in I
          PROVE  Rank(E, u) <= m <=> u < v + 1
      <4>1. u \in E /\ u \in Nat
        BY <1>1, <3>1
      <4>2. Rank(E, u) \in Nat /\ Rank(E, u) < Cardinality(E)
        BY <2>4, <4>1
      <4>3. CASE v \in E
        <5>1. j = Rank(E, v) /\ j < Cardinality(E)
          BY <2>1, <2>4, <4>3
        <5>2. m = j
          BY <2>1, <2>7, <5>1
        <5>3. u < v => Rank(E, u) < Rank(E, v)
          BY <1>1, <2>1, <4>1, RankOrder
        <5>4. v < u => Rank(E, v) < Rank(E, u)
          BY <2>1, <4>1, <4>3, RankOrder
        <5>5. u < v \/ u = v \/ v < u
          BY <1>1, <4>1
        <5>6. Rank(E, v) \in Nat
          BY <2>4, <4>3
        <5> QED
          BY <1>1, <4>1, <4>2, <5>1, <5>2, <5>3, <5>4, <5>5, <5>6
      <4>4. CASE v \notin E
        <5>1. Rank(E, u) <= m
          BY <2>1, <2>7, <4>2, <4>4
        <5>2. u < end /\ ~(v < end)
          BY <4>1, <1>3, <4>4
        <5>3. u < v + 1
          BY <1>1, <4>1, <5>2
        <5> QED
          BY <5>1, <5>3
      <4> QED
        BY <4>3, <4>4
    <3> QED
      BY <3>1, <3>2
  <2>11. Rank(tree.inner, v + 1) = begin + Rank(I, v + 1)
    <3>1. Rank(tree.inner, begin) = begin
      BY <1>1, RankOfFull
    <3>2. v + 1 \in Nat /\ begin <= v + 1
      BY <1>1, <1>3
    <3>3. Rank(tree.inner, v + 1) = Rank(tree.inner, begin) + Rank(I, v + 1)
      BY <1>1, <3>2, RankFrom
    <3> QED
      BY <3>1, <3>3
  <2>12. rank_inclusive(t, r) = begin + Rank(I, v + 1)
    <3>1. Cardinality({u \in I : u < v + 1}) = Rank(I, v + 1)
      BY DEF Rank
    <3> HIDE DEF r, m, I
    <3> QED
      BY <2>8, <2>9, <2>10, <3>1
  <2> QED
    BY <2>6, <2>11, <2>12
<1> QED
  BY <1>1, <1>2, <1>3

\* L and the 0-labels around it, as the readers read them
LEMMA LabelBitsAnswer ==
  ASSUME NEW m \in Nat, NEW leaves, leaves \subseteq 0 .. m, IsFiniteSet(leaves),
         NEW ones, ones \subseteq leaves,
         NEW X, X = IF ones = {} THEN {}
                    ELSE {u \in leaves : Min(ones) <= u /\ u <= Max(ones)},
         NEW t,
         t.implicit_leading_label_cnt
           = Cardinality({u \in leaves : ones = {} \/ u < Min(ones)}),
         t.label_bit_cnt = Cardinality(X),
         t.L = Stored(X, ones),
         NEW v \in leaves
  PROVE  get_label_by_idx(t, Rank(leaves, v)) <=> v \in ones
<1> DEFINE r == Rank(leaves, v)
<1> SUFFICES get_label_by_idx(t, r) <=> v \in ones
  OBVIOUS
<1>1. leaves \subseteq Nat /\ v \in Nat /\ X \subseteq leaves /\ ones \subseteq Nat
  <2>1. \A u \in leaves : u \in Nat
    OBVIOUS
  <2>2. \A u \in X : u \in leaves
    OBVIOUS
  <2> QED
    BY <2>1, <2>2
<1>2. X \subseteq Nat /\ IsFiniteSet(X) /\ Cardinality(X) \in Nat
  <2>1. X \in SUBSET leaves
    BY <1>1
  <2> QED
    BY <1>1, <2>1, FS_Subset, FS_CardinalityType
<1>3. \A k : Bit(t.L, k) <=> \E u \in X : u \in ones /\ Rank(X, u) = k
  BY <1>2, StoredBit
<1>4. r \in Nat
  BY RankType
<1>5. CASE ones = {}
  <2>1. \A k : ~Bit(t.L, k)
    BY <1>3, <1>5
  <2> QED
    BY <1>5, <2>1 DEF get_label_by_idx
<1>6. CASE ones # {}
  <2> DEFINE a == Min(ones)
             b == Max(ones)
             B == {u \in leaves : a <= u}
  <2>1. a \in ones /\ (\A y \in ones : a <= y) /\ b \in ones /\ \A y \in ones : y <= b
    <3>1. ones \subseteq 0 .. m
      OBVIOUS
    <3> QED
      BY <1>1, <1>6, <3>1, MinOf, MaxOf
  <2>2. X = {u \in leaves : a <= u /\ u <= b}
    BY <1>6
  <2>3. t.implicit_leading_label_cnt = Rank(leaves, a)
    <3>1. {u \in leaves : ones = {} \/ u < Min(ones)} = {u \in leaves : u < a}
      BY <1>6
    <3> HIDE DEF a
    <3> QED
      BY <3>1 DEF Rank
  <2> HIDE DEF a, b
  <2>4. a \in Nat /\ b \in Nat /\ a \in leaves
    BY <1>1, <2>1
  <2>5. Rank(leaves, a) \in Nat
    BY RankType
  <2>6. get_label_by_idx(t, r) <=> /\ Rank(leaves, a) <= r
                                   /\ r < Rank(leaves, a) + Cardinality(X)
                                   /\ Bit(t.L, r - Rank(leaves, a))
    BY <2>3 DEF get_label_by_idx, TrailingL
  <2>7. CASE v < a
    <3>1. r < Rank(leaves, a)
      BY <1>1, <2>4, <2>7, RankOrder
    <3>2. v \notin ones
      BY <1>1, <2>1, <2>4, <2>7
    <3>3. ~(Rank(leaves, a) <= r)
      <4> HIDE DEF r
      <4> QED
        BY <1>4, <2>5, <3>1
    <3> HIDE DEF r
    <3> QED
      BY <2>6, <3>2, <3>3
  <2>8. CASE a <= v
    <3>1. r = Rank(leaves, a) + Rank(B, v)
      <4>1. leaves \subseteq Nat /\ IsFiniteSet(leaves) /\ v \in Nat
        BY <1>1
      <4>2. \A w \in Nat : w <= v =>
              Rank(leaves, v) = Rank(leaves, w) + Rank({u \in leaves : w <= u}, v)
        BY <4>1, RankFrom
      <4> QED
        BY <2>4, <2>8, <4>2
    <3>2. IsFiniteSet(B) /\ IsFiniteSet({u \in B : u < v}) /\ Rank(B, v) \in Nat
      <4>1. B \in SUBSET leaves
        OBVIOUS
      <4>2. IsFiniteSet(B)
        BY <4>1, FS_Subset
      <4> HIDE DEF B
      <4> QED
        BY <4>2, RankType
    <3>3. get_label_by_idx(t, r) <=> Rank(B, v) < Cardinality(X) /\ Bit(t.L, Rank(B, v))
      <4>1. r - Rank(leaves, a) = Rank(B, v)
        <5> HIDE DEF r, B
        <5> QED
          BY <2>5, <3>1, <3>2
      <4>2. Rank(leaves, a) <= r /\ (r < Rank(leaves, a) + Cardinality(X) <=> Rank(B, v) < Cardinality(X))
        <5> HIDE DEF r, B
        <5> QED
          BY <1>2, <2>5, <3>1, <3>2
      <4> HIDE DEF r, B
      <4> QED
        BY <2>6, <4>1, <4>2
    <3>4. CASE v <= b
      <4>1. v \in X
        BY <2>2, <2>8, <3>4
      <4>2. {u \in B : u < v} = {u \in X : u < v}
        <5>1. \A u \in leaves : u < v => u <= b
          BY <1>1, <2>4, <3>4
        <5>2. \A u : u \in B /\ u < v <=> u \in X /\ u < v
          BY <2>2, <5>1
        <5> HIDE DEF B
        <5> QED
          BY <5>2
      <4>3. Rank(B, v) = Rank(X, v)
        BY <4>2 DEF Rank
      <4>4. Rank(X, v) < Cardinality(X)
        BY <1>2, <4>1, RankBelow
      <4>5. \A u \in X : Rank(X, u) = Rank(X, v) => u = v
        BY <1>2, <4>1, RankInjective
      <4>6. Bit(t.L, Rank(X, v)) <=> v \in ones
        BY <1>3, <4>1, <4>5
      <4> HIDE DEF r, B
      <4> QED
        BY <3>3, <4>3, <4>4, <4>6
    <3>5. CASE b < v
      <4>1. v \notin ones
        BY <1>1, <2>1, <2>4, <3>5
      <4>2. X \in SUBSET {u \in B : u < v}
        <5>1. \A u \in leaves : u <= b => u < v
          BY <1>1, <2>4, <3>5
        <5>2. \A u \in X : u \in B /\ u < v
          BY <2>2, <5>1
        <5> HIDE DEF B
        <5> QED
          BY <5>2
      <4>3. Cardinality(X) <= Rank(B, v)
        BY <3>2, <4>2, FS_Subset DEF Rank
      <4>4. ~(Rank(B, v) < Cardinality(X))
        <5> HIDE DEF B
        <5> QED
          BY <1>2, <3>2, <4>3
      <4> HIDE DEF r, B
      <4> QED
        BY <3>3, <4>1, <4>4
    <3> QED
      BY <1>1, <2>4, <3>4, <3>5
  <2> QED
    BY <1>1, <2>4, <2>7, <2>8
<1> QED
  BY <1>5, <1>6

\* The fields of the TEB made from a tree: what is stored in T are the nodes E,
\* in L the labels of the leaves X.
StoredAs(t, tree, end, E, X) ==
  LET leaves == tree.active \ tree.inner
      ones   == leaves \cap tree.labels
  IN  /\ end \in Nat /\ \A v \in tree.inner : v < end
      /\ E = {v \in tree.active : Min(leaves) <= v /\ v < end}
      /\ X = IF ones = {} THEN {}
             ELSE {u \in leaves : Min(ones) <= u /\ u <= Max(ones)}
      /\ t.implicit_inner_node_cnt = Min(leaves)
      /\ t.perfect_level_cnt = Log2(Min(leaves) + 1) + 1
      /\ t.tree_bit_cnt = IF Cardinality(E) = 0 THEN 1 ELSE Cardinality(E)
      /\ t.T = Stored(E, tree.inner)
      /\ t.free_bits_T = U(W * Words(Cardinality(E)) - t.tree_bit_cnt)
      /\ t.implicit_trailing_leaf_cnt = Cardinality({v \in leaves : v >= end})
      /\ t.implicit_leading_label_cnt
           = Cardinality({u \in leaves : ones = {} \/ u < Min(ones)})
      /\ t.label_bit_cnt = Cardinality(X)
      /\ t.L = Stored(X, ones)
      /\ t.implicit_trailing_label_cnt
           = IF ones = {} THEN 0 ELSE Cardinality({u \in leaves : u > Max(ones)})

\* The TEB made of a tree is stored so.
LEMMA ToTebFields ==
  ASSUME NEW tree, IsTree(tree)
  PROVE  \E end, E, X : StoredAs(ToTeb(tree), tree, end, E, X)
<1> DEFINE leaves == tree.active \ tree.inner
           ones   == leaves \cap tree.labels
<1>1. tree.inner \subseteq tree.active /\ tree.inner \subseteq Nat
  BY ActiveNodes
<1>2. tree.active \ leaves = tree.inner
  BY <1>1
<1> DEFINE end == IF tree.inner = {} THEN 0 ELSE Max(tree.inner) + 1
           E == {v \in tree.active : Min(leaves) <= v /\ v < end}
           X == IF ones = {} THEN {}
                ELSE {u \in leaves : Min(ones) <= u /\ u <= Max(ones)}
           c == CountersOf(tree.active, leaves, ones)
<1>3. end \in Nat /\ \A v \in tree.inner : v < end
  <2>1. n \in Nat /\ n > 0
    BY Height
  <2>2. CASE tree.inner = {}
    BY <2>2
  <2>3. CASE tree.inner # {}
    <3>1. PICK m \in Nat : tree.inner \subseteq 0 .. m
      <4>1. n - 1 \in Nat /\ \A v \in 0 .. n - 2 : v \in 0 .. n - 1
        BY <2>1
      <4>2. tree.inner \subseteq 0 .. n - 2
        BY ActiveNodes
      <4>3. tree.inner \subseteq 0 .. n - 1
        BY <4>1, <4>2
      <4> QED
        BY <4>1, <4>3
    <3>2. Max(tree.inner) \in tree.inner /\ \A y \in tree.inner : y <= Max(tree.inner)
      BY <2>3, <3>1, MaxOf
    <3>3. Max(tree.inner) \in Nat
      BY <1>1, <3>2
    <3>4. end = Max(tree.inner) + 1
      BY <2>3
    <3> HIDE DEF end
    <3> QED
      BY <1>1, <3>2, <3>3, <3>4
  <2> QED
    BY <2>2, <2>3
<1>4. /\ c.inner = tree.inner
      /\ c.ones = ones
      /\ c.explicit_nodes = E
      /\ c.explicit_labels = X
      /\ c.leading_inner_node_cnt = Min(leaves)
      /\ c.trailing_leaf_node_cnt = Cardinality({v \in leaves : v >= end})
      /\ c.leading_0label_cnt = Cardinality({u \in leaves : ones = {} \/ u < Min(ones)})
      /\ c.trailing_0label_cnt
           = IF ones = {} THEN 0 ELSE Cardinality({u \in leaves : u > Max(ones)})
  BY <1>2, Zenon DEF CountersOf, FirstExplicit
<1>5. ToTeb(tree) = SerializeTree(c)
  BY Zenon DEF ToTeb
<1> HIDE DEF c, E, X, end, leaves, ones
<1>6. /\ ToTeb(tree).implicit_inner_node_cnt = Min(leaves)
      /\ ToTeb(tree).perfect_level_cnt = Log2(Min(leaves) + 1) + 1
      /\ ToTeb(tree).tree_bit_cnt = IF Cardinality(E) = 0 THEN 1 ELSE Cardinality(E)
      /\ ToTeb(tree).T = Stored(E, tree.inner)
      /\ ToTeb(tree).free_bits_T
           = U(W * Words(Cardinality(E)) - ToTeb(tree).tree_bit_cnt)
      /\ ToTeb(tree).implicit_trailing_leaf_cnt = Cardinality({v \in leaves : v >= end})
      /\ ToTeb(tree).implicit_leading_label_cnt
           = Cardinality({u \in leaves : ones = {} \/ u < Min(ones)})
      /\ ToTeb(tree).label_bit_cnt = Cardinality(X)
      /\ ToTeb(tree).L = Stored(X, ones)
      /\ ToTeb(tree).implicit_trailing_label_cnt
           = IF ones = {} THEN 0 ELSE Cardinality({u \in leaves : u > Max(ones)})
  BY <1>4, <1>5 DEF SerializeTree, perfect_level_cnt
<1>7. /\ E = {v \in tree.active : Min(leaves) <= v /\ v < end}
      /\ X = IF ones = {} THEN {}
             ELSE {u \in leaves : Min(ones) <= u /\ u <= Max(ones)}
  BY DEF E, X
<1>8. StoredAs(ToTeb(tree), tree, end, E, X)
  BY <1>3, <1>6, <1>7, Zenon DEF StoredAs, leaves, ones
<1> QED
  BY <1>8

\* The TEB made from a tree encodes it.
LEMMA ToTebEncodes ==
  ASSUME NEW tree, IsTree(tree)
  PROVE  Encodes(ToTeb(tree), tree)
<1> DEFINE leaves == tree.active \ tree.inner
           ones   == leaves \cap tree.labels
           t      == ToTeb(tree)
           begin  == Min(leaves)
<1>1. /\ begin \in leaves /\ begin \in 0 .. n - 1
      /\ 0 .. begin - 1 \subseteq tree.inner
  BY FirstLeaf
<1>2. begin \in Nat
  BY <1>1, Height
<1>3. PICK end, E, X : StoredAs(t, tree, end, E, X)
  BY ToTebFields
<1> HIDE DEF t, begin
<1>4. ASSUME NEW v \in tree.active
      PROVE  /\ is_inner_node(t, Rank(tree.active, v)) <=> v \in tree.inner
             /\ rank_inclusive(t, Rank(tree.active, v)) = Rank(tree.inner, v + 1)
  <2>1. /\ end \in Nat /\ \A u \in tree.inner : u < end
        /\ E = {u \in tree.active : begin <= u /\ u < end}
        /\ t.implicit_inner_node_cnt = begin
        /\ t.tree_bit_cnt = IF Cardinality(E) = 0 THEN 1 ELSE Cardinality(E)
        /\ t.T = Stored(E, tree.inner)
    BY <1>3, Zenon DEF StoredAs, begin
  <2> QED
    BY <1>1, <1>2, <2>1, TreeBitsAnswer
<1>5. leaves \subseteq 0 .. 2 * n - 2 /\ IsFiniteSet(leaves) /\ 2 * n - 2 \in Nat
  <2>1. n \in Nat /\ n > 0
    BY Height
  <2>2. 2 * n - 2 \in Nat
    BY <2>1
  <2>3. tree.active \subseteq 0 .. 2 * n - 2 /\ IsFiniteSet(leaves)
    BY ActiveNodes DEF Nodes
  <2> QED
    BY <2>2, <2>3
<1>6. ASSUME NEW v \in leaves
      PROVE  get_label_by_idx(t, Rank(leaves, v)) <=> v \in tree.labels
  <2>1. ones \subseteq leaves /\ (v \in ones <=> v \in tree.labels)
    OBVIOUS
  <2>3. /\ X = IF ones = {} THEN {}
               ELSE {u \in leaves : Min(ones) <= u /\ u <= Max(ones)}
        /\ t.implicit_leading_label_cnt
             = Cardinality({u \in leaves : ones = {} \/ u < Min(ones)})
        /\ t.label_bit_cnt = Cardinality(X)
        /\ t.L = Stored(X, ones)
    BY <1>3, Zenon DEF StoredAs
  <2> HIDE DEF leaves, ones
  <2>2. get_label_by_idx(t, Rank(leaves, v)) <=> v \in ones
    BY <1>5, <2>1, <2>3, LabelBitsAnswer
  <2> QED
    BY <2>1, <2>2
<1>7. /\ t.perfect_level_cnt \in 1 .. h + 1
      /\ 0 .. first_node_idx_at_level(t.perfect_level_cnt - 1) - 1 \subseteq tree.inner
  <2>1. t.perfect_level_cnt = Log2(begin + 1) + 1
    BY <1>3, Zenon DEF StoredAs, begin
  <2>2. /\ t.perfect_level_cnt \in 1 .. h + 1
        /\ first_node_idx_at_level(t.perfect_level_cnt - 1) \in Nat
        /\ first_node_idx_at_level(t.perfect_level_cnt - 1) <= begin
    BY <1>1, <2>1, PerfectLevels
  <2>3. 0 .. first_node_idx_at_level(t.perfect_level_cnt - 1) - 1 \subseteq 0 .. begin - 1
    BY <1>2, <2>2
  <2> QED
    BY <1>1, <2>2, <2>3
<1>8. Encodes(t, tree)
  BY <1>4, <1>6, <1>7 DEF Encodes
<1> QED
  BY <1>8 DEF t

\* Encoding a tree changes no bit: whatever the shape of the tree, the TEB that
\* teb_builder makes of it answers test() as the tree does.
THEOREM EncodingKeepsBits ==
  ASSUME NEW tree, IsTree(tree), SkippedArePerfect(tree), NEW p \in Pos
  PROVE  test(ToTeb(tree), p) = tree_test(tree, p)
<1>1. p \in Slots /\ GoodTree(tree)
  BY PosAreSlots DEF GoodTree
<1>2. PICK e : Ends(tree, p, e)
  BY <1>1, PathHasLeaf
<1>3. tree_test(tree, p) = (NodeAbove(p, e) \in tree.labels)
  BY <1>1, <1>2, WalkFindsLeaf
<1>4. test(ToTeb(tree), p) <=> NodeAbove(p, e) \in tree.labels
  BY <1>1, <1>2, ToTebEncodes, EncodedTest
<1>5. test(ToTeb(tree), p) \in BOOLEAN
  BY DEF test, get_label, get_label_by_idx
<1> QED
  BY <1>3, <1>4, <1>5

\* A slot lies below a node if the path to it leads through the node.
LEMMA BelowIsOnPath ==
  ASSUME NEW p \in Slots, NEW l \in 0 .. h, NEW q
  PROVE  q \in Below(NodeAbove(p, l)) <=> q \in Slots /\ NodeAbove(q, l) = NodeAbove(p, l)
<1> DEFINE w == 2^(h - l)
           a == p \div w
<1>1. /\ l \in Nat /\ w \in Nat /\ w > 0 /\ 2^l \in Nat /\ 2^l > 0 /\ n = w * 2^l
  BY SlotsPerNode
<1>2. n \in Nat /\ p \in Nat /\ p < n
  BY Height DEF Slots
<1> HIDE DEF w
<1>3. a \in Nat /\ w * a \in Nat /\ w * a <= p /\ p < w * a + w
  <2>1. p \div w \in Nat /\ p % w \in 0 .. w - 1 /\ w * (p \div w) \in Nat
        /\ p = w * (p \div w) + (p % w)
    BY <1>1, <1>2, BlockOf
  <2> QED
    BY <1>1, <1>2, <2>1
<1> HIDE DEF a
<1>4. Below(NodeAbove(p, l)) = w * a .. w * a + w - 1
  <2>1. level_of(NodeAbove(p, l)) = l
    BY PathLevel
  <2>2. NodeAbove(p, l) - first_node_idx_at_level(l) = a
    BY <1>1, <1>3 DEF NodeAbove, first_node_idx_at_level, a, w
  <2>3. a * w = w * a
    BY <1>1, <1>3
  <2> QED
    BY <2>1, <2>2, <2>3 DEF Below, w
<1>5. ASSUME NEW u \in Nat
      PROVE  u \in Below(NodeAbove(p, l)) <=> u \div w = a
  <2>1. u \div w \in Nat /\ u % w \in 0 .. w - 1 /\ w * (u \div w) \in Nat
        /\ u = w * (u \div w) + (u % w)
    BY <1>1, BlockOf
  <2>2. PICK b \in Nat : b = u \div w /\ w * b \in Nat /\ w * b <= u /\ u < w * b + w
    BY <1>1, <2>1
  <2>3. b < a => w * b + w <= w * a
    BY <1>1, <1>3, BlockOrder
  <2>4. a < b => w * a + w <= w * b
    BY <1>1, <1>3, BlockOrder
  <2>5. w * a <= u /\ u < w * a + w <=> b = a
    BY <1>1, <1>3, <2>2, <2>3, <2>4
  <2> QED
    BY <1>1, <1>3, <1>4, <2>2, <2>5
<1>6. ASSUME q \in Below(NodeAbove(p, l))
      PROVE  q \in Slots /\ NodeAbove(q, l) = NodeAbove(p, l)
  <2>1. q \in Nat /\ q < w * a + w
    BY <1>1, <1>3, <1>4, <1>6
  <2>2. q < n
    <3>1. a < 2^l
      <4>1. 2^l <= a => w * 2^l <= w * a
        <5>1. 2^l < a => w * 2^l + w <= w * a
          BY <1>1, <1>3, BlockOrder
        <5>2. w * 2^l \in Nat
          BY <1>1
        <5> QED
          BY <1>1, <1>3, <5>1, <5>2
      <4> QED
        BY <1>1, <1>2, <1>3, <4>1
    <3>2. w * a + w <= w * 2^l
      BY <1>1, <1>3, <3>1, BlockOrder
    <3> QED
      BY <1>1, <1>2, <1>3, <2>1, <3>2
  <2>3. q \div w = a
    BY <1>5, <1>6, <2>1
  <2> QED
    BY <1>2, <2>1, <2>2, <2>3 DEF NodeAbove, Slots, a, w
<1>7. ASSUME q \in Slots, NodeAbove(q, l) = NodeAbove(p, l)
      PROVE  q \in Below(NodeAbove(p, l))
  <2>1. q \in Nat
    BY <1>7 DEF Slots
  <2>2. q \div w \in Nat
    BY <1>1, <2>1, BlockOf
  <2>3. (2^l - 1) + (q \div w) = (2^l - 1) + a
    BY <1>7 DEF NodeAbove, first_node_idx_at_level, a, w
  <2>4. q \div w = a
    BY <1>1, <1>3, <2>2, <2>3
  <2> QED
    BY <1>5, <2>1, <2>4
<1> QED
  BY <1>6, <1>7

\* Every node is on the path to some slot.
LEMMA NodeIsOnPath ==
  ASSUME NEW v \in Nodes
  PROVE  \E p \in Slots, l \in 0 .. h : v = NodeAbove(p, l)
<1>1. h \in Nat /\ n \in Nat /\ n > 0 /\ n = 2^h /\ v \in Nat /\ v <= 2 * n - 2
  BY Height DEF Nodes, n
<1>2. PICK l \in Nat : 2^l <= v + 1 /\ v + 1 < 2^(l + 1)
  <2>1. v + 1 \in Nat /\ v + 1 > 0
    BY <1>1
  <2> QED
    BY <2>1, Log2Bounds
<1>3. 2^l \in Nat /\ 2^l > 0 /\ 2^(l + 1) = 2 * 2^l
  BY PowerOfTwo, PowerStep
<1>4. l \in 0 .. h
  <2>1. h < l => 2^(h + 1) <= 2^l
    BY <1>1, PowerOrder
  <2>2. 2^(h + 1) = 2 * n
    BY <1>1, PowerStep
  <2> QED
    BY <1>1, <1>2, <1>3, <2>1, <2>2
<1> DEFINE w == 2^(h - l)
<1>5. w \in Nat /\ w > 0 /\ n = w * 2^l
  BY <1>4, SlotsPerNode
<1> HIDE DEF w
<1>6. PICK a \in Nat : v = 2^l - 1 + a /\ a < 2^l
  <2>1. v - (2^l - 1) \in Nat
    BY <1>1, <1>2, <1>3
  <2> QED
    BY <1>1, <1>2, <1>3, <2>1
<1>7. w * a + 0 \in Nat /\ (w * a + 0) \div w = a
  <2>1. 0 \in 0 .. w - 1
    BY <1>5
  <2> QED
    BY <1>5, <2>1, PlaceInBlock
<1>8. PICK p \in Nat : p = w * a + 0 /\ p \div w = a
  BY <1>7
<1>9. p \in Slots
  <2>1. w * a \in Nat /\ w * a + w <= w * 2^l
    BY <1>3, <1>5, <1>6, BlockOrder
  <2> QED
    BY <1>1, <1>5, <1>8, <2>1 DEF Slots
<1>10. NodeAbove(p, l) = v
  BY <1>6, <1>8 DEF NodeAbove, first_node_idx_at_level, w
<1> QED
  BY <1>4, <1>9, <1>10

\* Of a node below the root, the node one level up on a path is the parent.
LEMMA PathParent ==
  ASSUME NEW p \in Slots, NEW l \in 0 .. h - 1
  PROVE  parent_of(NodeAbove(p, l + 1)) = NodeAbove(p, l)
<1>1. /\ DirectionBit(p, h - (l + 1)) \in 0 .. 1
      /\ NodeAbove(p, l + 1) = 2 * NodeAbove(p, l) + 1 + DirectionBit(p, h - (l + 1))
  BY PathBit
<1>2. NodeAbove(p, l) \in Nat
  <2>1. l \in 0 .. h
    BY Height
  <2> QED
    BY <2>1, PathNode
<1>3. PICK u \in Nat, s \in 0 .. 1 : u = NodeAbove(p, l) /\ NodeAbove(p, l + 1) - 1 = 2 * u + s
  <2>1. NodeAbove(p, l + 1) - 1 = 2 * NodeAbove(p, l) + DirectionBit(p, h - (l + 1))
    BY <1>1, <1>2
  <2> QED
    BY <1>1, <1>2, <2>1
<1>4. (2 * u + s) \div 2 = u
  <2>1. 2 \in Nat /\ 2 > 0 /\ s \in 0 .. 2 - 1
    OBVIOUS
  <2> QED
    BY <2>1, PlaceInBlock
<1> QED
  BY <1>3, <1>4 DEF parent_of

\* Two paths that meet on a level have met on the level above.
LEMMA PathsMeet ==
  ASSUME NEW p \in Slots, NEW q \in Slots, NEW l \in 0 .. h - 1,
         NodeAbove(p, l + 1) = NodeAbove(q, l + 1)
  PROVE  NodeAbove(p, l) = NodeAbove(q, l)
BY PathParent

\* Below a leaf that bottom-up pruning leaves there are leaves only.
LEMMA LeavesBelowLeaves ==
  ASSUME NEW bits \in [Slots -> BOOLEAN], NEW p \in Slots, NEW l \in 0 .. h - 1,
         is_leaf_node(bits, NodeAbove(p, l))
  PROVE  is_leaf_node(bits, NodeAbove(p, l + 1))
<1> DEFINE v == NodeAbove(p, l)
           w == NodeAbove(p, l + 1)
<1>1. h \in Nat /\ l \in 0 .. h /\ l + 1 \in 0 .. h /\ l # h
  BY Height
<1>2. level_of(v) = l /\ level_of(w) = l + 1
  BY <1>1, PathLevel
<1>3. Uniform(bits, v) /\ RoundRuns(bits, l)
  BY <1>1, <1>2 DEF is_leaf_node
<1>4. \A i : i \in Below(w) => i \in Below(v)
  <2>1. \A i : i \in Below(w) => i \in Slots /\ NodeAbove(i, l + 1) = NodeAbove(p, l + 1)
    BY <1>1, BelowIsOnPath
  <2>2. \A i \in Slots : NodeAbove(i, l + 1) = NodeAbove(p, l + 1) => NodeAbove(i, l) = NodeAbove(p, l)
    BY PathsMeet
  <2>3. \A i \in Slots : NodeAbove(i, l) = NodeAbove(p, l) => i \in Below(v)
    BY <1>1, BelowIsOnPath
  <2> QED
    BY <2>1, <2>2, <2>3
<1>5. Below(w) \subseteq Slots
  BY <1>1, BelowIsOnPath
<1>6. Uniform(bits, w)
  <2>1. \A i \in Below(w), j \in Below(w) : bits[i] = bits[j]
    BY <1>3, <1>4 DEF Uniform
  <2>2. \A i \in Below(w) : bits[i] \in BOOLEAN
    BY <1>5
  <2> HIDE DEF w, v
  <2>3. ASSUME NEW i \in Below(w)
        PROVE  bits[i] = label(bits, w)
    <3>1. label(bits, w) <=> bits[i]
      BY <2>1, <2>2 DEF label
    <3> QED
      BY <2>2, <3>1 DEF label
  <2> QED
    BY <2>3 DEF Uniform
<1>7. RoundRuns(bits, l + 1)
  <2>1. \A k \in (l + 1) + 1 .. h - 1 : k \in l + 1 .. h - 1
    BY <1>1
  <2> QED
    BY <1>3, <2>1 DEF RoundRuns
<1> QED
  BY <1>2, <1>6, <1>7 DEF is_leaf_node

\* The tree that a bitmap is pruned to before it is encoded
PrunedTree(bits) ==
  LET active == Active(Leaves(bits))
      leaves == active \cap Leaves(bits)
  IN  [inner |-> active \ leaves, active |-> active,
       labels |-> {v \in leaves : label(bits, v)}, perfect |-> 1]

\* The flags of a pruned tree are those of a tree.
LEMMA PrunedIsTree ==
  ASSUME NEW bits \in [Slots -> BOOLEAN]
  PROVE  /\ IsTree(PrunedTree(bits))
         /\ PrunedTree(bits).active \ PrunedTree(bits).inner
              = Active(Leaves(bits)) \cap Leaves(bits)
<1> DEFINE active == Active(Leaves(bits))
           leaves == active \cap Leaves(bits)
           inner  == active \ leaves
           labels == {v \in leaves : label(bits, v)}
<1>1. h \in Nat /\ n \in Nat /\ n > 0 /\ n = 2^h
  BY Height DEF n
<1>2. \A v : v \in active <=> v \in Nodes /\ (v = 0 \/ parent_of(v) \notin Leaves(bits))
  BY DEF Active
<1>3. \A v : v \in inner <=> v \in active /\ ~is_leaf_node(bits, v)
  BY <1>2 DEF Leaves
<1>4. ASSUME NEW v \in inner
      PROVE  v \in 0 .. n - 2
  <2>1. PICK p \in Slots, l \in 0 .. h : v = NodeAbove(p, l)
    BY <1>2, <1>3, NodeIsOnPath
  <2>2. l # h
    <3>1. level_of(v) = l
      BY <2>1, PathLevel
    <3> QED
      BY <1>3, <3>1 DEF is_leaf_node
  <2>3. l < h
    BY <1>1, <2>2
  <2> QED
    BY <2>1, <2>3, PathInTree
<1>5. ASSUME NEW v \in active, v # 0
      PROVE  \E u \in inner : v \in Children(u)
  <2>1. PICK p \in Slots, l \in 0 .. h : v = NodeAbove(p, l)
    BY <1>2, NodeIsOnPath
  <2>2. l # 0
    BY <1>5, <2>1, PathStart
  <2>3. l - 1 \in 0 .. h - 1 /\ (l - 1) + 1 = l /\ l - 1 \in 0 .. h
    BY <1>1, <2>2
  <2>4. PICK k \in 0 .. h - 1 : k + 1 = l /\ k \in 0 .. h
    BY <2>3
  <2> DEFINE u == NodeAbove(p, k)
  <2>5. parent_of(v) = u /\ v \in Children(u)
    BY <2>1, <2>4, PathParent, PathChild
  <2>6. u \in Nodes
    BY <2>4, PathInTree
  <2>7. ~is_leaf_node(bits, u)
    BY <1>2, <1>5, <2>5, <2>6 DEF Leaves
  <2>8. u \in active
    <3>1. CASE k = 0
      BY <1>2, <2>6, <3>1, PathStart
    <3>2. CASE k # 0
      <4>1. PICK j \in 0 .. h - 1 : j + 1 = k
        <5>1. k - 1 \in 0 .. h - 1 /\ (k - 1) + 1 = k
          BY <1>1, <3>2
        <5> QED
          BY <5>1
      <4>2. parent_of(u) = NodeAbove(p, j)
        BY <4>1, PathParent
      <4>3. ~is_leaf_node(bits, NodeAbove(p, j))
        BY <2>7, <4>1, LeavesBelowLeaves
      <4>4. parent_of(u) \notin Leaves(bits)
        BY <4>2, <4>3 DEF Leaves
      <4> QED
        BY <1>2, <2>6, <4>4
    <3> QED
      BY <3>1, <3>2
  <2>9. u \in inner
    BY <1>3, <2>7, <2>8
  <2> QED
    BY <2>5, <2>9
<1>6. ASSUME NEW u \in inner, NEW v \in Children(u)
      PROVE  v \in active
  <2>1. u \in 0 .. n - 2 /\ ~is_leaf_node(bits, u) /\ u \in Nodes
    BY <1>2, <1>3, <1>4
  <2>2. v \in Nodes /\ v \in Nat /\ (v = 2 * u + 1 \/ v = 2 * u + 2)
    BY <1>1, <2>1 DEF Children, Nodes
  <2>3. parent_of(v) = u
    <3>1. PICK s \in 0 .. 1 : v - 1 = 2 * u + s
      BY <2>1, <2>2
    <3>2. (2 * u + s) \div 2 = u
      <4>1. 2 \in Nat /\ 2 > 0 /\ s \in 0 .. 2 - 1 /\ u \in Nat
        BY <2>1
      <4> QED
        BY <4>1, PlaceInBlock
    <3> QED
      BY <3>1, <3>2 DEF parent_of
  <2> QED
    BY <1>2, <2>1, <2>2, <2>3 DEF Leaves
<1>7. 0 \in active
  BY <1>1, <1>2 DEF Nodes
<1> DEFINE tree == PrunedTree(bits)
<1>8. tree = [inner |-> inner, active |-> active, labels |-> labels, perfect |-> 1]
  BY Zenon DEF PrunedTree
<1>9. labels \subseteq Nodes /\ active \subseteq Nodes /\ inner \subseteq active
  BY <1>2
<1> HIDE DEF inner, active, labels, tree
<1>10. active = {0} \cup UNION {Children(v) : v \in inner}
  <2>1. \A v : v \in active <=> v = 0 \/ \E u \in inner : v \in Children(u)
    BY <1>5, <1>6, <1>7
  <2> QED
    BY <2>1
<1>11. IsTree(tree)
  <2>1. 1 \in 1 .. h + 1 /\ inner \subseteq 0 .. n - 2
    BY <1>1, <1>4
  <2> QED
    BY <1>8, <1>9, <1>10, <2>1 DEF IsTree
<1>12. tree.active \ tree.inner = active \cap Leaves(bits)
  BY <1>8 DEF inner
<1> QED
  BY <1>11, <1>12 DEF tree, active

\* A pruned tree, not made from a TEB, is walked from its root.
LEMMA PrunedSkipsNothing ==
  ASSUME NEW bits
  PROVE  SkippedArePerfect(PrunedTree(bits))
<1> DEFINE tree == PrunedTree(bits)
<1>1. tree.perfect - 1 = 0
  BY DEF PrunedTree
<1>2. first_node_idx_at_level(0) = 0
  BY PowerStep DEF first_node_idx_at_level
<1>3. 0 .. 0 - 1 = {}
  OBVIOUS
<1> QED
  BY <1>1, <1>2, <1>3 DEF SkippedArePerfect

\* The builder encodes that tree.
LEMMA SerializeIsToTeb ==
  ASSUME NEW plain \in [Pos -> BOOLEAN]
  PROVE  /\ Padded(plain) \in [Slots -> BOOLEAN]
         /\ Serialize(plain) = ToTeb(PrunedTree(Padded(plain)))
<1> DEFINE bits   == Padded(plain)
           active == Active(Leaves(bits))
           leaves == active \cap Leaves(bits)
           ones   == {v \in leaves : label(bits, v)}
           tree   == PrunedTree(bits)
<1>1. bits \in [Slots -> BOOLEAN]
  BY DEF Padded
<1> HIDE DEF bits
<1>2. tree.active \ tree.inner = leaves
  BY <1>1, PrunedIsTree
<1>3. tree.active = active /\ tree.labels = ones
  BY DEF PrunedTree
<1>4. leaves \cap tree.labels = ones
  BY <1>3
<1> HIDE DEF active, leaves, ones, tree
<1>5. ToTeb(tree) = SerializeTree(CountersOf(active, leaves, ones))
  BY <1>2, <1>3, <1>4 DEF ToTeb
<1>6. Serialize(plain) = SerializeTree(CountersOf(active, leaves, ones))
  BY Zenon DEF Serialize, Counters, bits, active, leaves, ones
<1> QED
  BY <1>1, <1>5, <1>6 DEF bits, tree

\* The leaf above a slot is labelled with the bit of the slot.
LEMMA PrunedLabels ==
  ASSUME NEW bits \in [Slots -> BOOLEAN], NEW p \in Slots,
         NEW e, Ends(PrunedTree(bits), p, e)
  PROVE  NodeAbove(p, e) \in PrunedTree(bits).labels <=> bits[p]
<1> DEFINE v == NodeAbove(p, e)
           tree == PrunedTree(bits)
           leaves == Active(Leaves(bits)) \cap Leaves(bits)
<1>1. h \in Nat /\ e \in 0 .. h /\ e \in 0 .. e /\ ~(e < e)
  BY Height DEF Ends
<1>2. IsTree(tree) /\ tree.active \ tree.inner = leaves
  BY PrunedIsTree
<1>3. v \in tree.active /\ v \notin tree.inner
  BY <1>1, <1>2, PathIsActive DEF Ends
<1>4. v \in leaves
  BY <1>2, <1>3
<1>5. v \in tree.labels <=> label(bits, v)
  BY <1>4 DEF PrunedTree
<1>6. p \in Below(v)
  BY <1>1, BelowIsOnPath
<1>7. is_leaf_node(bits, v)
  BY <1>4 DEF Leaves
<1>8. CASE Uniform(bits, v)
  <2>1. bits[p] = label(bits, v)
    BY <1>6, <1>8 DEF Uniform
  <2> QED
    BY <1>5, <2>1
<1>9. CASE level_of(v) = h
  <2>1. e = h
    BY <1>1, <1>9, PathLevel
  <2>2. ASSUME NEW i \in Below(v) PROVE i = p
    <3>1. i \in Slots /\ NodeAbove(i, h) = NodeAbove(p, h)
      BY <1>1, <2>1, BelowIsOnPath
    <3>2. n - 1 + i = n - 1 + p /\ i \in Nat /\ p \in Nat /\ n \in Nat
      BY <3>1, PathEnd, Height DEF Slots
    <3> QED
      BY <3>2
  <2>3. label(bits, v) <=> bits[p]
    BY <1>6, <2>2 DEF label
  <2> QED
    BY <1>5, <2>3
<1> QED
  BY <1>7, <1>8, <1>9 DEF is_leaf_node

\* Building a TEB from a plain bitmap keeps every bit, whatever of the tree is
\* pruned and whatever of it is only counted.
THEOREM BuildingKeepsBits ==
  ASSUME NEW plain \in [Pos -> BOOLEAN]
  PROVE  Decode(Serialize(plain)) = plain
<1> DEFINE bits == Padded(plain)
           tree == PrunedTree(bits)
<1>1. bits \in [Slots -> BOOLEAN] /\ Serialize(plain) = ToTeb(tree)
  BY SerializeIsToTeb
<1>2. IsTree(tree)
  BY <1>1, PrunedIsTree
<1>3. SkippedArePerfect(tree)
  BY PrunedSkipsNothing
<1> HIDE DEF tree
<1>4. ASSUME NEW p \in Pos
      PROVE  test(Serialize(plain), p) = plain[p]
  <2>1. p \in Slots /\ GoodTree(tree)
    BY <1>2, <1>3, PosAreSlots DEF GoodTree
  <2>2. PICK e : Ends(tree, p, e)
    BY <2>1, PathHasLeaf
  <2>3. test(ToTeb(tree), p) = tree_test(tree, p)
    BY <1>2, <1>3, EncodingKeepsBits
  <2>4. tree_test(tree, p) = (NodeAbove(p, e) \in tree.labels)
    BY <2>1, <2>2, WalkFindsLeaf
  <2>5. NodeAbove(p, e) \in tree.labels <=> bits[p]
    BY <1>1, <2>1, <2>2, PrunedLabels DEF tree
  <2>6. bits[p] = plain[p] /\ plain[p] \in BOOLEAN
    BY <2>1 DEF Padded
  <2> HIDE DEF bits
  <2> QED
    BY <1>1, <2>3, <2>4, <2>5, <2>6
<1>5. Decode(Serialize(plain)) = [i \in Pos |-> plain[i]]
  BY <1>4 DEF Decode
<1> QED
  BY <1>5

\* The parent of a node
LEMMA ParentOf ==
  ASSUME NEW v \in Nat, v > 0
  PROVE  /\ parent_of(v) \in Nat /\ parent_of(v) < v
         /\ \A u \in Nat : v \in Children(u) <=> u = parent_of(v)
<1>1. PICK u \in Nat, s \in 0 .. 1 : v - 1 = 2 * u + s /\ u = parent_of(v)
  <2>1. PICK y \in Nat : y = v - 1
    OBVIOUS
  <2>2. 2 \in Nat /\ 2 > 0
    OBVIOUS
  <2>3. y \div 2 \in Nat /\ y % 2 \in 0 .. 2 - 1 /\ y = 2 * (y \div 2) + (y % 2)
    BY <2>2, BlockOf
  <2> QED
    BY <2>1, <2>3 DEF parent_of
<1>2. v = 2 * u + 1 \/ v = 2 * u + 2
  BY <1>1
<1>3. \A w \in Nat : v \in Children(w) <=> w = u
  BY <1>2 DEF Children
<1> QED
  BY <1>1, <1>2, <1>3

\* A node below the root is active if and only if its parent is inner.
LEMMA ActiveBelowInner ==
  ASSUME NEW tree, IsTree(tree), NEW v \in Nat, v > 0
  PROVE  v \in tree.active <=> parent_of(v) \in tree.inner
<1>1. tree.active = {0} \cup ChildrenOf(tree.inner) /\ tree.inner \subseteq Nat
  BY ActiveNodes
<1>2. v \in tree.active <=> \E u \in tree.inner : v \in Children(u)
  BY <1>1 DEF ChildrenOf
<1>3. parent_of(v) \in Nat /\ \A u \in Nat : v \in Children(u) <=> u = parent_of(v)
  BY ParentOf
<1> QED
  BY <1>1, <1>2, <1>3

\* What the constructor has read of a tree once it is past node v
ReadUpto(t, tree, v, r) ==
  LET leaves == tree.active \ tree.inner
  IN  /\ r \in Reads(t)
      /\ r.tree.inner = {u \in tree.inner : u <= v}
      /\ r.tree.labels = {u \in leaves : u <= v /\ u \in tree.labels}
      /\ FlagsAgree(r.tree)
      /\ r.nodes = Rank(tree.active, v + 1) - t.implicit_inner_node_cnt
      /\ r.labels = Rank(leaves, v + 1)

\* T and L give the constructor the next node and label of the tree.
LEMMA ReadNext ==
  ASSUME NEW t, NEW tree, Encodes(t, tree),
         t.implicit_inner_node_cnt \in 1 .. n - 1, t.tree_bit_cnt \in Nat,
         0 .. t.implicit_inner_node_cnt - 1 \subseteq tree.inner,
         t.implicit_inner_node_cnt \notin tree.inner,
         NEW v \in t.implicit_inner_node_cnt .. 2 * n - 2,
         NEW r, ReadUpto(t, tree, v - 1, r),
         ReadStep(t, v, r) \in Reads(t)
  PROVE  ReadUpto(t, tree, v, ReadStep(t, v, r))
<1> DEFINE c == t.implicit_inner_node_cnt
           A == tree.active
           leaves == tree.active \ tree.inner
           after == ReadStep(t, v, r)
<1>1. /\ n \in Nat /\ c \in Nat /\ c > 0 /\ v \in Nat /\ c <= v /\ v > 0
      /\ v - 1 \in Nat /\ (v - 1) + 1 = v /\ v + 1 \in Nat
  BY Height
<1>2. IsTree(tree)
  BY DEF Encodes
<1>3. /\ A \subseteq Nat /\ IsFiniteSet(A) /\ tree.inner \subseteq Nat
      /\ tree.inner \subseteq A /\ IsFiniteSet(leaves)
  BY <1>2, ActiveNodes
<1>4. leaves \subseteq Nat
  BY <1>3
<1>5. /\ r \in Reads(t) /\ FlagsAgree(r.tree)
      /\ r.tree.inner = {u \in tree.inner : u <= v - 1}
      /\ r.tree.labels = {u \in leaves : u <= v - 1 /\ u \in tree.labels}
      /\ r.nodes = Rank(A, v) - c
      /\ r.labels = Rank(leaves, v)
  BY <1>1 DEF ReadUpto
<1>6. /\ DOMAIN r = {"tree", "nodes", "labels"}
      /\ DOMAIN r.tree = {"inner", "active", "labels", "perfect"}
      /\ r.nodes \in Nat /\ r.labels \in Nat
  BY <1>5 DEF Reads
<1> HIDE DEF A, leaves, c, after
<1>7. \A u \in Nat : u <= v <=> u <= v - 1 \/ u = v
  BY <1>1
<1>8. parent_of(v) \in r.tree.inner <=> v \in A
  <2>1. parent_of(v) \in Nat /\ parent_of(v) <= v - 1
    BY <1>1, ParentOf
  <2>2. v \in A <=> parent_of(v) \in tree.inner
    BY <1>1, <1>2, ActiveBelowInner DEF A
  <2> QED
    BY <1>5, <2>1, <2>2
<1>9. /\ Rank(A, v + 1) = IF v \in A THEN Rank(A, v) + 1 ELSE Rank(A, v)
      /\ Rank(leaves, v + 1) = IF v \in leaves THEN Rank(leaves, v) + 1 ELSE Rank(leaves, v)
      /\ Rank(A, v) \in Nat /\ Rank(leaves, v) \in Nat
  BY <1>1, <1>3, <1>4, RankNext, RankType
<1>10. ASSUME /\ after \in Reads(t)
              /\ after.tree.inner = {u \in tree.inner : u <= v}
              /\ after.tree.labels = {u \in leaves : u <= v /\ u \in tree.labels}
              /\ FlagsAgree(after.tree)
              /\ after.nodes = Rank(A, v + 1) - c
              /\ after.labels = Rank(leaves, v + 1)
       PROVE  ReadUpto(t, tree, v, after)
  BY <1>10 DEF ReadUpto, A, c, leaves
<1>11. after \in Reads(t)
  BY DEF after
<1> SUFFICES ReadUpto(t, tree, v, after)
  BY DEF after
<1>12. CASE v \notin A
  <2>1. after = r
    BY <1>8, <1>12 DEF after, ReadStep
  <2>2. v \notin tree.inner /\ v \notin leaves
    BY <1>3, <1>12 DEF leaves, A
  <2>3. {u \in tree.inner : u <= v} = {u \in tree.inner : u <= v - 1}
    BY <1>3, <1>7, <2>2
  <2>4. {u \in leaves : u <= v /\ u \in tree.labels}
          = {u \in leaves : u <= v - 1 /\ u \in tree.labels}
    BY <1>4, <1>7, <2>2
  <2>5. Rank(A, v + 1) = Rank(A, v) /\ Rank(leaves, v + 1) = Rank(leaves, v)
    BY <1>9, <1>12, <2>2
  <2> QED
    BY <1>5, <1>10, <1>11, <2>1, <2>3, <2>4, <2>5
<1>13. CASE v \in A
  <2>1. parent_of(v) \in r.tree.inner
    BY <1>8, <1>13
  <2>2. NextNode(t, r.nodes) <=> v \in tree.inner
    <3>1. is_inner_node(t, Rank(A, v)) <=> v \in tree.inner
      BY <1>13 DEF Encodes, A
    <3>2. ~(Rank(A, v) < c) /\ (Rank(A, v) < TrailingT(t) <=> r.nodes < t.tree_bit_cnt)
      BY <1>1, <1>5, <1>6, <1>9 DEF TrailingT, c
    <3>3. is_inner_node(t, Rank(A, v)) <=> r.nodes < t.tree_bit_cnt /\ Bit(t.T, r.nodes)
      BY <1>5, <3>2 DEF is_inner_node, c
    <3> QED
      BY <3>1, <3>3 DEF NextNode
  <2>3. NextNode(t, r.nodes) /\ v # c <=> v \in tree.inner
    BY <2>2 DEF c
  <2>4. CASE v \in tree.inner
    <3>1. v # c /\ NextNode(t, r.nodes)
      BY <2>3, <2>4
    <3>2. after = [r EXCEPT !.tree = SetInner(@, v), !.nodes = @ + 1]
      BY <2>1, <3>1 DEF after, ReadStep, c
    <3>3. after.tree = SetInner(r.tree, v) /\ after.nodes = r.nodes + 1 /\ after.labels = r.labels
      BY <1>6, <3>2
    <3>4. FlagsAgree(after.tree) /\ after.tree.inner = r.tree.inner \cup {v}
      BY <1>1, <1>5, <1>6, <2>1, <3>3, SetInnerKeepsFlags
    <3>5. after.tree.labels = r.tree.labels
      BY <1>6, <3>3 DEF SetInner
    <3>6. v \notin leaves
      BY <2>4 DEF leaves
    <3>7. {u \in tree.inner : u <= v} = r.tree.inner \cup {v}
      BY <1>3, <1>5, <1>7, <2>4
    <3>8. {u \in leaves : u <= v /\ u \in tree.labels} = r.tree.labels
      BY <1>4, <1>5, <1>7, <3>6
    <3>9. after.nodes = Rank(A, v + 1) - c /\ after.labels = Rank(leaves, v + 1)
      BY <1>1, <1>5, <1>9, <1>13, <3>3, <3>6
    <3> QED
      BY <1>10, <1>11, <3>4, <3>5, <3>7, <3>8, <3>9
  <2>5. CASE v \notin tree.inner
    <3>1. ~(v # c /\ NextNode(t, r.nodes))
      BY <2>3, <2>5
    <3>2. after = [tree   |-> SetLabel(r.tree, v, NextLabel(t, r.labels)),
                   nodes  |-> r.nodes + 1,
                   labels |-> r.labels + 1]
      BY <2>1, <3>1 DEF after, ReadStep, c
    <3>3. /\ after.tree = SetLabel(r.tree, v, NextLabel(t, r.labels))
          /\ after.nodes = r.nodes + 1 /\ after.labels = r.labels + 1
      BY <3>2
    <3>4. /\ after.tree.inner = r.tree.inner /\ after.tree.active = r.tree.active
          /\ after.tree.labels = IF NextLabel(t, r.labels) THEN r.tree.labels \cup {v}
                                 ELSE r.tree.labels \ {v}
      BY <1>6, <3>3 DEF SetLabel
    <3>5. FlagsAgree(after.tree)
      BY <1>5, <3>4 DEF FlagsAgree
    <3>6. v \in leaves
      BY <1>13, <2>5 DEF leaves, A
    <3>7. NextLabel(t, r.labels) <=> v \in tree.labels
      <4>1. get_label_by_idx(t, Rank(leaves, v)) <=> v \in tree.labels
        BY <3>6 DEF Encodes, leaves
      <4>2. NextLabel(t, Rank(leaves, v)) <=> get_label_by_idx(t, Rank(leaves, v))
        BY DEF NextLabel, get_label_by_idx
      <4> QED
        BY <1>5, <4>1, <4>2
    <3>8. {u \in tree.inner : u <= v} = r.tree.inner
      BY <1>3, <1>5, <1>7, <2>5
    <3>9. v \notin r.tree.labels
      BY <1>1, <1>5
    <3>10. {u \in leaves : u <= v /\ u \in tree.labels} = after.tree.labels
      <4>1. CASE v \in tree.labels
        <5>1. after.tree.labels = r.tree.labels \cup {v}
          BY <3>4, <3>7, <4>1
        <5> QED
          BY <1>4, <1>5, <1>7, <3>6, <4>1, <5>1
      <4>2. CASE v \notin tree.labels
        <5>1. after.tree.labels = r.tree.labels
          BY <3>4, <3>7, <3>9, <4>2
        <5> QED
          BY <1>4, <1>5, <1>7, <4>2, <5>1
      <4> QED
        BY <4>1, <4>2
    <3>11. after.nodes = Rank(A, v + 1) - c /\ after.labels = Rank(leaves, v + 1)
      BY <1>1, <1>5, <1>9, <1>13, <3>3, <3>6
    <3> QED
      BY <1>10, <1>11, <3>4, <3>5, <3>8, <3>10, <3>11
  <2> QED
    BY <2>4, <2>5
<1> QED
  BY <1>12, <1>13

\* The constructor reads back the tree that a TEB encodes: its nodes, and the
\* labels of its leaves.
LEMMA ReadsBack ==
  ASSUME NEW t, NEW tree, Encodes(t, tree),
         t.implicit_inner_node_cnt \in 1 .. n - 1, t.tree_bit_cnt \in Nat,
         0 .. t.implicit_inner_node_cnt - 1 \subseteq tree.inner,
         t.implicit_inner_node_cnt \notin tree.inner
  PROVE  /\ FlagsAgree(FromTeb(t))
         /\ FromTeb(t).inner = tree.inner
         /\ FromTeb(t).labels = (tree.active \ tree.inner) \cap tree.labels
<1> DEFINE c == t.implicit_inner_node_cnt
           a == c - 1
           b == 2 * n - 2
           A == tree.active
           leaves == tree.active \ tree.inner
           first == [tree |-> Upper(t), nodes |-> 0, labels |-> 0]
<1>1. n \in Nat /\ c \in Nat /\ c > 0 /\ c <= n - 1 /\ a \in Nat /\ b \in Nat /\ a <= b /\ a + 1 = c
  BY Height
<1>2. IsTree(tree)
  BY DEF Encodes
<1>3. /\ A \subseteq Nat /\ IsFiniteSet(A) /\ tree.inner \subseteq Nat
      /\ tree.inner \subseteq A /\ IsFiniteSet(leaves)
      /\ tree.inner \subseteq 0 .. n - 2 /\ A \subseteq 0 .. 2 * n - 2
  BY <1>2, ActiveNodes DEF Nodes
<1>4. PICK read : ReadsBy(t, read) /\ FromTeb(t) = read[b].tree
  BY <1>1, ReadSteps
<1>5. /\ read[a] = first
      /\ \A v \in a .. b - 1 : read[v + 1] = ReadStep(t, v + 1, read[v])
      /\ \A v \in a .. b : read[v] \in Reads(t)
  <2>1. b - 1 = 2 * n - 3
    BY <1>1
  <2> QED
    BY <1>4, <2>1 DEF ReadsBy
<1>6. 0 .. c - 1 \subseteq tree.inner
  OBVIOUS
<1> HIDE DEF a, b, c, A, leaves, first
<1>7. ReadUpto(t, tree, a, read[a])
  <2>1. first \in Reads(t) /\ FlagsAgree(Upper(t)) /\ Upper(t).inner = 0 .. c - 1
    BY UpperIsTree DEF first, c
  <2>2. first.tree = Upper(t) /\ first.nodes = 0 /\ first.labels = 0 /\ Upper(t).labels = {}
    BY DEF first, Upper
  <2>3. {u \in tree.inner : u <= a} = 0 .. c - 1
    BY <1>1, <1>3, <1>6
  <2>4. \A u \in leaves : ~(u <= a) /\ ~(u < c)
    <3>1. \A u \in leaves : u \in Nat /\ u \notin tree.inner
      BY <1>3 DEF leaves, A
    <3> QED
      BY <1>1, <1>6, <3>1
  <2>5. {u \in leaves : u <= a /\ u \in tree.labels} = {}
    BY <2>4
  <2>6. Rank(A, c) = c
    <3>1. 0 .. c - 1 \subseteq A
      BY <1>3, <1>6
    <3> QED
      BY <1>1, <1>3, <3>1, RankOfFull
  <2>7. Rank(leaves, c) = 0
    <3>1. {u \in leaves : u < c} = {}
      BY <2>4
    <3> QED
      BY <3>1, FS_EmptySet DEF Rank
  <2> QED
    BY <1>1, <1>5, <2>1, <2>2, <2>3, <2>5, <2>6, <2>7 DEF ReadUpto, A, leaves, c
<1>8. ASSUME NEW u \in a .. b - 1, ReadUpto(t, tree, u, read[u])
      PROVE  ReadUpto(t, tree, u + 1, read[u + 1])
  <2>1. u + 1 \in c .. b /\ u + 1 \in a .. b /\ (u + 1) - 1 = u
    BY <1>1
  <2>2. PICK v : v = u + 1
    OBVIOUS
  <2>3. read[v] = ReadStep(t, v, read[u]) /\ read[v] \in Reads(t)
    BY <1>5, <2>1, <2>2
  <2>4. v \in t.implicit_inner_node_cnt .. 2 * n - 2 /\ v - 1 = u
    BY <2>1, <2>2 DEF b, c
  <2>5. ReadUpto(t, tree, v, ReadStep(t, v, read[u]))
    BY <1>8, <2>3, <2>4, ReadNext
  <2> QED
    BY <2>2, <2>3, <2>5
<1>9. ReadUpto(t, tree, b, read[b])
  <2> DEFINE S == {v \in a .. b : ReadUpto(t, tree, v, read[v])}
  <2>1. a \in S
    BY <1>1, <1>7
  <2>2. \A u \in a .. b - 1 : u \in S => u + 1 \in S
    <3>1. \A u \in a .. b - 1 : u + 1 \in a .. b
      BY <1>1
    <3> QED
      BY <1>8, <3>1
  <2> HIDE DEF S
  <2>3. a .. b \subseteq S
    BY <1>1, <2>1, <2>2, ReachedUp
  <2>4. b \in a .. b
    BY <1>1
  <2> QED
    BY <2>3, <2>4 DEF S
<1>10. /\ FlagsAgree(read[b].tree)
       /\ read[b].tree.inner = {u \in tree.inner : u <= b}
       /\ read[b].tree.labels = {u \in leaves : u <= b /\ u \in tree.labels}
  BY <1>9 DEF ReadUpto, leaves
<1>11. \A u \in A : u <= b
  BY <1>1, <1>3 DEF b
<1>12. {u \in tree.inner : u <= b} = tree.inner
  BY <1>3, <1>11
<1>13. {u \in leaves : u <= b /\ u \in tree.labels} = leaves \cap tree.labels
  BY <1>11 DEF leaves, A
<1> QED
  BY <1>4, <1>10, <1>12, <1>13 DEF leaves

\* Taking a TEB apart changes no bit: the mutable tree made of a TEB that encodes
\* a tree answers test() as the TEB does.  The first node that is stored has to
\* be a leaf, as the constructor takes it for one; a TEB that is one leaf is not
\* opened.
THEOREM OpeningKeepsBits ==
  ASSUME NEW t, NEW tree, Encodes(t, tree),
         t.implicit_inner_node_cnt \in 1 .. n - 1, t.tree_bit_cnt \in Nat,
         0 .. t.implicit_inner_node_cnt - 1 \subseteq tree.inner,
         t.implicit_inner_node_cnt \notin tree.inner
  PROVE  /\ IsTree(FromTeb(t)) /\ SkippedArePerfect(FromTeb(t))
         /\ \A p \in Pos : tree_test(FromTeb(t), p) = test(t, p)
<1> DEFINE made == FromTeb(t)
<1>1. IsTree(tree)
  BY DEF Encodes
<1>2. made.inner = tree.inner /\ made.labels = (tree.active \ tree.inner) \cap tree.labels
  BY ReadsBack
<1>3. IsTree(made) /\ SkippedArePerfect(made)
  <2>1. FromTeb(t).inner \subseteq 0 .. n - 2
    BY <1>1, <1>2, ActiveNodes
  <2> QED
    BY <2>1, OpenGivesTree
<1> HIDE DEF made
<1>4. ASSUME NEW p \in Pos
      PROVE  tree_test(made, p) = test(t, p)
  <2>1. p \in Slots /\ GoodTree(made)
    BY <1>3, PosAreSlots DEF GoodTree
  <2>2. PICK e : Ends(made, p, e)
    BY <2>1, PathHasLeaf
  <2>3. Ends(tree, p, e)
    BY <1>2, <2>2 DEF Ends
  <2>4. tree_test(made, p) = (NodeAbove(p, e) \in made.labels)
    BY <2>1, <2>2, WalkFindsLeaf
  <2>5. test(t, p) <=> NodeAbove(p, e) \in tree.labels
    BY <2>1, <2>3, EncodedTest
  <2>6. NodeAbove(p, e) \in tree.active \ tree.inner
    <3>1. e \in 0 .. h /\ NodeAbove(p, e) \notin tree.inner
      BY <2>3, Height DEF Ends
    <3>2. e \in 0 .. e
      BY <3>1, Height
    <3> QED
      BY <1>1, <2>1, <2>3, <3>1, <3>2, PathIsActive
  <2>7. test(t, p) \in BOOLEAN
    BY DEF test, get_label, get_label_by_idx
  <2> QED
    BY <1>2, <2>4, <2>5, <2>6, <2>7
<1> QED
  BY <1>3, <1>4 DEF made

\* The first node that is stored in a TEB made of a tree is a leaf, as the
\* constructor of the mutable tree takes it to be.
LEMMA ToTebOpens ==
  ASSUME NEW tree, IsTree(tree)
  PROVE  LET t == ToTeb(tree)
         IN  /\ t.implicit_inner_node_cnt \in 0 .. n - 1 /\ t.tree_bit_cnt \in Nat \ {0}
             /\ 0 .. t.implicit_inner_node_cnt - 1 \subseteq tree.inner
             /\ t.implicit_inner_node_cnt \notin tree.inner
<1> DEFINE t     == ToTeb(tree)
           begin == Min(tree.active \ tree.inner)
<1>1. /\ begin \in tree.active \ tree.inner /\ begin \in 0 .. n - 1
      /\ 0 .. begin - 1 \subseteq tree.inner
  BY FirstLeaf
<1>2. PICK end, E, X : StoredAs(t, tree, end, E, X)
  BY ToTebFields
<1> SUFFICES /\ t.implicit_inner_node_cnt \in 0 .. n - 1 /\ t.tree_bit_cnt \in Nat \ {0}
             /\ 0 .. t.implicit_inner_node_cnt - 1 \subseteq tree.inner
             /\ t.implicit_inner_node_cnt \notin tree.inner
  OBVIOUS
<1> HIDE DEF t, begin
<1>4. /\ E = {v \in tree.active : begin <= v /\ v < end}
      /\ t.implicit_inner_node_cnt = begin
      /\ t.tree_bit_cnt = IF Cardinality(E) = 0 THEN 1 ELSE Cardinality(E)
  BY <1>2, Zenon DEF StoredAs, begin
<1>5. Cardinality(E) \in Nat
  <2>1. E \in SUBSET tree.active /\ IsFiniteSet(tree.active)
    BY <1>4, ActiveNodes
  <2> QED
    BY <2>1, FS_Subset, FS_CardinalityType
<1> QED
  BY <1>1, <1>4, <1>5, Height

\* The tree merge of a TEB and a diff.  The TEB encodes any tree, so that it may
\* itself come from a merge; it is opened, the bits of the diff are toggled, and
\* the TEB made of the result answers each position with the bit it had, flipped
\* if and only if the diff says so.
THEOREM TreeMergeIsXor ==
  ASSUME NEW tree, IsTree(tree), SkippedArePerfect(tree), NEW diff \in [Pos -> BOOLEAN],
         ToTeb(tree).implicit_inner_node_cnt > 0
  PROVE  LET t      == ToTeb(tree)
             merged == ToTeb(ToggleAll(FromTeb(t), diff))
         IN  \A p \in Pos : test(merged, p) = (test(t, p) # diff[p])
<1> DEFINE t     == ToTeb(tree)
           made  == FromTeb(t)
           after == ToggleAll(made, diff)
<1>1. IsTree(made) /\ SkippedArePerfect(made) /\ \A p \in Pos : tree_test(made, p) = test(t, p)
  <2>1. t.implicit_inner_node_cnt > 0
    OBVIOUS
  <2>2. /\ t.implicit_inner_node_cnt \in 0 .. n - 1 /\ t.tree_bit_cnt \in Nat
        /\ 0 .. t.implicit_inner_node_cnt - 1 \subseteq tree.inner
        /\ t.implicit_inner_node_cnt \notin tree.inner
    BY ToTebOpens
  <2>3. Encodes(t, tree)
    BY ToTebEncodes
  <2> HIDE DEF t
  <2>4. t.implicit_inner_node_cnt \in 1 .. n - 1
    BY <2>1, <2>2, Height
  <2> QED
    BY <2>2, <2>3, <2>4, OpeningKeepsBits
<1> HIDE DEF made, t
<1>2. /\ IsTree(after) /\ SkippedArePerfect(after)
      /\ \A p \in Pos : tree_test(after, p) = (tree_test(made, p) # diff[p])
  BY <1>1, MergeFlipsTheDiff
<1> HIDE DEF after
<1>3. \A p \in Pos : test(ToTeb(after), p) = tree_test(after, p)
  BY <1>2, EncodingKeepsBits
<1>4. \A p \in Pos : test(ToTeb(after), p) = (test(t, p) # diff[p])
  BY <1>1, <1>2, <1>3
<1> QED
  BY <1>4 DEF t, made, after

\* The same for a bitmap that was built from plain bits
COROLLARY BuiltMergeIsXor ==
  ASSUME NEW plain \in [Pos -> BOOLEAN], NEW diff \in [Pos -> BOOLEAN],
         Serialize(plain).implicit_inner_node_cnt > 0
  PROVE  Decode(ToTeb(ToggleAll(FromTeb(Serialize(plain)), diff)))
           = [i \in Pos |-> plain[i] # diff[i]]
<1> DEFINE tree   == PrunedTree(Padded(plain))
           t      == Serialize(plain)
           merged == ToTeb(ToggleAll(FromTeb(t), diff))
<1>1. Padded(plain) \in [Slots -> BOOLEAN] /\ t = ToTeb(tree)
  BY SerializeIsToTeb
<1>2. IsTree(tree)
  BY <1>1, PrunedIsTree
<1>3. SkippedArePerfect(tree)
  BY PrunedSkipsNothing
<1>4. t.implicit_inner_node_cnt > 0
  OBVIOUS
<1>5. \A p \in Pos : test(t, p) = plain[p]
  <2>1. [i \in Pos |-> test(t, i)] = plain
    BY BuildingKeepsBits DEF Decode
  <2> HIDE DEF t
  <2> QED
    BY <2>1
<1> HIDE DEF tree
<1>6. \A p \in Pos : test(merged, p) = (test(t, p) # diff[p])
  <2> HIDE DEF t
  <2>1. ToTeb(tree).implicit_inner_node_cnt > 0
    BY <1>1, <1>4
  <2>2. \A p \in Pos : test(ToTeb(ToggleAll(FromTeb(ToTeb(tree)), diff)), p)
                         = (test(ToTeb(tree), p) # diff[p])
    BY <1>2, <1>3, <2>1, TreeMergeIsXor
  <2> QED
    BY <1>1, <2>2
<1> HIDE DEF merged, t
<1>7. Decode(merged) = [i \in Pos |-> plain[i] # diff[i]]
  BY <1>5, <1>6 DEF Decode
<1> QED
  BY <1>7 DEF merged, t

-----------------------------------------------------------------------------
\* What in-place updates keep of L: its bits and the free ones fill whole words,
\* the free ones are 0, and no counter wraps.
LabelsKept(t) ==
  \E size \in 0 .. Modulus - 1 :
    /\ t.L \in [0 .. size - 1 -> BOOLEAN]
    /\ t.label_bit_cnt \in Nat /\ t.free_bits_L \in Nat
    /\ t.label_bit_cnt + t.free_bits_L = size
    /\ t.implicit_leading_label_cnt \in 0 .. Modulus - 1
    /\ \A k \in t.label_bit_cnt .. size - 1 : ~t.L[k]

\* Changes of L leave the rest of a TEB alone.
TreePart(t) ==
  <<t.T, t.tree_bit_cnt, t.free_bits_T, t.implicit_inner_node_cnt,
    t.implicit_trailing_leaf_cnt, t.perfect_level_cnt, t.level_offsets_tree,
    t.level_offsets_labels>>

\* The fields that label writes read and change
LabelFields ==
  {"L", "label_bit_cnt", "free_bits_L", "implicit_leading_label_cnt",
   "implicit_trailing_label_cnt", "faults"}
TebFields ==
  LabelFields \cup {"T", "tree_bit_cnt", "free_bits_T", "implicit_inner_node_cnt",
                    "implicit_trailing_leaf_cnt", "perfect_level_cnt", "level_offsets_tree",
                    "level_offsets_labels"}

\* The counters are numbers.
LEMMA ModulusIsNat == Modulus \in Nat /\ Modulus > 0
  BY DEF Modulus

\* A number below the modulus is stored as it is.
LEMMA NoWrap ==
  ASSUME NEW x \in 0 .. Modulus - 1
  PROVE  U(x) = x
<1>1. PICK m \in Nat : m = Modulus /\ m > 0 /\ x \in 0 .. m - 1
  BY ModulusIsNat
<1>2. x = m * 0 + x
  BY <1>1
<1>3. x % m = x
  BY <1>1, <1>2, PlaceInBlock
<1> QED
  BY <1>1, <1>3 DEF U

\* 0-bits in front of the others
Prepend(a, cnt) == InsertBits(a, 0, cnt, FALSE)

\* Two insertions of 0-bits in front are one.
LEMMA InsertTwice ==
  ASSUME NEW size \in Nat, NEW a \in [0 .. size - 1 -> BOOLEAN], NEW c \in Nat, NEW d \in Nat
  PROVE  Prepend(Prepend(a, c), d) = Prepend(a, c + d)
<1> DEFINE b == InsertBits(a, 0, c, FALSE)
<1>1. DOMAIN a = 0 .. size - 1
  OBVIOUS
<1>2. b = [k \in 0 .. size - 1 |-> IF k < c THEN FALSE ELSE a[k - c]]
  <2>1. \A k \in 0 .. size - 1 : ~(k < 0) /\ (k < 0 + c <=> k < c)
    OBVIOUS
  <2> QED
    BY <1>1, <2>1 DEF InsertBits
<1>3. DOMAIN b = 0 .. size - 1
  BY <1>2
<1>4. ASSUME NEW k \in 0 .. size - 1, ~(k < d)
      PROVE  b[k - d] = IF k < c + d THEN FALSE ELSE a[k - (c + d)]
  <2>1. k - d \in 0 .. size - 1 /\ (k - d < c <=> k < c + d) /\ (k - d) - c = k - (c + d)
    BY <1>4
  <2> QED
    BY <1>2, <2>1
<1> HIDE DEF b
<1>5. \A k \in 0 .. size - 1 : /\ ~(k < 0) /\ (k < 0 + d <=> k < d)
                               /\ (k < 0 + (c + d) <=> k < c + d) /\ (k < d => k < c + d)
  OBVIOUS
<1>6. InsertBits(b, 0, d, FALSE) = [k \in 0 .. size - 1 |-> IF k < d THEN FALSE ELSE b[k - d]]
  BY <1>3, <1>5 DEF InsertBits
<1>7. InsertBits(a, 0, c + d, FALSE)
        = [k \in 0 .. size - 1 |-> IF k < c + d THEN FALSE ELSE a[k - (c + d)]]
  BY <1>1, <1>5 DEF InsertBits
<1>8. \A k \in 0 .. size - 1 :
        (IF k < d THEN FALSE ELSE b[k - d]) = IF k < c + d THEN FALSE ELSE a[k - (c + d)]
  BY <1>4, <1>5
<1> QED
  BY <1>6, <1>7, <1>8 DEF b, Prepend

\* The fields of a TEB, the levels of labels aside, which nothing here reads
IsTeb(t) == TebFields \subseteq DOMAIN t

\* What a TEB s is that differs from t in its labels only
SameTree(s, t) == IsTeb(s) /\ TreePart(s) = TreePart(t)

\* The labels of s, field by field
LabelsAre(s, bits, cnt, free, lead) ==
  /\ s.L = bits /\ s.label_bit_cnt = cnt /\ s.free_bits_L = free
  /\ s.implicit_leading_label_cnt = lead

\* Label bits counted as stored, or given back
LEMMA GrowLFields ==
  ASSUME NEW t, IsTeb(t), NEW c \in Int,
         t.label_bit_cnt + c \in 0 .. Modulus - 1, t.free_bits_L - c \in 0 .. Modulus - 1
  PROVE  /\ SameTree(GrowL(t, c), t)
         /\ LabelsAre(GrowL(t, c), t.L, t.label_bit_cnt + c, t.free_bits_L - c,
                      t.implicit_leading_label_cnt)
<1>1. U(t.label_bit_cnt + c) = t.label_bit_cnt + c /\ U(t.free_bits_L - c) = t.free_bits_L - c
  BY NoWrap
<1>2. {"L", "label_bit_cnt", "free_bits_L", "implicit_leading_label_cnt"} \subseteq DOMAIN t
  BY DEF IsTeb, TebFields, LabelFields
<1>3. {"T", "tree_bit_cnt", "free_bits_T", "implicit_inner_node_cnt",
       "implicit_trailing_leaf_cnt", "perfect_level_cnt", "level_offsets_tree",
       "level_offsets_labels"} \subseteq DOMAIN t
  BY DEF IsTeb, TebFields
<1> DEFINE s == [t EXCEPT !.label_bit_cnt = U(@ + c), !.free_bits_L = U(@ - c)]
<1>4. /\ DOMAIN s = DOMAIN t /\ s.L = t.L /\ s.label_bit_cnt = U(t.label_bit_cnt + c)
      /\ s.free_bits_L = U(t.free_bits_L - c)
      /\ s.implicit_leading_label_cnt = t.implicit_leading_label_cnt
  BY <1>2
<1>5. /\ s.T = t.T /\ s.tree_bit_cnt = t.tree_bit_cnt /\ s.free_bits_T = t.free_bits_T
      /\ s.implicit_inner_node_cnt = t.implicit_inner_node_cnt
      /\ s.implicit_trailing_leaf_cnt = t.implicit_trailing_leaf_cnt
      /\ s.perfect_level_cnt = t.perfect_level_cnt
      /\ s.level_offsets_tree = t.level_offsets_tree
      /\ s.level_offsets_labels = t.level_offsets_labels
  BY <1>3
<1>6. GrowL(t, c) = s
  BY DEF GrowL
<1> HIDE DEF s
<1> QED
  BY <1>1, <1>4, <1>5, <1>6 DEF SameTree, LabelsAre, IsTeb, TreePart

\* 0-labels counted in front of L
LEMMA LeadLFields ==
  ASSUME NEW t, IsTeb(t), NEW c \in Int, t.implicit_leading_label_cnt + c \in 0 .. Modulus - 1
  PROVE  /\ SameTree(LeadL(t, c), t)
         /\ LabelsAre(LeadL(t, c), t.L, t.label_bit_cnt, t.free_bits_L,
                      t.implicit_leading_label_cnt + c)
<1>1. U(t.implicit_leading_label_cnt + c) = t.implicit_leading_label_cnt + c
  BY NoWrap
<1>2. {"L", "label_bit_cnt", "free_bits_L", "implicit_leading_label_cnt"} \subseteq DOMAIN t
  BY DEF IsTeb, TebFields, LabelFields
<1>3. {"T", "tree_bit_cnt", "free_bits_T", "implicit_inner_node_cnt",
       "implicit_trailing_leaf_cnt", "perfect_level_cnt", "level_offsets_tree",
       "level_offsets_labels"} \subseteq DOMAIN t
  BY DEF IsTeb, TebFields
<1> DEFINE s == [t EXCEPT !.implicit_leading_label_cnt = U(@ + c)]
<1>4. /\ DOMAIN s = DOMAIN t /\ s.L = t.L /\ s.label_bit_cnt = t.label_bit_cnt
      /\ s.free_bits_L = t.free_bits_L
      /\ s.implicit_leading_label_cnt = U(t.implicit_leading_label_cnt + c)
  BY <1>2
<1>5. /\ s.T = t.T /\ s.tree_bit_cnt = t.tree_bit_cnt /\ s.free_bits_T = t.free_bits_T
      /\ s.implicit_inner_node_cnt = t.implicit_inner_node_cnt
      /\ s.implicit_trailing_leaf_cnt = t.implicit_trailing_leaf_cnt
      /\ s.perfect_level_cnt = t.perfect_level_cnt
      /\ s.level_offsets_tree = t.level_offsets_tree
      /\ s.level_offsets_labels = t.level_offsets_labels
  BY <1>3
<1>6. LeadL(t, c) = s
  BY DEF LeadL
<1> HIDE DEF s
<1> QED
  BY <1>1, <1>4, <1>5, <1>6 DEF SameTree, LabelsAre, IsTeb, TreePart

\* 0-labels counted behind L
LEMMA TrailLFields ==
  ASSUME NEW t, IsTeb(t), NEW c \in Int
  PROVE  /\ SameTree(TrailL(t, c), t)
         /\ LabelsAre(TrailL(t, c), t.L, t.label_bit_cnt, t.free_bits_L,
                      t.implicit_leading_label_cnt)
<1>2. {"L", "label_bit_cnt", "free_bits_L", "implicit_leading_label_cnt"} \subseteq DOMAIN t
  BY DEF IsTeb, TebFields, LabelFields
<1>3. {"T", "tree_bit_cnt", "free_bits_T", "implicit_inner_node_cnt",
       "implicit_trailing_leaf_cnt", "perfect_level_cnt", "level_offsets_tree",
       "level_offsets_labels"} \subseteq DOMAIN t
  BY DEF IsTeb, TebFields
<1> DEFINE s == [t EXCEPT !.implicit_trailing_label_cnt = U(@ + c)]
<1>4. /\ DOMAIN s = DOMAIN t /\ s.L = t.L /\ s.label_bit_cnt = t.label_bit_cnt
      /\ s.free_bits_L = t.free_bits_L
      /\ s.implicit_leading_label_cnt = t.implicit_leading_label_cnt
  BY <1>2
<1>5. /\ s.T = t.T /\ s.tree_bit_cnt = t.tree_bit_cnt /\ s.free_bits_T = t.free_bits_T
      /\ s.implicit_inner_node_cnt = t.implicit_inner_node_cnt
      /\ s.implicit_trailing_leaf_cnt = t.implicit_trailing_leaf_cnt
      /\ s.perfect_level_cnt = t.perfect_level_cnt
      /\ s.level_offsets_tree = t.level_offsets_tree
      /\ s.level_offsets_labels = t.level_offsets_labels
  BY <1>3
<1>6. TrailL(t, c) = s
  BY DEF TrailL
<1> HIDE DEF s
<1> QED
  BY <1>4, <1>5, <1>6 DEF SameTree, LabelsAre, IsTeb, TreePart

\* A write to L and to the faults only
LEMMA BitsFields ==
  ASSUME NEW t, IsTeb(t), NEW bits, NEW faults,
         NEW s, s = [t EXCEPT !.L = bits, !.faults = faults]
  PROVE  /\ SameTree(s, t)
         /\ LabelsAre(s, bits, t.label_bit_cnt, t.free_bits_L, t.implicit_leading_label_cnt)
<1>2. {"L", "label_bit_cnt", "free_bits_L", "implicit_leading_label_cnt"} \subseteq DOMAIN t
  BY DEF IsTeb, TebFields, LabelFields
<1>3. {"T", "tree_bit_cnt", "free_bits_T", "implicit_inner_node_cnt",
       "implicit_trailing_leaf_cnt", "perfect_level_cnt", "level_offsets_tree",
       "level_offsets_labels"} \subseteq DOMAIN t
  BY DEF IsTeb, TebFields
<1>4. /\ DOMAIN s = DOMAIN t /\ s.L = bits /\ s.label_bit_cnt = t.label_bit_cnt
      /\ s.free_bits_L = t.free_bits_L
      /\ s.implicit_leading_label_cnt = t.implicit_leading_label_cnt
  BY <1>2
<1>5. /\ s.T = t.T /\ s.tree_bit_cnt = t.tree_bit_cnt /\ s.free_bits_T = t.free_bits_T
      /\ s.implicit_inner_node_cnt = t.implicit_inner_node_cnt
      /\ s.implicit_trailing_leaf_cnt = t.implicit_trailing_leaf_cnt
      /\ s.perfect_level_cnt = t.perfect_level_cnt
      /\ s.level_offsets_tree = t.level_offsets_tree
      /\ s.level_offsets_labels = t.level_offsets_labels
  BY <1>3
<1> QED
  BY <1>4, <1>5 DEF SameTree, LabelsAre, IsTeb, TreePart

\* Two writes to the labels leave the tree what it was.
LEMMA SameTreeTwice ==
  ASSUME NEW r, NEW s, NEW t, SameTree(r, s), SameTree(s, t)
  PROVE  SameTree(r, t)
BY DEF SameTree

\* 0-bits that are put in front of L in two parts or in one
LEMMA PrependedLabels ==
  ASSUME NEW t, IsTeb(t), LabelsKept(t), NEW cnt \in Nat, cnt > 0, cnt <= t.free_bits_L,
         NEW split \in BOOLEAN
  PROVE  /\ SameTree(PrependLabels(t, cnt, split), t)
         /\ LabelsAre(PrependLabels(t, cnt, split), InsertBits(t.L, 0, cnt, FALSE),
                      t.label_bit_cnt + cnt, t.free_bits_L - cnt,
                      t.implicit_leading_label_cnt)
<1>1. PICK size \in 0 .. Modulus - 1 :
        /\ t.L \in [0 .. size - 1 -> BOOLEAN]
        /\ t.label_bit_cnt \in Nat /\ t.free_bits_L \in Nat
        /\ t.label_bit_cnt + t.free_bits_L = size
  BY DEF LabelsKept
<1>2. Modulus \in Nat /\ size \in Nat
  BY ModulusIsNat
<1> DEFINE lead == t.implicit_leading_label_cnt
\* One insertion, of any number of bits, and its bookkeeping
<1>3. ASSUME NEW s, SameTree(s, t), NEW c \in Nat, NEW d \in Nat, c + d <= cnt,
             LabelsAre(s, InsertBits(t.L, 0, c, FALSE), t.label_bit_cnt + c,
                       t.free_bits_L - c, lead),
             NEW r, SameTree(r, s),
             LabelsAre(r, InsertBits(s.L, 0, d, FALSE), s.label_bit_cnt, s.free_bits_L,
                       s.implicit_leading_label_cnt)
      PROVE  /\ SameTree(GrowL(r, d), t)
             /\ LabelsAre(GrowL(r, d), InsertBits(t.L, 0, c + d, FALSE),
                          t.label_bit_cnt + (c + d), t.free_bits_L - (c + d), lead)
  <2>1. /\ r.L = InsertBits(t.L, 0, c + d, FALSE)
        /\ r.label_bit_cnt = t.label_bit_cnt + c /\ r.free_bits_L = t.free_bits_L - c
        /\ r.implicit_leading_label_cnt = lead
    <3>1. s.L = InsertBits(t.L, 0, c, FALSE) /\ r.L = InsertBits(s.L, 0, d, FALSE)
      BY <1>3 DEF LabelsAre
    <3>2. InsertBits(InsertBits(t.L, 0, c, FALSE), 0, d, FALSE) = InsertBits(t.L, 0, c + d, FALSE)
      <4>1. t.L \in [0 .. size - 1 -> BOOLEAN] /\ size \in Nat
        BY <1>1, <1>2
      <4>2. PICK a \in [0 .. size - 1 -> BOOLEAN] : a = t.L
        BY <4>1
      <4>3. Prepend(Prepend(a, c), d) = Prepend(a, c + d)
        BY <4>1, InsertTwice
      <4> QED
        BY <4>2, <4>3, Zenon DEF Prepend
    <3> QED
      BY <1>3, <3>1, <3>2 DEF LabelsAre
  <2>2. r.label_bit_cnt + d \in 0 .. Modulus - 1 /\ r.free_bits_L - d \in 0 .. Modulus - 1
    <3>1. PICK a \in Nat, b \in Nat : a = t.label_bit_cnt /\ b = t.free_bits_L
      BY <1>1
    <3>2. a + b <= Modulus - 1 /\ c + d <= b
      BY <1>1, <1>2, <1>3, <3>1
    <3>3. (a + c) + d \in 0 .. Modulus - 1 /\ (b - c) - d \in 0 .. Modulus - 1
      BY <1>2, <3>2
    <3> QED
      BY <2>1, <3>1, <3>3
  <2>3. IsTeb(r) /\ d \in Int
    BY <1>3 DEF SameTree
  <2>4. /\ SameTree(GrowL(r, d), r)
        /\ LabelsAre(GrowL(r, d), r.L, r.label_bit_cnt + d, r.free_bits_L - d,
                     r.implicit_leading_label_cnt)
    BY <2>2, <2>3, GrowLFields
  <2>5. SameTree(GrowL(r, d), t)
    BY <1>3, <2>4, SameTreeTwice
  <2>6. /\ (t.label_bit_cnt + c) + d = t.label_bit_cnt + (c + d)
        /\ (t.free_bits_L - c) - d = t.free_bits_L - (c + d)
    BY <1>1
  <2> QED
    BY <2>1, <2>4, <2>5, <2>6 DEF LabelsAre
<1>4. ASSUME NEW s, IsTeb(s), NEW size2 \in Nat, s.L \in [0 .. size2 - 1 -> BOOLEAN], NEW d \in Nat
      PROVE  /\ SameTree(insert_into_labels(s, 0, d, FALSE), s)
             /\ LabelsAre(insert_into_labels(s, 0, d, FALSE), InsertBits(s.L, 0, d, FALSE),
                          s.label_bit_cnt, s.free_bits_L, s.implicit_leading_label_cnt)
  <2>1. CASE d = 0
    <3>1. InsertBits(s.L, 0, 0, FALSE) = s.L
      <4>1. \A k \in 0 .. size2 - 1 : ~(k < 0) /\ ~(k < 0 + 0) /\ k - 0 = k
        OBVIOUS
      <4>2. InsertBits(s.L, 0, 0, FALSE) = [k \in 0 .. size2 - 1 |-> s.L[k]]
        BY <1>4, <4>1 DEF InsertBits
      <4> QED
        BY <1>4, <4>2
    <3>2. insert_into_labels(s, 0, d, FALSE) = s
      BY <2>1 DEF insert_into_labels
    <3> QED
      BY <1>4, <2>1, <3>1, <3>2 DEF SameTree, LabelsAre
  <2>2. CASE d # 0
    <3>1. insert_into_labels(s, 0, d, FALSE)
            = [s EXCEPT !.L = InsertBits(s.L, 0, d, FALSE),
                        !.faults = s.faults \cup InsertFaults(s.L, 0, d)]
      BY <2>2 DEF insert_into_labels
    <3> QED
      BY <1>4, <3>1, BitsFields
  <2> QED
    BY <2>1, <2>2
<1>5. ASSUME NEW s, IsTeb(s), NEW words \in Nat
      PROVE  /\ SameTree(prepend_words_L(s, words), s)
             /\ LabelsAre(prepend_words_L(s, words), InsertBits(s.L, 0, words * W, FALSE),
                          s.label_bit_cnt, s.free_bits_L, s.implicit_leading_label_cnt)
  <2>1. PICK faults : faults = s.faults \cup FaultIf(Words(s.label_bit_cnt) + words > Words(Capacity(s.L)), "assert")
    OBVIOUS
  <2>2. prepend_words_L(s, words)
          = [s EXCEPT !.L = InsertBits(s.L, 0, words * W, FALSE), !.faults = faults]
    BY <2>1 DEF prepend_words_L
  <2> QED
    BY <1>5, <2>2, BitsFields
<1>6. /\ SameTree(t, t)
      /\ LabelsAre(t, InsertBits(t.L, 0, 0, FALSE), t.label_bit_cnt + 0, t.free_bits_L - 0, lead)
  <2>1. \A k \in 0 .. size - 1 : ~(k < 0) /\ ~(k < 0 + 0) /\ k - 0 = k
    OBVIOUS
  <2>2. InsertBits(t.L, 0, 0, FALSE) = [k \in 0 .. size - 1 |-> t.L[k]]
    BY <1>1, <2>1 DEF InsertBits
  <2>3. InsertBits(t.L, 0, 0, FALSE) = t.L
    BY <1>1, <2>2
  <2>4. t.label_bit_cnt + 0 = t.label_bit_cnt /\ t.free_bits_L - 0 = t.free_bits_L
    BY <1>1
  <2> QED
    BY <2>3, <2>4 DEF SameTree, LabelsAre
<1> HIDE DEF lead
\* The first part
<1>7. ASSUME NEW d \in Nat, d <= cnt
      PROVE  /\ SameTree(GrowL(insert_into_labels(t, 0, d, FALSE), d), t)
             /\ LabelsAre(GrowL(insert_into_labels(t, 0, d, FALSE), d),
                          InsertBits(t.L, 0, d, FALSE), t.label_bit_cnt + d,
                          t.free_bits_L - d, lead)
  <2>1. /\ SameTree(insert_into_labels(t, 0, d, FALSE), t)
        /\ LabelsAre(insert_into_labels(t, 0, d, FALSE), InsertBits(t.L, 0, d, FALSE),
                     t.label_bit_cnt, t.free_bits_L, t.implicit_leading_label_cnt)
    BY <1>1, <1>2, <1>4
  <2> DEFINE r == insert_into_labels(t, 0, d, FALSE)
  <2>2. /\ SameTree(r, t)
        /\ LabelsAre(r, InsertBits(t.L, 0, d, FALSE), t.label_bit_cnt, t.free_bits_L,
                     t.implicit_leading_label_cnt)
    BY <2>1
  <2> HIDE DEF r
  <2>3. PICK c \in Nat : c = 0
    OBVIOUS
  <2>4. c + d = d /\ c + d <= cnt
    BY <1>7, <2>3
  <2>5. LabelsAre(t, InsertBits(t.L, 0, c, FALSE), t.label_bit_cnt + c, t.free_bits_L - c, lead)
    BY <1>6, <2>3
  <2>6. /\ SameTree(GrowL(r, d), t)
        /\ LabelsAre(GrowL(r, d), InsertBits(t.L, 0, c + d, FALSE),
                     t.label_bit_cnt + (c + d), t.free_bits_L - (c + d), lead)
    BY <1>3, <1>6, <2>2, <2>4, <2>5
  <2> QED
    BY <2>4, <2>6 DEF r
<1>8. CASE ~split
  <2>1. PrependLabels(t, cnt, split) = GrowL(insert_into_labels(t, 0, cnt, FALSE), cnt)
    BY <1>8 DEF PrependLabels
  <2> QED
    <3>1. cnt <= cnt
      OBVIOUS
    <3> QED
      BY <1>7, <2>1, <3>1, Zenon DEF lead
<1>9. CASE split
  <2>1. W \in Nat /\ W > 0
    BY BitArrayAssumption
  <2>2. cnt \div W \in Nat /\ cnt % W \in 0 .. W - 1 /\ cnt = W * (cnt \div W) + (cnt % W)
    BY <2>1, BlockOf
  <2>3. PICK q \in Nat, r \in Nat : q = cnt \div W /\ r = cnt % W
    BY <2>1, <2>2
  <2>4. PICK d \in Nat : d = W * q /\ d = q * W /\ r + d = cnt /\ r <= cnt
    <3>1. W * q \in Nat /\ W * q = q * W
      BY <2>1
    <3> QED
      BY <2>2, <2>3, <3>1
  <2> DEFINE s1 == GrowL(insert_into_labels(t, 0, r, FALSE), r)
             s2 == prepend_words_L(s1, q)
  <2>5. PrependLabels(t, cnt, split) = GrowL(s2, d)
    BY <1>9, <2>3, <2>4 DEF PrependLabels
  <2>6. /\ SameTree(s1, t)
        /\ LabelsAre(s1, InsertBits(t.L, 0, r, FALSE), t.label_bit_cnt + r,
                     t.free_bits_L - r, lead)
    BY <1>7, <2>4
  <2> HIDE DEF s1
  <2>7. /\ SameTree(s2, s1)
        /\ LabelsAre(s2, InsertBits(s1.L, 0, d, FALSE), s1.label_bit_cnt, s1.free_bits_L,
                     s1.implicit_leading_label_cnt)
    BY <1>5, <2>4, <2>6 DEF SameTree
  <2> HIDE DEF s2
  <2>8. /\ SameTree(GrowL(s2, d), t)
        /\ LabelsAre(GrowL(s2, d), InsertBits(t.L, 0, r + d, FALSE),
                     t.label_bit_cnt + (r + d), t.free_bits_L - (r + d), lead)
    <3>1. r + d <= cnt
      BY <2>4
    <3> QED
      BY <1>3, <2>6, <2>7, <3>1
  <2> QED
    BY <2>4, <2>5, <2>8 DEF lead
<1> QED
  BY <1>8, <1>9

\* A label that was only counted is stored: the answers stay.
LEMMA MadeExplicit ==
  ASSUME NEW t, IsTeb(t), LabelsKept(t), NEW idx \in Nat, ~(CostOfLabel(t, idx) > t.free_bits_L),
         NEW e, e = MakeLabelExplicit(t, idx)
  PROVE  /\ SameTree(e, t) /\ LabelsKept(e)
         /\ e.implicit_leading_label_cnt <= idx /\ idx < TrailingL(e)
         /\ TrailingL(e) = IF idx < TrailingL(t) THEN TrailingL(t) ELSE idx + 1
         /\ e.free_bits_L <= t.free_bits_L
         /\ \A k \in Nat : get_label_by_idx(e, k) <=> get_label_by_idx(t, k)
<1> DEFINE first == t.implicit_leading_label_cnt
           cnt   == t.label_bit_cnt
           free  == t.free_bits_L
           lead  == first - idx
           trail == idx - (TrailingL(t) - 1)
<1>1. PICK size \in 0 .. Modulus - 1 :
        /\ t.L \in [0 .. size - 1 -> BOOLEAN]
        /\ cnt \in Nat /\ free \in Nat /\ cnt + free = size
        /\ first \in 0 .. Modulus - 1
        /\ \A k \in cnt .. size - 1 : ~t.L[k]
  BY DEF LabelsKept
<1>0. Modulus \in Nat
  BY ModulusIsNat
<1> HIDE DEF first, cnt, free, lead, trail
<1>2. Modulus \in Nat /\ size \in Nat /\ first \in Nat
  BY <1>0, <1>1
<1>3. TrailingL(t) = first + cnt /\ lead \in Int /\ trail \in Int /\ trail = idx - (first + cnt - 1)
  <2>1. TrailingL(t) = first + cnt
    BY DEF TrailingL, first, cnt
  <2> QED
    BY <1>1, <1>2, <2>1 DEF lead, trail
<1>10. lead = first - idx
  BY DEF lead
<1>4. lead <= free /\ trail <= free
  <2>1. CostOfLabel(t, idx) = Greater(0, Greater(lead, trail)) /\ ~(CostOfLabel(t, idx) > free)
    BY DEF CostOfLabel, first, lead, trail, free
  <2> QED
    BY <1>1, <1>3, <2>1 DEF Greater
<1>5. \A k \in Nat : get_label_by_idx(t, k) <=> first <= k /\ k < first + cnt /\ t.L[k - first]
  <2>1. DOMAIN t.L = 0 .. size - 1
    BY <1>1
  <2>2. \A k \in Nat : first <= k /\ k < first + cnt => k - first \in 0 .. size - 1
    BY <1>1, <1>2
  <2> QED
    BY <1>3, <2>1, <2>2 DEF get_label_by_idx, Bit, first
<1>6. e = IF lead > 0 THEN LeadL(PrependLabels(t, lead, lead > W), -lead)
          ELSE IF trail > 0 THEN TrailL(GrowL(t, trail), -trail)
          ELSE t
  BY DEF MakeLabelExplicit, lead, trail, first
<1>7. CASE lead > 0
  <2>1. lead \in Nat /\ lead <= free /\ (lead > W) \in BOOLEAN
    BY <1>3, <1>4, <1>7
  <2> DEFINE s == PrependLabels(t, lead, lead > W)
             bits == Prepend(t.L, lead)
  <2>2. /\ SameTree(s, t)
        /\ LabelsAre(s, InsertBits(t.L, 0, lead, FALSE), cnt + lead, free - lead, first)
    <3>1. lead <= t.free_bits_L
      BY <2>1 DEF free
    <3> QED
      BY <1>7, <2>1, <3>1, PrependedLabels DEF cnt, free, first
  <2>3. LabelsAre(s, bits, cnt + lead, free - lead, first)
    BY <2>2 DEF Prepend
  <2> HIDE DEF s
  <2>4. s.implicit_leading_label_cnt + (-lead) = idx /\ idx \in 0 .. Modulus - 1 /\ -lead \in Int
    <3>1. s.implicit_leading_label_cnt = first
      BY <2>3 DEF LabelsAre
    <3>2. lead \in Int
      BY <1>3
    <3>3. first + (-lead) = idx /\ -lead \in Int
      BY <1>2, <1>10, <3>2
    <3>4. idx <= first
      BY <1>2, <1>7, <1>10
    <3>5. idx \in 0 .. Modulus - 1
      BY <1>1, <1>2, <3>4
    <3> QED
      BY <3>1, <3>3, <3>5
  <2>5. e = LeadL(s, -lead)
    BY <1>6, <1>7 DEF s
  <2>6. IsTeb(s)
    BY <2>2 DEF SameTree
  <2>7. /\ SameTree(e, s)
        /\ LabelsAre(e, s.L, s.label_bit_cnt, s.free_bits_L, idx)
    <3>1. s.implicit_leading_label_cnt + (-lead) \in 0 .. Modulus - 1
      BY <2>4
    <3>2. /\ SameTree(LeadL(s, -lead), s)
          /\ LabelsAre(LeadL(s, -lead), s.L, s.label_bit_cnt, s.free_bits_L,
                       s.implicit_leading_label_cnt + (-lead))
      BY <2>4, <2>6, <3>1, LeadLFields
    <3> QED
      BY <2>4, <2>5, <3>2
  <2>8. SameTree(e, t)
    BY <2>2, <2>7, SameTreeTwice
  <2>9. /\ e.L = bits /\ e.label_bit_cnt = cnt + lead /\ e.free_bits_L = free - lead
        /\ e.implicit_leading_label_cnt = idx
    BY <2>3, <2>7 DEF LabelsAre
  <2>10. bits = [k \in 0 .. size - 1 |-> IF k < lead THEN FALSE ELSE t.L[k - lead]]
    <3>1. \A k \in 0 .. size - 1 : ~(k < 0) /\ (k < 0 + lead <=> k < lead)
      BY <1>1, <2>1
    <3>2. DOMAIN t.L = 0 .. size - 1
      BY <1>1
    <3> QED
      BY <3>1, <3>2 DEF Prepend, InsertBits
  <2>11. bits \in [0 .. size - 1 -> BOOLEAN]
    <3>1. ASSUME NEW k \in 0 .. size - 1, ~(k < lead) PROVE t.L[k - lead] \in BOOLEAN
      <4>1. k - lead \in 0 .. size - 1
        BY <1>1, <1>2, <2>1, <3>1
      <4> QED
        BY <1>1, <4>1
    <3> HIDE DEF bits
    <3> QED
      BY <2>10, <3>1
  <2> HIDE DEF bits
  <2>12. ASSUME NEW k \in cnt + lead .. size - 1 PROVE ~bits[k]
    <3>1. k \in 0 .. size - 1 /\ ~(k < lead) /\ k - lead \in cnt .. size - 1
      BY <1>1, <1>2, <2>1, <2>12
    <3> QED
      BY <1>1, <2>10, <3>1
  <2>13. LabelsKept(e)
    <3>1. (cnt + lead) + (free - lead) = size /\ cnt + lead \in Nat /\ free - lead \in Nat
      BY <1>1, <2>1
    <3>2. idx \in 0 .. Modulus - 1
      BY <2>4
    <3> QED
      BY <1>1, <2>9, <2>11, <2>12, <3>1, <3>2 DEF LabelsKept
  <2>14. TrailingL(e) = first + cnt /\ idx < first + cnt /\ idx + lead = first
    <3>1. TrailingL(e) = idx + (cnt + lead)
      BY <2>9 DEF TrailingL
    <3>2. lead \in Nat /\ cnt \in Nat /\ first \in Nat
      BY <1>1, <1>2, <2>1
    <3>3. idx + lead = first
      BY <1>10, <3>2
    <3>4. idx + (cnt + lead) = first + cnt
      BY <3>2, <3>3
    <3>5. idx < first + cnt
      BY <1>7, <3>2, <3>3
    <3> QED
      BY <3>1, <3>3, <3>4, <3>5
  <2>15. ASSUME NEW k \in Nat
         PROVE  get_label_by_idx(e, k) <=> get_label_by_idx(t, k)
    <3>1. get_label_by_idx(e, k) <=> idx <= k /\ k < first + cnt /\ Bit(bits, k - idx)
      BY <2>9, <2>14 DEF get_label_by_idx
    <3>2. idx <= k /\ k < first + cnt => k - idx \in 0 .. size - 1
      BY <1>1, <1>2, <2>1, <2>14
    <3>3. idx <= k /\ k < first + cnt
            => (Bit(bits, k - idx) <=> ~(k - idx < lead) /\ t.L[(k - idx) - lead])
      BY <2>10, <3>2 DEF Bit
    <3>4. (k - idx) - lead = k - first /\ (~(k - idx < lead) <=> first <= k) /\ (first <= k => idx <= k)
      BY <1>2, <2>1, <2>14
    <3> QED
      BY <1>5, <3>1, <3>3, <3>4
  <2>16. e.free_bits_L <= t.free_bits_L
    <3>1. free - lead <= free
      BY <1>1, <2>1
    <3> QED
      BY <2>9, <3>1 DEF free
  <2> QED
    BY <1>3, <2>8, <2>9, <2>13, <2>14, <2>15, <2>16
<1>8. CASE ~(lead > 0) /\ trail > 0
  <2>1. trail \in Nat /\ trail <= free /\ first <= idx
    BY <1>2, <1>3, <1>4, <1>8, <1>10
  <2> DEFINE s == GrowL(t, trail)
  <2>2. /\ cnt + trail \in 0 .. Modulus - 1 /\ free - trail \in 0 .. Modulus - 1
        /\ trail \in Int /\ -trail \in Int
    BY <1>1, <1>2, <2>1
  <2>3. /\ SameTree(s, t)
        /\ LabelsAre(s, t.L, cnt + trail, free - trail, first)
    <3>1. t.label_bit_cnt + trail \in 0 .. Modulus - 1 /\ t.free_bits_L - trail \in 0 .. Modulus - 1
      BY <2>2 DEF cnt, free
    <3> QED
      BY <2>2, <3>1, GrowLFields DEF cnt, free, first
  <2> HIDE DEF s
  <2>4. e = TrailL(s, -trail)
    BY <1>6, <1>8 DEF s
  <2>5. IsTeb(s)
    BY <2>3 DEF SameTree
  <2>6. /\ SameTree(e, s)
        /\ LabelsAre(e, s.L, s.label_bit_cnt, s.free_bits_L, s.implicit_leading_label_cnt)
    BY <2>2, <2>4, <2>5, TrailLFields
  <2>7. SameTree(e, t)
    BY <2>3, <2>6, SameTreeTwice
  <2>8. /\ e.L = t.L /\ e.label_bit_cnt = cnt + trail /\ e.free_bits_L = free - trail
        /\ e.implicit_leading_label_cnt = first
    BY <2>3, <2>6 DEF LabelsAre
  <2>9. LabelsKept(e)
    <3>1. (cnt + trail) + (free - trail) = size /\ cnt + trail \in Nat /\ free - trail \in Nat
      BY <1>1, <2>1
    <3>2. \A k \in cnt + trail .. size - 1 : k \in cnt .. size - 1
      BY <1>1, <2>1
    <3> QED
      BY <1>1, <2>8, <3>1, <3>2 DEF LabelsKept
  <2>10. TrailingL(e) = idx + 1 /\ first + cnt <= idx
    <3>1. TrailingL(e) = first + (cnt + trail)
      BY <2>8 DEF TrailingL
    <3> QED
      BY <1>1, <1>2, <1>3, <1>8, <3>1
  <2>11. ASSUME NEW k \in Nat
         PROVE  get_label_by_idx(e, k) <=> get_label_by_idx(t, k)
    <3>1. get_label_by_idx(e, k) <=> first <= k /\ k < idx + 1 /\ Bit(t.L, k - first)
      BY <2>8, <2>10 DEF get_label_by_idx
    <3>6. idx + 1 - first <= size
      BY <1>1, <1>2, <1>3, <2>1
    <3>2. first <= k /\ k < idx + 1 => k - first \in 0 .. size - 1
      BY <1>2, <3>6
    <3>3. first <= k /\ k < idx + 1 /\ ~(k < first + cnt) => k - first \in cnt .. size - 1
      BY <1>1, <1>2, <3>2
    <3>4. k < first + cnt => k < idx + 1
      BY <1>1, <1>2, <2>10
    <3>5. DOMAIN t.L = 0 .. size - 1
      BY <1>1
    <3> QED
      BY <1>1, <1>5, <3>1, <3>2, <3>3, <3>4, <3>5 DEF Bit
  <2>12. idx < idx + 1
    OBVIOUS
  <2>13. e.free_bits_L <= t.free_bits_L
    <3>1. free - trail <= free
      BY <1>1, <2>1
    <3> QED
      BY <2>8, <3>1 DEF free
  <2>14. ~(idx < TrailingL(t))
    BY <1>1, <1>2, <1>3, <2>10
  <2> QED
    BY <2>1, <2>7, <2>8, <2>9, <2>10, <2>11, <2>12, <2>13, <2>14
<1>9. CASE ~(lead > 0) /\ ~(trail > 0)
  <2>1. e = t
    BY <1>6, <1>9
  <2>2. first <= idx /\ idx < first + cnt
    BY <1>1, <1>2, <1>3, <1>9, <1>10
  <2>3. SameTree(t, t)
    BY DEF SameTree
  <2>4. e.free_bits_L <= t.free_bits_L
    BY <1>1, <2>1 DEF free
  <2> QED
    BY <1>3, <2>1, <2>2, <2>3, <2>4 DEF first
<1> QED
  BY <1>7, <1>8, <1>9

\* A label is written: its answer changes, and no other.
LEMMA LabelWritten ==
  ASSUME NEW t, IsTeb(t), LabelsKept(t), NEW idx \in Nat, ~(CostOfLabel(t, idx) > t.free_bits_L),
         NEW val \in BOOLEAN,
         NEW e, e = MakeLabelExplicit(t, idx),
         NEW s, s = set_label_bit(e, idx - e.implicit_leading_label_cnt, val)
  PROVE  /\ SameTree(s, t) /\ LabelsKept(s) /\ s.free_bits_L <= t.free_bits_L
         /\ TrailingL(s) = IF idx < TrailingL(t) THEN TrailingL(t) ELSE idx + 1
         /\ \A k \in Nat : get_label_by_idx(s, k) <=> IF k = idx THEN val
                                                      ELSE get_label_by_idx(t, k)
<1> DEFINE first == e.implicit_leading_label_cnt
           cnt   == e.label_bit_cnt
           bits  == e.L
           i     == idx - first
<1>1. /\ SameTree(e, t) /\ LabelsKept(e)
      /\ first <= idx /\ idx < TrailingL(e) /\ e.free_bits_L <= t.free_bits_L
      /\ TrailingL(e) = IF idx < TrailingL(t) THEN TrailingL(t) ELSE idx + 1
      /\ \A k \in Nat : get_label_by_idx(e, k) <=> get_label_by_idx(t, k)
  BY MadeExplicit
<1>2. Modulus \in Nat
  BY ModulusIsNat
<1>3. PICK size \in 0 .. Modulus - 1 :
        /\ bits \in [0 .. size - 1 -> BOOLEAN]
        /\ cnt \in Nat /\ e.free_bits_L \in Nat /\ cnt + e.free_bits_L = size
        /\ first \in 0 .. Modulus - 1
        /\ \A k \in cnt .. size - 1 : ~bits[k]
  BY <1>1 DEF LabelsKept
<1>4. TrailingL(e) = first + cnt
  BY DEF TrailingL
<1>5. DOMAIN bits = 0 .. size - 1
  BY <1>3
<1>6. s = [e EXCEPT !.L = SetBit(bits, i, val), !.faults = e.faults \cup WriteFaults(bits, i)]
  BY DEF set_label_bit
<1>7. i = idx - first
  OBVIOUS
<1>8. IsTeb(e)
  BY <1>1 DEF SameTree
<1> HIDE DEF i, bits, first, cnt
<1>9. /\ SameTree(s, e)
      /\ LabelsAre(s, SetBit(bits, i, val), cnt, e.free_bits_L, first)
  BY <1>6, <1>8, BitsFields DEF cnt, first
<1>10. SameTree(s, t)
  BY <1>1, <1>9, SameTreeTwice
<1>11. SetBit(bits, i, val) = [k \in 0 .. size - 1 |-> IF k = i THEN val ELSE bits[k]]
  BY <1>5 DEF SetBit
<1> DEFINE new == [k \in 0 .. size - 1 |-> IF k = i THEN val ELSE bits[k]]
<1>12. /\ s.L = new /\ s.label_bit_cnt = cnt /\ s.free_bits_L = e.free_bits_L
       /\ s.implicit_leading_label_cnt = first
  BY <1>9, <1>11 DEF LabelsAre
<1>13. new \in [0 .. size - 1 -> BOOLEAN]
  BY <1>3
<1>14. \A k \in 0 .. size - 1 : new[k] = IF k = i THEN val ELSE bits[k]
  OBVIOUS
<1>15. DOMAIN new = 0 .. size - 1
  OBVIOUS
<1> HIDE DEF new
<1>16. i \in Nat /\ i < cnt /\ first \in Nat /\ size \in Nat /\ cnt <= size
  BY <1>1, <1>2, <1>3, <1>4, <1>7
<1>17. LabelsKept(s)
  <2>1. ASSUME NEW k \in cnt .. size - 1 PROVE ~new[k]
    <3>1. k \in 0 .. size - 1 /\ k # i
      BY <1>3, <1>16
    <3> QED
      BY <1>3, <1>14, <3>1
  <2> QED
    BY <1>3, <1>12, <1>13, <2>1 DEF LabelsKept
<1>18. ASSUME NEW k \in Nat
       PROVE  get_label_by_idx(s, k) <=> IF k = idx THEN val ELSE get_label_by_idx(t, k)
  <2>1. get_label_by_idx(s, k) <=> first <= k /\ k < first + cnt /\ Bit(new, k - first)
    BY <1>12 DEF get_label_by_idx, TrailingL
  <2>2. get_label_by_idx(e, k) <=> first <= k /\ k < first + cnt /\ Bit(bits, k - first)
    BY <1>4 DEF get_label_by_idx, first, bits
  <2>3. first <= k /\ k < first + cnt => k - first \in 0 .. size - 1 /\ (k - first = i <=> k = idx)
    BY <1>3, <1>7, <1>16
  <2>4. first <= idx /\ idx < first + cnt
    BY <1>1, <1>4 DEF first
  <2>5. CASE first <= k /\ k < first + cnt
    <3>1. Bit(new, k - first) <=> IF k = idx THEN val ELSE bits[k - first]
      BY <1>14, <1>15, <2>3, <2>5 DEF Bit
    <3>2. Bit(bits, k - first) <=> bits[k - first]
      BY <1>5, <2>3, <2>5 DEF Bit
    <3> QED
      BY <1>1, <2>1, <2>2, <2>5, <3>1, <3>2
  <2>6. CASE ~(first <= k /\ k < first + cnt)
    <3>1. k # idx
      BY <2>4, <2>6
    <3> QED
      BY <1>1, <2>1, <2>2, <2>6, <3>1
  <2> QED
    BY <2>5, <2>6
<1>19. s.free_bits_L <= t.free_bits_L
  BY <1>1, <1>12
<1>20. TrailingL(s) = TrailingL(e)
  BY <1>4, <1>12 DEF TrailingL
<1> QED
  BY <1>1, <1>10, <1>17, <1>18, <1>19, <1>20

\* What is done to the other counters and to the bits leaves the count of trailing
\* labels alone.
LEMMA BitsKeepTrail ==
  ASSUME NEW t, IsTeb(t), NEW c
  PROVE  /\ IsTeb(GrowL(t, c))
         /\ GrowL(t, c).implicit_trailing_label_cnt = t.implicit_trailing_label_cnt
         /\ IsTeb(LeadL(t, c))
         /\ LeadL(t, c).implicit_trailing_label_cnt = t.implicit_trailing_label_cnt
         /\ IsTeb(prepend_words_L(t, c))
         /\ prepend_words_L(t, c).implicit_trailing_label_cnt = t.implicit_trailing_label_cnt
         /\ IsTeb(insert_into_labels(t, 0, c, FALSE))
         /\ insert_into_labels(t, 0, c, FALSE).implicit_trailing_label_cnt
              = t.implicit_trailing_label_cnt
         /\ TrailL(t, c).implicit_trailing_label_cnt = U(t.implicit_trailing_label_cnt + c)
<1>1. "implicit_trailing_label_cnt" \in DOMAIN t
  BY DEF IsTeb, TebFields, LabelFields
<1>2. /\ DOMAIN GrowL(t, c) = DOMAIN t
      /\ GrowL(t, c).implicit_trailing_label_cnt = t.implicit_trailing_label_cnt
  BY <1>1 DEF GrowL
<1>3. /\ DOMAIN LeadL(t, c) = DOMAIN t
      /\ LeadL(t, c).implicit_trailing_label_cnt = t.implicit_trailing_label_cnt
  BY <1>1 DEF LeadL
<1>4. /\ DOMAIN prepend_words_L(t, c) = DOMAIN t
      /\ prepend_words_L(t, c).implicit_trailing_label_cnt = t.implicit_trailing_label_cnt
  BY <1>1 DEF prepend_words_L
<1>5. /\ DOMAIN insert_into_labels(t, 0, c, FALSE) = DOMAIN t
      /\ insert_into_labels(t, 0, c, FALSE).implicit_trailing_label_cnt
           = t.implicit_trailing_label_cnt
  BY <1>1 DEF insert_into_labels
<1>6. TrailL(t, c).implicit_trailing_label_cnt = U(t.implicit_trailing_label_cnt + c)
  BY <1>1 DEF TrailL
<1> QED
  BY <1>2, <1>3, <1>4, <1>5, <1>6 DEF IsTeb

\* A label that is stored is no longer counted, so that the number of labels stays.
LEMMA LabelsStayCounted ==
  ASSUME NEW t, IsTeb(t), LabelsKept(t), NEW idx \in Nat, ~(CostOfLabel(t, idx) > t.free_bits_L),
         t.implicit_trailing_label_cnt \in 0 .. Modulus - 1, idx < LabelCnt(t),
         NEW val \in BOOLEAN,
         NEW e, e = MakeLabelExplicit(t, idx),
         NEW s, s = set_label_bit(e, idx - e.implicit_leading_label_cnt, val)
  PROVE  s.implicit_trailing_label_cnt \in 0 .. Modulus - 1 /\ LabelCnt(s) = LabelCnt(t)
<1> DEFINE first == t.implicit_leading_label_cnt
           last  == TrailingL(t)
           cnt   == t.implicit_trailing_label_cnt
           lead  == first - idx
           trail == idx - (last - 1)
<1>1. Modulus \in Nat
  BY ModulusIsNat
<1>2. first \in Nat /\ last \in Nat /\ first <= last
  <2>1. first \in 0 .. Modulus - 1 /\ t.label_bit_cnt \in Nat
    BY DEF LabelsKept
  <2>2. last = first + t.label_bit_cnt
    BY DEF TrailingL
  <2> HIDE DEF first, last
  <2> QED
    BY <1>1, <2>1, <2>2
<1>3. cnt \in 0 .. Modulus - 1 /\ LabelCnt(t) = last + cnt
  BY DEF LabelCnt
<1>4. e = IF lead > 0 THEN LeadL(PrependLabels(t, lead, lead > W), -lead)
          ELSE IF trail > 0 THEN TrailL(GrowL(t, trail), -trail)
          ELSE t
  BY DEF MakeLabelExplicit
<1>5. IsTeb(e)
  BY MadeExplicit DEF SameTree
<1>6. s.implicit_trailing_label_cnt = e.implicit_trailing_label_cnt
  <2>1. "implicit_trailing_label_cnt" \in DOMAIN e
    BY <1>5 DEF IsTeb, TebFields, LabelFields
  <2> QED
    BY <2>1 DEF set_label_bit
<1>7. TrailingL(s) = IF idx < last THEN last ELSE idx + 1
  BY LabelWritten, SMTT(30)
<1>8. LabelCnt(s) = TrailingL(s) + s.implicit_trailing_label_cnt
  BY DEF LabelCnt
<1>9. trail = idx - (last - 1) /\ lead = first - idx
  OBVIOUS
<1> HIDE DEF first, last, cnt, lead, trail
<1>10. e.implicit_trailing_label_cnt = IF trail > 0 /\ ~(lead > 0) THEN U(cnt + (-trail)) ELSE cnt
  <2>1. CASE lead > 0
    <3>1. PICK split : split = (lead > W)
      OBVIOUS
    <3>2. /\ IsTeb(PrependLabels(t, lead, split))
          /\ PrependLabels(t, lead, split).implicit_trailing_label_cnt = cnt
      <4>1. CASE split
        <5>1. PICK before : before = insert_into_labels(t, 0, lead % W, FALSE)
          OBVIOUS
        <5>2. PICK bits : bits = GrowL(before, lead % W)
          OBVIOUS
        <5>3. PrependLabels(t, lead, split)
                = GrowL(prepend_words_L(bits, lead \div W), W * (lead \div W))
          BY <4>1, <5>1, <5>2, Zenon DEF PrependLabels
        <5>4. IsTeb(before) /\ before.implicit_trailing_label_cnt = cnt
          BY <5>1, BitsKeepTrail, Zenon DEF cnt
        <5>5. IsTeb(bits) /\ bits.implicit_trailing_label_cnt = cnt
          BY <5>2, <5>4, BitsKeepTrail, Zenon
        <5>6. PICK moved : moved = prepend_words_L(bits, lead \div W)
          OBVIOUS
        <5>7. IsTeb(moved) /\ moved.implicit_trailing_label_cnt = cnt
          BY <5>5, <5>6, BitsKeepTrail, Zenon
        <5>8. PICK after : after = GrowL(moved, W * (lead \div W))
          OBVIOUS
        <5>9. IsTeb(after) /\ after.implicit_trailing_label_cnt = cnt
          BY <5>7, <5>8, BitsKeepTrail, Zenon
        <5>10. PrependLabels(t, lead, split) = after
          BY <5>3, <5>6, <5>8
        <5> QED
          BY <5>9, <5>10
      <4>2. CASE ~split
        <5>1. PICK before : before = insert_into_labels(t, 0, lead, FALSE)
          OBVIOUS
        <5>2. PrependLabels(t, lead, split) = GrowL(before, lead)
          BY <4>2, <5>1, Zenon DEF PrependLabels
        <5>3. IsTeb(before) /\ before.implicit_trailing_label_cnt = cnt
          BY <5>1, BitsKeepTrail, Zenon DEF cnt
        <5>4. PICK after : after = GrowL(before, lead)
          OBVIOUS
        <5>5. IsTeb(after) /\ after.implicit_trailing_label_cnt = cnt
          BY <5>3, <5>4, BitsKeepTrail, Zenon
        <5> QED
          BY <5>2, <5>4, <5>5
      <4> QED
        BY <4>1, <4>2
    <3>3. e = LeadL(PrependLabels(t, lead, split), -lead)
      BY <1>4, <2>1, <3>1, Zenon
    <3>4. PICK before, x : before = PrependLabels(t, lead, split) /\ x = -lead
      OBVIOUS
    <3>5. IsTeb(before) /\ before.implicit_trailing_label_cnt = cnt /\ e = LeadL(before, x)
      BY <3>2, <3>3, <3>4, Zenon
    <3>6. LeadL(before, x).implicit_trailing_label_cnt = cnt
      BY <3>5, BitsKeepTrail, Zenon
    <3> QED
      BY <2>1, <3>5, <3>6
  <2>2. CASE ~(lead > 0) /\ trail > 0
    <3>1. PICK grown : grown = GrowL(t, trail)
      OBVIOUS
    <3>2. e = TrailL(grown, -trail)
      BY <1>4, <2>2, <3>1
    <3>3. IsTeb(grown) /\ grown.implicit_trailing_label_cnt = cnt
      BY <3>1, BitsKeepTrail, Zenon DEF cnt
    <3>4. PICK x : x = -trail
      OBVIOUS
    <3>5. TrailL(grown, x).implicit_trailing_label_cnt = U(cnt + x)
      BY <3>3, BitsKeepTrail, Zenon
    <3> QED
      BY <2>2, <3>2, <3>4, <3>5
  <2>3. CASE ~(lead > 0) /\ ~(trail > 0)
    BY <1>4, <2>3 DEF cnt
  <2> QED
    BY <2>1, <2>2, <2>3
<1>11. CASE idx < last
  <2>1. ~(trail > 0)
    BY <1>2, <1>9, <1>11
  <2> QED
    BY <1>3, <1>6, <1>7, <1>8, <1>10, <1>11, <2>1
<1>12. CASE ~(idx < last)
  <2>1. trail > 0 /\ ~(lead > 0) /\ trail \in Nat /\ last + trail = idx + 1 /\ trail <= cnt
    BY <1>1, <1>2, <1>3, <1>9, <1>12
  <2>2. cnt + (-trail) \in 0 .. Modulus - 1
    BY <1>1, <1>3, <2>1
  <2>3. s.implicit_trailing_label_cnt = cnt + (-trail)
    BY <1>6, <1>10, <2>1, <2>2, NoWrap
  <2>4. (idx + 1) + (cnt + (-trail)) = last + cnt
    BY <1>1, <1>2, <1>3, <2>1
  <2> QED
    BY <1>3, <1>7, <1>8, <1>12, <2>2, <2>3, <2>4
<1> QED
  BY <1>11, <1>12

-----------------------------------------------------------------------------
\* T and the counters of nodes are those of a tree of which the nodes E are stored,
\* and the leaves from end on are only counted.
NodesKept(t, tree, end, E) ==
  /\ end \in Nat /\ \A v \in tree.inner : v < end
  /\ E = {v \in tree.active : t.implicit_inner_node_cnt <= v /\ v < end}
  /\ t.T = Stored(E, tree.inner)
  /\ t.tree_bit_cnt = IF Cardinality(E) = 0 THEN 1 ELSE Cardinality(E)
  /\ t.free_bits_T = U(W * Words(Cardinality(E)) - t.tree_bit_cnt)
  /\ t.implicit_trailing_leaf_cnt = Cardinality({v \in tree.active \ tree.inner : v >= end})

\* The offsets of a level count the active nodes and the leaves above it.
LevelsKept(t, tree) ==
  \A l \in t.perfect_level_cnt .. h :
    /\ t.level_offsets_tree[l] = Rank(tree.active, first_node_idx_at_level(l))
    /\ t.level_offsets_labels[l]
         = Rank(tree.active \ tree.inner, first_node_idx_at_level(l))

\* Each leaf has a label, stored or counted.
LabelsCounted(t, tree) ==
  /\ t.implicit_trailing_label_cnt \in 0 .. Modulus - 1
  /\ LabelCnt(t) = Cardinality(tree.active \ tree.inner)

Shaped(t, tree) ==
  /\ \E end, E : NodesKept(t, tree, end, E)
  /\ LevelsKept(t, tree) /\ LabelsCounted(t, tree)

\* What a TEB is between the calls of its client: it encodes a tree, its counters,
\* labels and level offsets are in order, and the mutable tree can be made from it,
\* if it is not a single leaf.
InOrder(t, tree) ==
  /\ Encodes(t, tree)
  /\ IsTeb(t) /\ LabelsKept(t) /\ Shaped(t, tree)
  /\ t.level_offsets_tree[h] = Rank(tree.active, first_node_idx_at_level(h))
  /\ t.tree_bit_cnt \in Nat \ {0}
  /\ t.implicit_inner_node_cnt \in 0 .. n - 1
  /\ 0 .. t.implicit_inner_node_cnt - 1 \subseteq tree.inner
  /\ t.implicit_inner_node_cnt \notin tree.inner

\* With the label of a leaf written, the TEB encodes the tree with that label.
LEMMA WrittenEncodes ==
  ASSUME NEW t, NEW tree, InOrder(t, tree), NEW v \in tree.active \ tree.inner,
         NEW val \in BOOLEAN, NEW s, SameTree(s, t), LabelsKept(s),
         s.implicit_trailing_label_cnt \in 0 .. Modulus - 1, LabelCnt(s) = LabelCnt(t),
         \A k \in Nat : get_label_by_idx(s, k)
                          <=> IF k = Rank(tree.active \ tree.inner, v) THEN val
                              ELSE get_label_by_idx(t, k)
  PROVE  InOrder(s, SetLabel(tree, v, val))
<1> DEFINE new    == SetLabel(tree, v, val)
           leaves == tree.active \ tree.inner
<1>1. Encodes(t, tree) /\ IsTree(tree)
  BY DEF InOrder, Encodes
<1>2. /\ DOMAIN tree = {"inner", "active", "labels", "perfect"}
      /\ tree.labels \subseteq Nodes /\ v \in Nodes
      /\ leaves \subseteq Nat /\ IsFiniteSet(leaves)
  BY <1>1, ActiveNodes DEF IsTree
<1>3. /\ new = [tree EXCEPT !.labels = IF val THEN @ \cup {v} ELSE @ \ {v}]
      /\ new.inner = tree.inner /\ new.active = tree.active /\ new.perfect = tree.perfect
      /\ new.labels = IF val THEN tree.labels \cup {v} ELSE tree.labels \ {v}
  BY <1>2 DEF SetLabel
<1>4. IsTree(new)
  <2>1. new.labels \subseteq Nodes
    BY <1>2, <1>3
  <2>2. new \in [inner : SUBSET (0 .. n - 2), active : SUBSET Nodes,
                 labels : SUBSET Nodes, perfect : 1 .. h + 1]
    <3>1. tree \in [inner : SUBSET (0 .. n - 2), active : SUBSET Nodes,
                    labels : SUBSET Nodes, perfect : 1 .. h + 1]
      BY <1>1 DEF IsTree
    <3>2. (IF val THEN tree.labels \cup {v} ELSE tree.labels \ {v}) \in SUBSET Nodes
      BY <1>2
    <3> HIDE DEF new
    <3> QED
      BY <1>3, <3>1, <3>2
  <2> HIDE DEF new
  <2> QED
    BY <1>1, <1>3, <2>2 DEF IsTree
<1> HIDE DEF new
<1>5. /\ s.T = t.T /\ s.tree_bit_cnt = t.tree_bit_cnt /\ s.free_bits_T = t.free_bits_T
      /\ s.implicit_inner_node_cnt = t.implicit_inner_node_cnt
      /\ s.implicit_trailing_leaf_cnt = t.implicit_trailing_leaf_cnt
      /\ s.perfect_level_cnt = t.perfect_level_cnt
      /\ s.level_offsets_tree = t.level_offsets_tree
      /\ s.level_offsets_labels = t.level_offsets_labels
      /\ IsTeb(s)
  BY DEF SameTree, TreePart
<1>6. \A k : is_inner_node(s, k) <=> is_inner_node(t, k)
  BY <1>5 DEF is_inner_node, TrailingT
<1>7. \A k : rank_inclusive(s, k) = rank_inclusive(t, k)
  BY <1>5 DEF rank_inclusive
<1>8. ASSUME NEW u \in leaves
      PROVE  get_label_by_idx(s, Rank(leaves, u)) <=> u \in new.labels
  <2>1. Rank(leaves, u) \in Nat
    BY <1>2, RankType
  <2>2. Rank(leaves, u) = Rank(leaves, v) => u = v
    BY <1>2, RankInjective
  <2>3. get_label_by_idx(t, Rank(leaves, u)) <=> u \in tree.labels
    BY <1>1 DEF Encodes
  <2> HIDE DEF leaves
  <2>4. get_label_by_idx(s, Rank(leaves, u))
          <=> IF Rank(leaves, u) = Rank(leaves, v) THEN val
              ELSE get_label_by_idx(t, Rank(leaves, u))
    BY <2>1 DEF leaves
  <2> QED
    BY <1>3, <2>2, <2>3, <2>4
<1>9. Encodes(s, new)
  BY <1>1, <1>3, <1>4, <1>5, <1>6, <1>7, <1>8 DEF Encodes
<1>10. Shaped(s, new)
  <2>1. Shaped(t, tree)
    BY DEF InOrder
  <2>2. PICK end, E : NodesKept(t, tree, end, E)
    BY <2>1 DEF Shaped
  <2>3. NodesKept(s, new, end, E)
    BY <1>3, <1>5, <2>2 DEF NodesKept
  <2>4. LevelsKept(s, new)
    BY <1>3, <1>5, <2>1 DEF Shaped, LevelsKept
  <2>5. LabelsCounted(s, new)
    BY <1>3, <2>1 DEF Shaped, LabelsCounted
  <2> QED
    BY <2>3, <2>4, <2>5 DEF Shaped
<1> QED
  BY <1>3, <1>5, <1>9, <1>10 DEF InOrder, new

\* No access outside the arrays so far, and less than a word of L free, as after
\* building: the labels that are stored in one go are then less than a word.
Faultless(t) == t.faults = {} /\ t.free_bits_L < W

\* What is done to a counter only adds no fault.
LEMMA CountersKeepFaults ==
  ASSUME NEW t, "faults" \in DOMAIN t, NEW c
  PROVE  /\ GrowL(t, c).faults = t.faults /\ LeadL(t, c).faults = t.faults
         /\ TrailL(t, c).faults = t.faults
  BY DEF GrowL, LeadL, TrailL

\* A TEB has a record of its faults.
LEMMA TebHasFaults ==
  ASSUME NEW t, IsTeb(t)
  PROVE  "faults" \in DOMAIN t
  BY DEF IsTeb, TebFields, LabelFields

\* A label is written without a shift by a word or more, and inside L.
LEMMA WrittenFaultless ==
  ASSUME NEW t, IsTeb(t), LabelsKept(t), Faultless(t), NEW idx \in Nat,
         ~(CostOfLabel(t, idx) > t.free_bits_L), NEW val \in BOOLEAN,
         NEW e, e = MakeLabelExplicit(t, idx),
         NEW s, s = set_label_bit(e, idx - e.implicit_leading_label_cnt, val)
  PROVE  Faultless(s)
<1> DEFINE first == t.implicit_leading_label_cnt
           cnt   == t.label_bit_cnt
           free  == t.free_bits_L
           lead  == first - idx
           trail == idx - (TrailingL(t) - 1)
<1>0. Modulus \in Nat
  BY ModulusIsNat
<1>1. PICK size \in Nat :
        /\ t.L \in [0 .. size - 1 -> BOOLEAN] /\ first \in Nat
        /\ cnt \in Nat /\ free \in Nat /\ cnt + free = size
  <2>1. PICK size \in 0 .. Modulus - 1 :
        /\ t.L \in [0 .. size - 1 -> BOOLEAN]
        /\ cnt \in Nat /\ free \in Nat /\ cnt + free = size
        /\ first \in 0 .. Modulus - 1
    BY DEF LabelsKept
  <2> HIDE DEF first, cnt, free
  <2> QED
    BY <1>0, <2>1
<1>2. W \in Nat /\ W > 1 /\ free < W /\ t.faults = {}
  BY BitArrayAssumption DEF Faultless
<1>3. /\ SameTree(e, t) /\ LabelsKept(e)
      /\ e.implicit_leading_label_cnt <= idx /\ idx < TrailingL(e)
  BY MadeExplicit
<1>4. s.free_bits_L <= t.free_bits_L /\ LabelsKept(s)
  BY LabelWritten, SMTT(30)
<1>5. "faults" \in DOMAIN t /\ "faults" \in DOMAIN e
  BY <1>3, TebHasFaults DEF SameTree
<1>6. lead <= free /\ lead \in Int
  <2>1. CostOfLabel(t, idx) = Greater(0, Greater(lead, trail)) /\ ~(CostOfLabel(t, idx) > free)
    BY DEF CostOfLabel
  <2>2. TrailingL(t) = first + cnt
    BY DEF TrailingL
  <2>3. lead \in Int /\ trail \in Int
    BY <1>1, <2>2
  <2> HIDE DEF lead, trail, free, first, cnt
  <2> QED
    BY <1>1, <2>1, <2>3 DEF Greater
<1>7. e = IF lead > 0 THEN LeadL(PrependLabels(t, lead, lead > W), -lead)
          ELSE IF trail > 0 THEN TrailL(GrowL(t, trail), -trail)
          ELSE t
  BY DEF MakeLabelExplicit
<1> HIDE DEF lead, trail, first, cnt, free
<1>8. e.faults = {}
  <2>1. CASE lead > 0
    <3> DEFINE r == insert_into_labels(t, 0, lead, FALSE)
    <3>1. ~(lead > W) /\ lead # 0 /\ ~(lead >= W) /\ size > 0
      BY <1>1, <1>2, <1>6, <2>1
    <3>2. PrependLabels(t, lead, lead > W) = GrowL(r, lead)
      BY <3>1 DEF PrependLabels
    <3>3. DOMAIN t.L # {}
      <4>1. 0 \in 0 .. size - 1
        BY <1>1, <3>1
      <4> QED
        BY <1>1, <4>1
    <3>4. InsertFaults(t.L, 0, lead) = {}
      <4>1. 0 % W = 0
        BY <1>2
      <4>2. ~((0 % W) + lead >= W)
        BY <1>6, <3>1, <4>1
      <4> QED
        BY <3>1, <3>3, <4>2 DEF InsertFaults, FaultIf
    <3>5. r = [t EXCEPT !.L = InsertBits(t.L, 0, lead, FALSE),
                        !.faults = t.faults \cup InsertFaults(t.L, 0, lead)]
      BY <3>1 DEF insert_into_labels
    <3>6. "faults" \in DOMAIN r /\ r.faults = {}
      BY <1>2, <1>5, <3>4, <3>5
    <3> HIDE DEF r
    <3>7. GrowL(r, lead).faults = {} /\ "faults" \in DOMAIN GrowL(r, lead)
      BY <3>6, CountersKeepFaults DEF GrowL
    <3> QED
      BY <1>7, <2>1, <3>2, <3>7, CountersKeepFaults
  <2>2. CASE ~(lead > 0) /\ trail > 0
    <3>1. GrowL(t, trail).faults = {} /\ "faults" \in DOMAIN GrowL(t, trail)
      BY <1>2, <1>5, CountersKeepFaults DEF GrowL
    <3> QED
      BY <1>7, <2>2, <3>1, CountersKeepFaults
  <2>3. CASE ~(lead > 0) /\ ~(trail > 0)
    BY <1>2, <1>7, <2>3
  <2> QED
    BY <2>1, <2>2, <2>3
<1>9. WriteFaults(e.L, idx - e.implicit_leading_label_cnt) = {}
  <2>1. PICK k \in Nat, all \in Nat :
          /\ e.L \in [0 .. all - 1 -> BOOLEAN] /\ e.implicit_leading_label_cnt \in Nat
          /\ k = idx - e.implicit_leading_label_cnt /\ k < all
    <3> DEFINE b == e.implicit_leading_label_cnt
               c == e.label_bit_cnt
               f == e.free_bits_L
    <3>1. PICK all \in 0 .. Modulus - 1 :
            /\ e.L \in [0 .. all - 1 -> BOOLEAN]
            /\ c \in Nat /\ f \in Nat /\ c + f = all
            /\ b \in 0 .. Modulus - 1
      BY <1>3 DEF LabelsKept
    <3>2. TrailingL(e) = b + c
      BY DEF TrailingL
    <3>3. b <= idx /\ idx < b + c
      BY <1>3, <3>2
    <3> HIDE DEF b, c, f
    <3>4. idx - b \in Nat /\ idx - b < all /\ all \in Nat /\ b \in Nat
      BY <1>0, <3>1, <3>3
    <3> QED
      BY <3>1, <3>4 DEF b
  <2>2. k \in 0 .. all - 1
    BY <2>1
  <2>3. DOMAIN e.L # {} /\ k \in DOMAIN e.L
    BY <2>1, <2>2
  <2> QED
    BY <2>1, <2>3 DEF WriteFaults, FaultIf
<1>10. s.faults = {}
  <2>1. s = [e EXCEPT !.L = SetBit(e.L, idx - e.implicit_leading_label_cnt, val),
                      !.faults = e.faults \cup WriteFaults(e.L, idx - e.implicit_leading_label_cnt)]
    BY DEF set_label_bit
  <2> QED
    BY <1>5, <1>8, <1>9, <2>1
<1>11. s.free_bits_L \in Nat
  BY <1>4 DEF LabelsKept
<1> QED
  BY <1>1, <1>2, <1>4, <1>10, <1>11 DEF Faultless, free

\* Words hold what they are made for, and less than a word more.
LEMMA WordsFit ==
  ASSUME NEW cnt \in Nat
  PROVE  /\ W * Words(cnt) \in Nat
         /\ cnt <= W * Words(cnt) /\ W * Words(cnt) <= cnt + W - 1
<1>1. W \in Nat /\ W > 1
  BY BitArrayAssumption
<1>2. PICK i \in Nat : i = cnt + W - 1
  BY <1>1
<1>3. /\ i \div W \in Nat /\ i % W \in 0 .. W - 1 /\ W * (i \div W) \in Nat
      /\ i = W * (i \div W) + (i % W)
  BY <1>1, BlockOf
<1>4. W * Words(cnt) = W * (i \div W)
  BY <1>2 DEF Words
<1>5. PICK size \in Nat : size = W * (i \div W)
  BY <1>3
<1>6. cnt <= size /\ size <= cnt + W - 1
  BY <1>1, <1>2, <1>3, <1>5
<1> QED
  BY <1>4, <1>5, <1>6

\* No tree has more nodes than the perfect one.
LEMMA NodesFit ==
  ASSUME NEW S, S \subseteq Nodes
  PROVE  IsFiniteSet(S) /\ Cardinality(S) \in Nat /\ Cardinality(S) <= 2 * n - 1
<1>1. n \in Nat /\ n > 0
  BY Height
<1>2. 0 \in Int /\ 2 * n - 2 \in Int
  BY <1>1
<1>3. IsFiniteSet(Nodes) /\ Cardinality(Nodes) = 2 * n - 1
  <2>1. /\ IsFiniteSet(0 .. 2 * n - 2)
        /\ Cardinality(0 .. 2 * n - 2) = IF 0 > 2 * n - 2 THEN 0 ELSE (2 * n - 2) - 0 + 1
    BY <1>2, FS_Interval
  <2> QED
    BY <1>1, <2>1 DEF Nodes
<1>4. S \in SUBSET Nodes
  OBVIOUS
<1>5. IsFiniteSet(S) /\ Cardinality(S) <= Cardinality(Nodes) /\ Cardinality(S) \in Nat
  BY <1>3, <1>4, FS_Subset, FS_CardinalityType
<1> QED
  BY <1>3, <1>5

\* The labels of the leaves S, some of which are ones: those before the first one,
\* those from there to the last, and those behind
InParts(S, ones, X, lead, trail) ==
  /\ X = IF ones = {} THEN {} ELSE {u \in S : Min(ones) <= u /\ u <= Max(ones)}
  /\ lead = Cardinality({u \in S : ones = {} \/ u < Min(ones)})
  /\ trail = IF ones = {} THEN 0 ELSE Cardinality({u \in S : u > Max(ones)})

AllCounted(S, X, lead, trail) ==
  /\ lead \in Nat /\ Cardinality(X) \in Nat /\ trail \in Nat
  /\ lead + Cardinality(X) + trail = Cardinality(S)

\* No label is left out.
LEMMA LabelParts ==
  ASSUME NEW S, S \subseteq Nodes, NEW ones, ones \subseteq S,
         NEW X, NEW lead, NEW trail, InParts(S, ones, X, lead, trail)
  PROVE  AllCounted(S, X, lead, trail)
<1>1. PICK m \in Nat : /\ S \subseteq 0 .. m /\ IsFiniteSet(S)
                       /\ S \subseteq Nat /\ Cardinality(S) \in Nat
  <2>1. 2 * n - 2 \in Nat /\ S \subseteq 0 .. 2 * n - 2
    BY Height DEF Nodes
  <2>2. PICK m \in Nat : m = 2 * n - 2 /\ S \subseteq 0 .. m
    BY <2>1
  <2>3. S \subseteq Nat
    BY <2>2
  <2>4. IsFiniteSet(S) /\ Cardinality(S) \in Nat
    BY NodesFit
  <2> QED
    BY <2>2, <2>3, <2>4
<1>2. CASE ones = {}
  <2>1. lead = Cardinality(S)
    <3>1. {u \in S : ones = {} \/ u < Min(ones)} = S
      BY <1>2
    <3> QED
      BY <3>1 DEF InParts
  <2>2. X = {} /\ trail = 0
    BY <1>2 DEF InParts
  <2>3. Cardinality(X) = 0
    BY <2>2, FS_EmptySet
  <2> QED
    BY <1>1, <2>1, <2>2, <2>3 DEF AllCounted
<1>3. CASE ones # {}
  <2>1. PICK a \in ones : a = Min(ones) /\ \A y \in ones : a <= y
    BY <1>1, <1>3, MinOf
  <2>2. PICK z \in ones : z = Max(ones) /\ \A y \in ones : y <= z
    <3>1. ones \subseteq 0 .. m
      BY <1>1
    <3> QED
      BY <1>3, <3>1, MaxOf
  <2>3. PICK next \in Nat, top \in Nat : /\ next = z + 1 /\ top = m + 1
                                        /\ a \in Nat /\ a <= next /\ next <= top
    <3>1. a \in Nat /\ z \in 0 .. m /\ a <= z
      BY <1>1, <2>1, <2>2
    <3> QED
      BY <3>1
  <2>4. lead = Rank(S, a)
    <3>1. {u \in S : ones = {} \/ u < Min(ones)} = {u \in S : u < a}
      BY <1>3, <2>1
    <3> QED
      BY <3>1 DEF Rank, InParts
  <2>5. X = Within(S, a, next)
    <3>1. X = {u \in S : a <= u /\ u <= z}
      BY <1>3, <2>1, <2>2 DEF InParts
    <3>2. \A u \in S : u <= z <=> u < next
      BY <1>1, <2>3
    <3> QED
      BY <3>1, <3>2 DEF Within
  <2>6. trail = Cardinality(Within(S, next, top))
    <3>1. \A u \in S : u > z <=> next <= u /\ u < top
      BY <1>1, <2>3
    <3>2. {u \in S : u > Max(ones)} = Within(S, next, top)
      BY <2>2, <3>1 DEF Within
    <3> QED
      BY <1>3, <3>2 DEF InParts
  <2>7. Cardinality(X) \in Nat /\ Rank(S, next) = Rank(S, a) + Cardinality(X)
    <3>1. /\ Cardinality(Within(S, a, next)) \in Nat
          /\ Rank(S, next) = Rank(S, a) + Cardinality(Within(S, a, next))
      BY <1>1, <2>3, RankWithin, Zenon
    <3> QED
      BY <2>5, <3>1, Zenon
  <2>8. trail \in Nat /\ Rank(S, top) = Rank(S, next) + trail
    <3>1. /\ Cardinality(Within(S, next, top)) \in Nat
          /\ Rank(S, top) = Rank(S, next) + Cardinality(Within(S, next, top))
      BY <1>1, <2>3, RankWithin, Zenon
    <3> QED
      BY <2>6, <3>1, Zenon
  <2>9. Rank(S, top) = Cardinality(S)
    <3>1. \A u \in S : u < top
      BY <1>1, <2>3
    <3>2. {u \in S : u < top} = S
      BY <3>1
    <3> QED
      BY <3>2 DEF Rank
  <2>10. Rank(S, a) \in Nat
    BY <1>1, RankType
  <2> QED
    BY <2>4, <2>7, <2>8, <2>9, <2>10 DEF AllCounted
<1> QED
  BY <1>2, <1>3

\* The fields of a TEB that bookkeeping is about
LEMMA ToTebRecord ==
  ASSUME NEW tree
  PROVE  LET t == ToTeb(tree)
         IN  /\ IsTeb(t)
             /\ t.free_bits_L = U(W * Words(t.label_bit_cnt) - t.label_bit_cnt)
             /\ t.faults = {}
             /\ \A l \in 0 .. h :
                  /\ t.level_offsets_tree[l]
                       = IF l < t.perfect_level_cnt THEN first_node_idx_at_level(l)
                         ELSE Rank(tree.active, first_node_idx_at_level(l))
                  /\ t.level_offsets_labels[l]
                       = IF l < t.perfect_level_cnt THEN 0
                         ELSE Rank(tree.active \ tree.inner, first_node_idx_at_level(l))
<1> DEFINE c == CountersOf(tree.active, tree.active \ tree.inner,
                           (tree.active \ tree.inner) \cap tree.labels)
           perfect == perfect_level_cnt(c)
           inPerfect == [l \in 0 .. h |-> first_node_idx_at_level(l)]
           none == [l \in 0 .. h |-> 0]
           t == ToTeb(tree)
<1>1. t = SerializeTree(c)
  BY Zenon DEF ToTeb
<1>2. c.active = tree.active /\ c.leaves = tree.active \ tree.inner
  BY DEF CountersOf
<1> HIDE DEF c
<1>3. /\ IsTeb(t)
      /\ t.label_bit_cnt = Cardinality(c.explicit_labels)
      /\ t.free_bits_L = U(W * Words(t.label_bit_cnt) - t.label_bit_cnt)
      /\ t.faults = {}
      /\ t.perfect_level_cnt = perfect
      /\ t.level_offsets_tree = LevelOffsets(c.active, perfect, inPerfect)
      /\ t.level_offsets_labels = LevelOffsets(c.leaves, perfect, none)
  <2>1. /\ SerializeTree(c).label_bit_cnt = Cardinality(c.explicit_labels)
        /\ SerializeTree(c).free_bits_L
             = U(W * Words(Cardinality(c.explicit_labels)) - Cardinality(c.explicit_labels))
        /\ SerializeTree(c).perfect_level_cnt = perfect /\ SerializeTree(c).faults = {}
    BY DEF SerializeTree
  <2>2. /\ SerializeTree(c).level_offsets_tree = LevelOffsets(c.active, perfect, inPerfect)
        /\ SerializeTree(c).level_offsets_labels = LevelOffsets(c.leaves, perfect, none)
    BY DEF SerializeTree
  <2>3. TebFields \subseteq DOMAIN SerializeTree(c)
    BY DEF SerializeTree, TebFields, LabelFields
  <2> HIDE DEF t
  <2> QED
    BY <1>1, <2>1, <2>2, <2>3 DEF IsTeb
<1> HIDE DEF t, perfect
<1>4. ASSUME NEW l \in 0 .. h
      PROVE  /\ t.level_offsets_tree[l]
                  = IF l < perfect THEN first_node_idx_at_level(l)
                    ELSE Rank(tree.active, first_node_idx_at_level(l))
             /\ t.level_offsets_labels[l]
                  = IF l < perfect THEN 0
                    ELSE Rank(tree.active \ tree.inner, first_node_idx_at_level(l))
  <2>1. \A S : Cardinality({v \in S : v < first_node_idx_at_level(l)})
                 = Rank(S, first_node_idx_at_level(l))
    BY DEF Rank
  <2>2. t.level_offsets_tree[l]
          = IF l < perfect THEN first_node_idx_at_level(l)
            ELSE Cardinality({v \in tree.active : v < first_node_idx_at_level(l)})
    BY <1>2, <1>3 DEF LevelOffsets
  <2>3. t.level_offsets_labels[l]
          = IF l < perfect THEN 0
            ELSE Cardinality({v \in tree.active \ tree.inner : v < first_node_idx_at_level(l)})
    BY <1>2, <1>3 DEF LevelOffsets
  <2> QED
    BY <2>1, <2>2, <2>3
<1> QED
  BY <1>3, <1>4 DEF t

\* What is stored and counted of a tree that was just encoded
LEMMA ToTebShaped ==
  ASSUME NEW tree, IsTree(tree)
  PROVE  Shaped(ToTeb(tree), tree)
<1> DEFINE t      == ToTeb(tree)
           leaves == tree.active \ tree.inner
           ones   == leaves \cap tree.labels
<1>1. PICK end, E, X : StoredAs(t, tree, end, E, X)
  BY ToTebFields
<1>2. t.perfect_level_cnt \in 1 .. h + 1
  BY ToTebEncodes DEF Encodes
<1>3. \A l \in 0 .. h :
        /\ t.level_offsets_tree[l]
             = IF l < t.perfect_level_cnt THEN first_node_idx_at_level(l)
               ELSE Rank(tree.active, first_node_idx_at_level(l))
        /\ t.level_offsets_labels[l]
             = IF l < t.perfect_level_cnt THEN 0
               ELSE Rank(leaves, first_node_idx_at_level(l))
  BY ToTebRecord
<1> HIDE DEF t
<1>4. NodesKept(t, tree, end, E)
  BY <1>1, Zenon DEF StoredAs, NodesKept
<1>5. LevelsKept(t, tree)
  <2>1. \A l \in t.perfect_level_cnt .. h : l \in 0 .. h /\ ~(l < t.perfect_level_cnt)
    BY <1>2, Height
  <2> QED
    BY <1>3, <2>1 DEF LevelsKept
<1>6. LabelsCounted(t, tree)
  <2>1. /\ t.label_bit_cnt = Cardinality(X)
        /\ InParts(leaves, ones, X, t.implicit_leading_label_cnt, t.implicit_trailing_label_cnt)
    BY <1>1, Zenon DEF StoredAs, InParts
  <2>2. leaves \subseteq Nodes /\ IsFiniteSet(leaves) /\ ones \subseteq leaves
    BY ActiveNodes
  <2>3. Cardinality(leaves) \in Nat /\ Cardinality(leaves) <= 2 * n - 1
    BY <2>2, NodesFit
  <2> HIDE DEF leaves, ones
  <2>4. PICK lead, trail : lead = t.implicit_leading_label_cnt
                           /\ trail = t.implicit_trailing_label_cnt
    OBVIOUS
  <2>5. InParts(leaves, ones, X, lead, trail)
    BY <2>1, <2>4
  <2>6. /\ lead \in Nat /\ Cardinality(X) \in Nat /\ trail \in Nat
        /\ lead + Cardinality(X) + trail = Cardinality(leaves)
    <3>1. AllCounted(leaves, X, lead, trail)
      BY <2>2, <2>5, LabelParts, Zenon
    <3> QED
      BY <3>1 DEF AllCounted
  <2>7. Modulus \in Nat /\ W \in Nat /\ n \in Nat /\ 2 * n + W <= Modulus
    BY ModulusIsNat, BitArrayAssumption, Height, CountersAssumption
  <2>8. t.implicit_trailing_label_cnt \in 0 .. Modulus - 1
    BY <2>3, <2>4, <2>6, <2>7
  <2>9. LabelCnt(t) = Cardinality(leaves)
    BY <2>1, <2>4, <2>6 DEF LabelCnt, TrailingL
  <2> QED
    BY <2>8, <2>9 DEF LabelsCounted, leaves
<1>7. Shaped(t, tree)
  BY <1>4, <1>5, <1>6 DEF Shaped
<1> QED
  BY <1>7 DEF t

\* The TEB made of a tree is in order, and less than a word of L is free.
LEMMA ToTebInOrder ==
  ASSUME NEW tree, IsTree(tree)
  PROVE  InOrder(ToTeb(tree), tree) /\ Faultless(ToTeb(tree))
<1> DEFINE t      == ToTeb(tree)
           leaves == tree.active \ tree.inner
           ones   == leaves \cap tree.labels
           cnt    == t.label_bit_cnt
           size   == W * Words(cnt)
<1>1. Encodes(t, tree)
  BY ToTebEncodes
<1>2. /\ IsTeb(t) /\ t.free_bits_L = U(size - cnt) /\ t.faults = {}
      /\ t.level_offsets_tree[h] = IF h < t.perfect_level_cnt THEN first_node_idx_at_level(h)
                                   ELSE Rank(tree.active, first_node_idx_at_level(h))
  <2>1. h \in 0 .. h
    BY Height
  <2> QED
    BY <2>1, ToTebRecord
<1>3. /\ t.implicit_inner_node_cnt \in 0 .. n - 1 /\ t.tree_bit_cnt \in Nat \ {0}
      /\ 0 .. t.implicit_inner_node_cnt - 1 \subseteq tree.inner
      /\ t.implicit_inner_node_cnt \notin tree.inner
  BY ToTebOpens
<1>4. PICK end, E, X : StoredAs(t, tree, end, E, X)
  BY ToTebFields
<1>5. leaves \subseteq Nodes
  BY ActiveNodes
<1> HIDE DEF t
<1>6. /\ X = IF ones = {} THEN {}
             ELSE {u \in leaves : Min(ones) <= u /\ u <= Max(ones)}
      /\ t.implicit_leading_label_cnt
           = Cardinality({u \in leaves : ones = {} \/ u < Min(ones)})
      /\ cnt = Cardinality(X)
      /\ t.L = Stored(X, ones)
  BY <1>4, Zenon DEF StoredAs
<1> HIDE DEF ones, leaves
<1>7. X \subseteq Nodes /\ {u \in leaves : ones = {} \/ u < Min(ones)} \subseteq Nodes
  BY <1>5, <1>6
<1>8. cnt \in Nat /\ cnt <= 2 * n - 1
  BY <1>6, <1>7, NodesFit
<1>9. t.implicit_leading_label_cnt \in Nat /\ t.implicit_leading_label_cnt <= 2 * n - 1
  <2>1. PICK S : S = {u \in leaves : ones = {} \/ u < Min(ones)}
    OBVIOUS
  <2> QED
    BY <1>6, <1>7, <2>1, NodesFit
<1> HIDE DEF cnt
<1>10. size \in Nat /\ cnt <= size /\ size <= cnt + W - 1
  BY <1>8, WordsFit
<1>11. t.L = [k \in 0 .. size - 1 |-> k < cnt /\ Nth(X, k) \in ones]
  BY <1>6 DEF Stored, Array
<1> HIDE DEF size
<1>12. /\ Modulus \in Nat /\ n \in Nat /\ W \in Nat /\ size \in 0 .. Modulus - 1
       /\ t.implicit_leading_label_cnt \in 0 .. Modulus - 1
  <2>1. Modulus \in Nat
    BY ModulusIsNat
  <2>2. W \in Nat /\ W > 1
    BY BitArrayAssumption
  <2> QED
    BY <1>8, <1>9, <1>10, <2>1, <2>2, Height, CountersAssumption
<1>13. t.free_bits_L = size - cnt /\ size - cnt \in Nat
  <2>1. size - cnt \in 0 .. Modulus - 1
    BY <1>8, <1>10, <1>12
  <2>2. PICK x \in 0 .. Modulus - 1 : x = size - cnt
    BY <2>1
  <2> QED
    BY <1>2, <2>1, <2>2, NoWrap
<1>14. LabelsKept(t)
  <2>1. t.L \in [0 .. size - 1 -> BOOLEAN]
    BY <1>11
  <2>2. \A k \in cnt .. size - 1 : ~t.L[k]
    <3>1. \A k \in cnt .. size - 1 : k \in 0 .. size - 1 /\ ~(k < cnt)
      BY <1>8, <1>10
    <3> QED
      BY <1>11, <3>1
  <2>3. cnt + (size - cnt) = size
    BY <1>8, <1>10
  <2> QED
    BY <1>8, <1>12, <1>13, <2>1, <2>2, <2>3 DEF LabelsKept, cnt
<1>15. t.level_offsets_tree[h] = Rank(tree.active, first_node_idx_at_level(h))
  <2>1. /\ t.perfect_level_cnt \in 1 .. h + 1
        /\ 0 .. first_node_idx_at_level(t.perfect_level_cnt - 1) - 1 \subseteq tree.inner
    BY <1>1 DEF Encodes
  <2>2. CASE h < t.perfect_level_cnt
    <3>1. t.perfect_level_cnt - 1 = h
      BY <2>1, <2>2, Height
    <3>2. 0 .. first_node_idx_at_level(h) - 1 \subseteq tree.active /\ tree.active \subseteq Nat
      BY <2>1, <3>1, ActiveNodes
    <3>3. first_node_idx_at_level(h) \in Nat
      BY Height DEF first_node_idx_at_level, n
    <3> QED
      BY <1>2, <2>2, <3>2, <3>3, RankOfFull
  <2>3. CASE ~(h < t.perfect_level_cnt)
    BY <1>2, <2>3
  <2> QED
    BY <2>2, <2>3
<1>16. InOrder(t, tree)
  <2>1. Shaped(t, tree)
    BY ToTebShaped DEF t
  <2> QED
    BY <1>1, <1>2, <1>3, <1>14, <1>15, <2>1 DEF InOrder
<1>17. Faultless(t)
  <2>1. W \in Nat
    BY BitArrayAssumption
  <2>2. size - cnt < W
    BY <1>8, <1>10, <2>1
  <2> QED
    BY <1>2, <1>13, <2>2 DEF Faultless
<1> QED
  BY <1>16, <1>17 DEF t

\* Only the leaves of the lowest level have numbers from its offset on.
LEMMA OwnLeafIsLowest ==
  ASSUME NEW t, NEW tree, InOrder(t, tree), NEW p \in Slots, NEW e, Ends(tree, p, e),
         HasOwnLeaf(t, Rank(tree.active, NodeAbove(p, e)))
  PROVE  e = h
<1> DEFINE v     == NodeAbove(p, e)
           first == first_node_idx_at_level(h)
<1>1. h \in Nat /\ e \in 0 .. h /\ e \in 0 .. e /\ h \in 0 .. h
  BY Height DEF Ends
<1>2. IsTree(tree)
  BY DEF InOrder, Encodes
<1>3. v \in tree.active /\ tree.active \subseteq Nat /\ IsFiniteSet(tree.active)
  BY <1>1, <1>2, PathIsActive, ActiveNodes
<1>4. Rank(tree.active, first) <= Rank(tree.active, v)
  BY DEF InOrder, HasOwnLeaf
<1>5. first \in Nat
  BY <1>1, Height DEF first_node_idx_at_level, n
<1>6. e < h => v < first
  <2>1. SUFFICES ASSUME e < h PROVE v < first
    OBVIOUS
  <2>2. v \in Nat /\ v < 2 * 2^e - 1
    BY <1>1, PathNode
  <2>3. 2^(e + 1) <= 2^h /\ 2^(e + 1) = 2 * 2^e /\ 2^e \in Nat /\ 2^h \in Nat
    BY <1>1, <2>1, PowerOrder, PowerStep, PowerOfTwo
  <2> HIDE DEF v
  <2> QED
    BY <2>2, <2>3 DEF first_node_idx_at_level
<1>7. v < first => Rank(tree.active, v) < Rank(tree.active, first)
  BY <1>3, <1>5, RankOrder
<1>8. Rank(tree.active, v) \in Nat /\ Rank(tree.active, first) \in Nat
  BY <1>3, RankType
<1> HIDE DEF v, first
<1>9. ~(v < first)
  BY <1>4, <1>7, <1>8
<1> QED
  BY <1>1, <1>6, <1>9

\* The label of such a leaf
LEMMA OwnLabel ==
  ASSUME NEW t, NEW tree, InOrder(t, tree),
         NEW p \in Pos, NEW node, node = Descend(t, p).node, HasOwnLeaf(t, node)
  PROVE  /\ Ends(tree, p, h) /\ NodeAbove(p, h) \in tree.active \ tree.inner
         /\ get_label_idx(t, node) = Rank(tree.active \ tree.inner, NodeAbove(p, h))
         /\ get_label_idx(t, node) \in Nat
<1> DEFINE v      == NodeAbove(p, h)
           leaves == tree.active \ tree.inner
           idx    == get_label_idx(t, node)
<1>1. Encodes(t, tree) /\ IsTree(tree) /\ IsTeb(t) /\ LabelsKept(t)
  BY DEF InOrder, Encodes
<1>2. p \in Slots /\ Pos \subseteq Slots
  BY PosAreSlots
<1>3. PICK e \in 0 .. h : Ends(tree, p, e) /\ node = Rank(tree.active, NodeAbove(p, e))
  BY <1>1, <1>2, EncodedWalk
<1>4. e = h
  BY <1>2, <1>3, OwnLeafIsLowest
<1>5. h \in Nat /\ h \in 0 .. h /\ ~(h < h)
  BY Height
<1>6. v \in leaves
  BY <1>1, <1>2, <1>3, <1>4, <1>5, PathIsActive DEF Ends
<1>7. idx = Rank(leaves, v) /\ idx \in Nat
  <2>1. rank_inclusive(t, Rank(tree.active, v)) = Rank(tree.inner, v + 1)
    BY <1>1, <1>6 DEF Encodes
  <2>2. idx = Rank(leaves, v)
    BY <1>1, <1>3, <1>4, <1>6, <2>1, RankOfLeaf DEF get_label_idx
  <2>3. Rank(leaves, v) \in Nat
    BY <1>1, ActiveNodes, RankType
  <2> QED
    BY <2>2, <2>3
<1> QED
  BY <1>3, <1>4, <1>6, <1>7

\* An update in place, of a slot that has a leaf of its own
LEMMA LowestUpdated ==
  ASSUME NEW t, NEW tree, InOrder(t, tree), SkippedArePerfect(tree),
         NEW p \in Pos, NEW node, node = Descend(t, p).node, HasOwnLeaf(t, node),
         ~(CostOfLabel(t, get_label_idx(t, node)) > t.free_bits_L),
         NEW val \in BOOLEAN, NEW s, s = update_lowest(t, node, val).teb
  PROVE  /\ InOrder(s, SetLabel(tree, NodeAbove(p, h), val))
         /\ \A q \in Pos : test(s, q) = IF q = p THEN val ELSE test(t, q)
<1> DEFINE v      == NodeAbove(p, h)
           leaves == tree.active \ tree.inner
           idx    == get_label_idx(t, node)
           new    == SetLabel(tree, v, val)
<1>1. Encodes(t, tree) /\ IsTree(tree) /\ IsTeb(t) /\ LabelsKept(t)
  BY DEF InOrder, Encodes
<1>2. p \in Slots /\ Pos \subseteq Slots
  BY PosAreSlots
<1>3. Ends(tree, p, h) /\ v \in leaves /\ idx = Rank(leaves, v) /\ idx \in Nat
  BY OwnLabel
<1>5. h \in Nat /\ h \in 0 .. h /\ ~(h < h)
  BY Height
<1>6. v \in leaves
  BY <1>3
<1>7. idx = Rank(leaves, v) /\ idx \in Nat
  BY <1>3
<1>8. PICK made : made = MakeLabelExplicit(t, idx)
  OBVIOUS
<1>9. s = set_label_bit(made, idx - made.implicit_leading_label_cnt, val)
  <2>1. update_lowest(t, node, val)
          = IF CostOfLabel(t, idx) > t.free_bits_L THEN Declined(t)
            ELSE Done(set_label_bit(made, idx - made.implicit_leading_label_cnt, val))
    BY <1>8, Zenon DEF update_lowest
  <2>2. ~(CostOfLabel(t, idx) > t.free_bits_L)
    OBVIOUS
  <2> HIDE DEF idx
  <2> QED
    BY <2>1, <2>2 DEF Done
<1>10. /\ SameTree(s, t) /\ LabelsKept(s)
       /\ s.implicit_trailing_label_cnt \in 0 .. Modulus - 1 /\ LabelCnt(s) = LabelCnt(t)
       /\ \A k \in Nat : get_label_by_idx(s, k) <=> IF k = idx THEN val
                                                    ELSE get_label_by_idx(t, k)
  <2>1. ~(CostOfLabel(t, idx) > t.free_bits_L)
    OBVIOUS
  <2>2. idx \in Nat
    BY <1>7
  <2>3. t.implicit_trailing_label_cnt \in 0 .. Modulus - 1 /\ LabelCnt(t) = Cardinality(leaves)
    BY DEF InOrder, Shaped, LabelsCounted
  <2>4. leaves \subseteq Nat /\ IsFiniteSet(leaves)
    BY <1>1, ActiveNodes
  <2> HIDE DEF leaves
  <2>5. idx < LabelCnt(t)
    BY <1>7, <1>6, <2>3, <2>4, RankBelow
  <2> HIDE DEF idx, v, new
  <2>6. /\ SameTree(s, t) /\ LabelsKept(s)
        /\ \A k \in Nat : get_label_by_idx(s, k) <=> IF k = idx THEN val
                                                     ELSE get_label_by_idx(t, k)
    <3>1. PICK i \in Nat : i = idx
      BY <2>2
    <3>2. /\ IsTeb(t) /\ LabelsKept(t) /\ ~(CostOfLabel(t, i) > t.free_bits_L)
          /\ made = MakeLabelExplicit(t, i)
          /\ s = set_label_bit(made, i - made.implicit_leading_label_cnt, val)
      BY <1>1, <1>8, <1>9, <2>1, <3>1, Zenon
    <3>3. /\ SameTree(s, t) /\ LabelsKept(s)
          /\ \A k \in Nat : get_label_by_idx(s, k) <=> IF k = i THEN val
                                                       ELSE get_label_by_idx(t, k)
      BY <3>2, LabelWritten, SMTT(30)
    <3> QED
      BY <3>1, <3>3, Zenon
  <2>7. s.implicit_trailing_label_cnt \in 0 .. Modulus - 1 /\ LabelCnt(s) = LabelCnt(t)
    <3>1. PICK i \in Nat : i = idx
      BY <2>2
    <3>2. /\ IsTeb(t) /\ LabelsKept(t) /\ ~(CostOfLabel(t, i) > t.free_bits_L)
          /\ t.implicit_trailing_label_cnt \in 0 .. Modulus - 1 /\ i < LabelCnt(t)
          /\ made = MakeLabelExplicit(t, i)
          /\ s = set_label_bit(made, i - made.implicit_leading_label_cnt, val)
      BY <1>1, <1>8, <1>9, <2>1, <2>3, <2>5, <3>1, Zenon
    <3> QED
      BY <3>2, LabelsStayCounted, SMTT(30)
  <2> QED
    BY <2>6, <2>7
<1>11. InOrder(s, new)
  <2> HIDE DEF idx, v
  <2> QED
    BY <1>6, <1>7, <1>10, WrittenEncodes
<1>12. /\ new.inner = tree.inner
       /\ new.labels = IF val THEN tree.labels \cup {v} ELSE tree.labels \ {v}
  <2>1. DOMAIN tree = {"inner", "active", "labels", "perfect"}
    BY <1>1 DEF IsTree
  <2> QED
    BY <2>1 DEF SetLabel
<1> HIDE DEF new, idx
<1>13. ASSUME NEW q \in Pos
       PROVE  test(s, q) = IF q = p THEN val ELSE test(t, q)
  <2>1. q \in Slots
    BY <1>2
  <2>2. PICK d \in 0 .. h : Ends(tree, q, d)
    BY <1>1, <2>1, EncodedWalk
  <2>3. Ends(new, q, d) /\ Encodes(s, new)
    BY <1>11, <1>12, <2>2 DEF Ends, InOrder
  <2>4. test(t, q) <=> NodeAbove(q, d) \in tree.labels
    BY <1>1, <2>1, <2>2, EncodedTest
  <2>5. test(s, q) <=> NodeAbove(q, d) \in new.labels
    BY <2>1, <2>3, EncodedTest
  <2>6. NodeAbove(q, d) = v <=> q = p
    <3>1. ASSUME NodeAbove(q, d) = v PROVE q = p
      <4>1. d = h
        BY <1>2, <1>5, <2>1, <2>2, <3>1, PathLevel
      <4>2. NodeAbove(q, h) = n - 1 + q /\ NodeAbove(p, h) = n - 1 + p
        BY <1>2, <2>1, PathEnd
      <4>3. n \in Nat /\ q \in Nat /\ p \in Nat
        BY <1>2, <2>1, Height DEF Slots
      <4> QED
        BY <3>1, <4>1, <4>2, <4>3
    <3>2. ASSUME q = p PROVE d = h
      <4>1. (NodeAbove(p, d) \in tree.inner <=> d < h) /\ (NodeAbove(p, d) \in tree.inner <=> d < d)
        BY <1>3, <2>2, <3>2 DEF Ends
      <4> QED
        BY <1>5, <4>1
    <3> QED
      BY <3>1, <3>2
  <2>7. test(s, q) \in BOOLEAN /\ test(t, q) \in BOOLEAN
    BY DEF test, get_label, get_label_by_idx
  <2> QED
    BY <1>12, <2>4, <2>5, <2>6, <2>7
<1> QED
  BY <1>11, <1>13 DEF new

\* update() as the diff in front of a TEB calls it: it answers 0 where the view of
\* both has the value already; else it flips the bit of the TEB and no other, with
\* answer 1, or leaves the TEB as it is and answers 2.
THEOREM UpdateFlipsOneBit ==
  ASSUME NEW t, NEW tree, InOrder(t, tree), SkippedArePerfect(tree),
         NEW p \in Pos, NEW val \in BOOLEAN, NEW diff_val \in BOOLEAN,
         NEW answer, answer = update(t, p, val, "hybrid", diff_val)
  PROVE  \/ /\ answer.res = 0 /\ (test(t, p) # diff_val) = val
            /\ answer.teb = t
         \/ /\ answer.res = 1 /\ (test(t, p) # diff_val) # val
            /\ \A q \in Pos : test(answer.teb, q) = IF q = p THEN ~test(t, p)
                                                    ELSE test(t, q)
            /\ \E after : InOrder(answer.teb, after) /\ SkippedArePerfect(after)
         \/ /\ answer.res = 2 /\ (test(t, p) # diff_val) # val
            /\ answer.teb = t
<1> DEFINE node   == Descend(t, p).node
           stored == get_label(t, node)
           cost   == CostOfLabel(t, get_label_idx(t, node))
<1>1. stored = test(t, p) /\ stored \in BOOLEAN
  BY DEF test, get_label, get_label_by_idx
<1>2. answer = IF (stored # diff_val) = val THEN NoChange(t)
               ELSE IF HasOwnLeaf(t, node) THEN update_lowest(t, node, ~stored)
               ELSE Declined(t)
  BY Zenon DEF update
<1>3. update_lowest(t, node, ~stored)
        = IF cost > t.free_bits_L THEN Declined(t)
          ELSE Done(set_label_bit(MakeLabelExplicit(t, get_label_idx(t, node)),
                                  get_label_idx(t, node)
                                    - MakeLabelExplicit(t, get_label_idx(t, node)).implicit_leading_label_cnt,
                                  ~stored))
  BY Zenon DEF update_lowest
<1> HIDE DEF stored
<1>4. CASE (stored # diff_val) = val
  <2>1. answer.res = 0 /\ answer.teb = t
    BY <1>2, <1>4 DEF NoChange
  <2> QED
    BY <1>1, <1>4, <2>1
<1>5. CASE (stored # diff_val) # val /\ (~HasOwnLeaf(t, node) \/ cost > t.free_bits_L)
  <2>1. answer = Declined(t)
    BY <1>2, <1>3, <1>5
  <2>2. answer.res = 2 /\ answer.teb = t
    BY <2>1 DEF Declined
  <2> QED
    BY <1>1, <1>5, <2>2
<1>6. CASE (stored # diff_val) # val /\ HasOwnLeaf(t, node) /\ ~(cost > t.free_bits_L)
  <2>1. answer = update_lowest(t, node, ~stored) /\ answer.res = 1
    BY <1>2, <1>3, <1>6 DEF Done
  <2>2. PICK flipped \in BOOLEAN : flipped = ~stored
    OBVIOUS
  <2>3. answer = update_lowest(t, node, flipped)
    BY <2>1, <2>2
  <2> HIDE DEF node
  <2>4. /\ InOrder(answer.teb, SetLabel(tree, NodeAbove(p, h), flipped))
        /\ \A q \in Pos : test(answer.teb, q) = IF q = p THEN flipped ELSE test(t, q)
    BY <1>6, <2>3, LowestUpdated DEF node
  <2>5. SkippedArePerfect(SetLabel(tree, NodeAbove(p, h), flipped))
    <3>1. DOMAIN tree = {"inner", "active", "labels", "perfect"}
      BY DEF InOrder, Encodes, IsTree
    <3> QED
      BY <3>1 DEF SkippedArePerfect, SetLabel
  <2> QED
    BY <1>1, <1>6, <2>1, <2>2, <2>4, <2>5
<1> QED
  BY <1>4, <1>5, <1>6

-----------------------------------------------------------------------------
\* The shape of a TEB

\* The nodes of a tree are as many as the children of the inner nodes, and the root.
LEMMA NodeCounts ==
  ASSUME NEW tree, IsTree(tree)
  PROVE  /\ Cardinality(tree.inner) \in 0 .. n - 1
         /\ Cardinality(tree.active) = 2 * Cardinality(tree.inner) + 1
         /\ Cardinality(tree.active \ tree.inner) = Cardinality(tree.inner) + 1
<1> DEFINE leaves == tree.active \ tree.inner
<1>1. n \in Nat /\ n > 0 /\ n - 1 \in Nat /\ 2 * (n - 1) + 1 = 2 * n - 1
  BY Height
<1>2. /\ tree.active \subseteq 0 .. 2 * n - 2 /\ tree.inner \subseteq 0 .. n - 2
      /\ tree.inner \subseteq tree.active
      /\ IsFiniteSet(tree.active) /\ IsFiniteSet(tree.inner) /\ IsFiniteSet(leaves)
  BY ActiveNodes DEF Nodes
<1>3. {u \in tree.active : u < 2 * n - 1} = tree.active
  <2>1. \A u \in 0 .. 2 * n - 2 : u < 2 * n - 1
    BY <1>1
  <2> QED
    BY <1>2, <2>1
<1>4. {u \in tree.inner : u < n - 1} = tree.inner
  <2>1. \A u \in 0 .. n - 2 : u < n - 1
    BY <1>1
  <2> QED
    BY <1>2, <2>1
<1>5. Cardinality(tree.active) = 2 * Cardinality(tree.inner) + 1
  <2>1. Rank(tree.active, 2 * (n - 1) + 1) = 2 * Rank(tree.inner, n - 1) + 1
    BY <1>1, RankOfRow
  <2>2. Rank(tree.active, 2 * n - 1) = Cardinality(tree.active)
    BY <1>3 DEF Rank
  <2>3. Rank(tree.inner, n - 1) = Cardinality(tree.inner)
    BY <1>4 DEF Rank
  <2> QED
    BY <1>1, <2>1, <2>2, <2>3
<1>6. Cardinality(tree.inner) \in Nat /\ Cardinality(tree.inner) <= n - 1
  <2>1. IsFiniteSet(0 .. n - 2) /\ Cardinality(0 .. n - 2) = n - 1
    <3>1. 0 \in Int /\ n - 2 \in Int
      BY <1>1
    <3>2. /\ IsFiniteSet(0 .. n - 2)
          /\ Cardinality(0 .. n - 2) = IF 0 > n - 2 THEN 0 ELSE (n - 2) - 0 + 1
      BY <3>1, FS_Interval
    <3>3. (IF 0 > n - 2 THEN 0 ELSE (n - 2) - 0 + 1) = n - 1
      BY <1>1
    <3> QED
      BY <3>2, <3>3
  <2>2. tree.inner \in SUBSET (0 .. n - 2)
    BY <1>2
  <2> QED
    BY <2>1, <2>2, FS_Subset, FS_CardinalityType
<1>7. Cardinality(tree.active) = Cardinality(leaves) + Cardinality(tree.inner)
  <2>1. tree.active = leaves \cup tree.inner /\ leaves \cap tree.inner = {}
    BY <1>2
  <2> HIDE DEF leaves
  <2>2. Cardinality(leaves \cup tree.inner)
          = Cardinality(leaves) + Cardinality(tree.inner) - Cardinality(leaves \cap tree.inner)
    BY <1>2, FS_Union
  <2>3. Cardinality(leaves \cap tree.inner) = 0
    BY <2>1, FS_EmptySet
  <2>4. Cardinality(leaves) \in Nat
    BY <1>2, FS_CardinalityType
  <2> QED
    BY <1>6, <2>1, <2>2, <2>3, <2>4
<1>8. Cardinality(leaves) \in Nat
  BY <1>2, FS_CardinalityType
<1>9. Cardinality(leaves) = Cardinality(tree.inner) + 1
  <2> HIDE DEF leaves
  <2> QED
    BY <1>5, <1>6, <1>7, <1>8
<1>10. Cardinality(tree.inner) \in 0 .. n - 1
  BY <1>1, <1>6
<1> QED
  BY <1>5, <1>9, <1>10

\* Counted through in order, the members of S get a number in K if they belong to B,
\* and no other does.
Numbered(S, B, K) ==
  /\ S \subseteq Nat /\ IsFiniteSet(S) /\ B \subseteq S /\ K \subseteq Nat
  /\ \A v \in S : Rank(S, v) \in K <=> v \in B

\* Counting numbers, from that of the first member from b on to that of the last
\* before w, counts the members.
LEMMA CountByRank ==
  ASSUME NEW S, NEW B, NEW K, Numbered(S, B, K), NEW b \in Nat, NEW w \in Nat
  PROVE  Cardinality(Within(K, Rank(S, b), Rank(S, w))) = Cardinality(Within(B, b, w))
<1> DEFINE X == Within(B, b, w)
           Y == Within(K, Rank(S, b), Rank(S, w))
           f == [v \in X |-> Rank(S, v)]
<1>0. /\ S \subseteq Nat /\ IsFiniteSet(S) /\ B \subseteq S /\ K \subseteq Nat
      /\ \A v \in S : Rank(S, v) \in K <=> v \in B
  BY DEF Numbered
<1>1. /\ Rank(S, b) \in Nat /\ Rank(S, w) \in Nat /\ Rank(S, w) <= Cardinality(S)
      /\ Cardinality(S) \in Nat
  BY <1>0, RankType
<1>2. IsFiniteSet(X)
  <2>1. X \in SUBSET S
    BY <1>0 DEF Within
  <2> QED
    BY <1>0, <2>1, FS_Subset
<1>3. ASSUME NEW v \in X PROVE Rank(S, v) \in Y
  <2>1. v \in S /\ v \in B /\ v \in Nat /\ b <= v /\ v < w
    BY <1>0 DEF Within
  <2>2. Rank(S, b) <= Rank(S, v) /\ Rank(S, v) < Rank(S, w) /\ Rank(S, v) \in Nat
    BY <1>0, <2>1, RankGrows, RankOrder, RankType
  <2>3. Rank(S, v) \in K
    BY <1>0, <2>1
  <2> QED
    BY <2>2, <2>3 DEF Within
<1>4. ASSUME NEW k \in Y PROVE \E v \in X : Rank(S, v) = k
  <2>1. k \in K /\ k \in Nat /\ Rank(S, b) <= k /\ k < Rank(S, w)
    BY <1>0 DEF Within
  <2>2. k \in 0 .. Cardinality(S) - 1 /\ Rank(S, b) <= k /\ k < Rank(S, w)
    BY <1>1, <2>1
  <2>3. PICK v \in S : Rank(S, v) = k
    BY <1>0, <2>2, RankOnto
  <2>4. v \in Nat /\ v \in B
    BY <1>0, <2>1, <2>3
  <2>5. b <= v
    <3>1. v < b => Rank(S, v) < Rank(S, b)
      BY <1>0, <2>4, RankOrder
    <3> QED
      BY <1>1, <2>2, <2>3, <2>4, <3>1
  <2>6. v < w
    <3>1. w <= v => Rank(S, w) <= Rank(S, v)
      BY <1>0, <2>4, RankGrows
    <3> QED
      BY <1>1, <2>2, <2>3, <2>4, <3>1
  <2> QED
    BY <2>3, <2>4, <2>5, <2>6 DEF Within
<1>5. \A x \in X, y \in X : f[x] = f[y] => x = y
  <2>1. ASSUME NEW x \in X, NEW y \in X, Rank(S, x) = Rank(S, y) PROVE x = y
    <3>1. x \in S /\ y \in S
      BY <1>0 DEF Within
    <3> QED
      BY <1>0, <2>1, <3>1, RankInjective
  <2> HIDE DEF X
  <2> QED
    BY <2>1
<1> HIDE DEF X, Y
<1>6. f \in [X -> Y] /\ \A y \in Y : \E x \in X : f[x] = y
  BY <1>3, <1>4
<1> HIDE DEF f
<1>7. Cardinality(Y) = Cardinality(X)
  BY <1>2, <1>5, <1>6, RankOfImage
<1> QED
  BY <1>7 DEF X, Y

\* A row of the perfect tree begins behind as many active nodes as LevelBegin counts.
LEMMA LevelBegins ==
  ASSUME NEW t, NEW tree, Encodes(t, tree)
  PROVE  \A l \in 0 .. h + 1 :
           LevelBegin(t)[l] = Rank(tree.active, first_node_idx_at_level(l))
<1> DEFINE first(l) == first_node_idx_at_level(l)
           In(a, b) == Cardinality({v \in a .. b - 1 : is_inner_node(t, v)})
           Body(f)  == [l \in 0 .. h + 1 |-> IF l = 0 THEN 0 ELSE IF l = 1 THEN 1
                                             ELSE f[l - 1] + 2 * In(f[l - 2], f[l - 1])]
           a == [l \in 0 .. h + 1 |-> Rank(tree.active, first(l))]
           g == CHOOSE f : f = Body(f)
<1>1. LevelBegin(t) = g
  BY DEF LevelBegin
<1>2. /\ IsTree(tree)
      /\ tree.active \subseteq Nat /\ IsFiniteSet(tree.active) /\ 0 \in tree.active
      /\ tree.inner \subseteq Nat /\ IsFiniteSet(tree.inner) /\ tree.inner \subseteq tree.active
  BY ActiveNodes DEF Encodes
<1>3. h \in Nat
  BY Height
<1>4. \A l \in Nat : first(l) \in Nat /\ first(l + 1) = 2 * first(l) + 1
  <2>1. \A l \in Nat : 2^l \in Nat /\ 2^l > 0 /\ 2^(l + 1) = 2 * 2^l
    BY PowerOfTwo, PowerStep
  <2> QED
    BY <2>1 DEF first_node_idx_at_level
<1>5. first(0) = 0 /\ first(1) = 1
  <2>1. 2^0 = 1 /\ 2^(0 + 1) = 2 * 2^0 /\ 0 + 1 = 1
    BY PowerStep
  <2> QED
    BY <2>1 DEF first_node_idx_at_level
<1>6. ASSUME NEW l \in 0 .. h + 1, l # 0, l # 1
      PROVE  a[l] = a[l - 1] + 2 * In(a[l - 2], a[l - 1])
  <2>1. /\ l - 1 \in 0 .. h + 1 /\ l - 2 \in 0 .. h + 1 /\ (l - 1) + 1 = l /\ (l - 2) + 1 = l - 1
        /\ l - 1 \in Nat /\ l - 2 \in Nat
    BY <1>3, <1>6
  <2>2. PICK x \in Nat, y \in Nat : /\ x = first(l - 2) /\ y = first(l - 1)
                                    /\ y = 2 * x + 1 /\ first(l) = 2 * y + 1 /\ x <= y
    <3>1. first(l - 2) \in Nat /\ first(l - 1) = 2 * first(l - 2) + 1
      BY <1>4, <2>1
    <3>2. first(l - 1) \in Nat /\ first(l) = 2 * first(l - 1) + 1
      BY <1>4, <2>1
    <3> HIDE DEF first
    <3> QED
      BY <3>1, <3>2
  <2>3. /\ a[l] = Rank(tree.active, 2 * y + 1) /\ a[l - 1] = Rank(tree.active, y)
        /\ a[l - 2] = Rank(tree.active, x) /\ a[l - 1] = Rank(tree.active, 2 * x + 1)
    BY <2>1, <2>2
  <2>4. PICK i \in Nat : /\ i = Cardinality(Within(tree.inner, x, y))
                         /\ Rank(tree.inner, y) = Rank(tree.inner, x) + i
    BY <1>2, <2>2, RankWithin
  <2>5. In(a[l - 2], a[l - 1]) = i
    <3> DEFINE K == {k \in Nat : is_inner_node(t, k)}
               lo == Rank(tree.active, x)
               hi == Rank(tree.active, y)
    <3>1. \A v \in tree.active : Rank(tree.active, v) \in K <=> v \in tree.inner
      BY <1>2, RankType DEF Encodes
    <3>2. lo \in Nat /\ hi \in Nat
      BY <1>2, RankType
    <3>3. Numbered(tree.active, tree.inner, K)
      BY <1>2, <3>1 DEF Numbered
    <3>4. Cardinality(Within(K, lo, hi)) = i
      <4> HIDE DEF K
      <4> QED
        BY <2>4, <3>3, CountByRank
    <3> HIDE DEF lo, hi
    <3>5. Within(K, lo, hi) = {v \in lo .. hi - 1 : is_inner_node(t, v)}
      BY <3>2 DEF Within
    <3> QED
      BY <2>3, <3>4, <3>5 DEF lo, hi
  <2>6. /\ Rank(tree.active, 2 * y + 1) = 2 * Rank(tree.inner, y) + 1
        /\ Rank(tree.active, 2 * x + 1) = 2 * Rank(tree.inner, x) + 1
    BY <1>2, RankOfRow
  <2>7. Rank(tree.inner, x) \in Nat /\ Rank(tree.inner, y) \in Nat
    BY <1>2, RankType
  <2> HIDE DEF In, a
  <2> QED
    BY <2>3, <2>4, <2>5, <2>6, <2>7
<1>7. a[0] = 0
  <2>1. {u \in tree.active : u < 0} = {}
    BY <1>2
  <2>2. Rank(tree.active, 0) = 0
    BY <2>1, FS_EmptySet DEF Rank
  <2>3. 0 \in 0 .. h + 1
    BY <1>3
  <2> QED
    BY <1>5, <2>2, <2>3
<1>8. a[1] = 1
  <2>1. Rank(tree.active, 1) = 1
    <3>1. 0 .. 1 - 1 \subseteq tree.active
      BY <1>2
    <3> QED
      BY <1>2, <3>1, RankOfFull
  <2>2. 1 \in 0 .. h + 1
    BY <1>3
  <2> QED
    BY <1>5, <2>1, <2>2
<1> HIDE DEF In
<1>9. a = Body(a)
  <2>1. \A l \in 0 .. h + 1 : a[l] = IF l = 0 THEN 0 ELSE IF l = 1 THEN 1
                                     ELSE a[l - 1] + 2 * In(a[l - 2], a[l - 1])
    BY <1>6, <1>7, <1>8
  <2>2. a = [l \in 0 .. h + 1 |-> a[l]]
    OBVIOUS
  <2> HIDE DEF a
  <2> QED
    BY <2>1, <2>2
<1>10. g = Body(g)
  <2> HIDE DEF a
  <2> QED
    BY <1>9
<1>11. \A l \in 0 .. h + 1 : g[l] = IF l = 0 THEN 0 ELSE IF l = 1 THEN 1
                                    ELSE g[l - 1] + 2 * In(g[l - 2], g[l - 1])
  <2> DEFINE b == Body(g)
  <2>1. \A l \in 0 .. h + 1 : b[l] = IF l = 0 THEN 0 ELSE IF l = 1 THEN 1
                                     ELSE g[l - 1] + 2 * In(g[l - 2], g[l - 1])
    OBVIOUS
  <2> HIDE DEF g, b
  <2>2. g = b
    BY <1>10 DEF b
  <2> QED
    BY <2>1, <2>2
<1>12. \A l \in 0 .. h + 1 : a[l] = IF l = 0 THEN 0 ELSE IF l = 1 THEN 1
                                    ELSE a[l - 1] + 2 * In(a[l - 2], a[l - 1])
  BY <1>6, <1>7, <1>8
<1> HIDE DEF g
<1>13. \A l \in 0 .. h + 1 : a[l] = Rank(tree.active, first(l))
  OBVIOUS
<1> HIDE DEF a, first
<1> DEFINE Off == {l \in 0 .. h + 1 : g[l] # a[l]}
<1>14. Off = {}
  <2>1. SUFFICES ASSUME Off # {} PROVE FALSE
    OBVIOUS
  <2>2. PICK l \in Off : \A y \in Off : l <= y
    <3>1. Off \subseteq Nat
      OBVIOUS
    <3> QED
      BY <2>1, <3>1, LeastNatural
  <2>3. l \in 0 .. h + 1 /\ g[l] # a[l]
    OBVIOUS
  <2>4. l # 0 /\ l # 1
    BY <1>11, <1>12, <2>3
  <2>5. /\ l - 1 \in 0 .. h + 1 /\ l - 2 \in 0 .. h + 1 /\ ~(l <= l - 1) /\ ~(l <= l - 2)
    BY <1>3, <2>3, <2>4
  <2>6. g[l - 1] = a[l - 1] /\ g[l - 2] = a[l - 2]
    BY <2>2, <2>5
  <2> QED
    BY <1>11, <1>12, <2>3, <2>4, <2>6
<1> QED
  BY <1>1, <1>13, <1>14 DEF first

\* An array of words is as long as its words.
LEMMA WordsCapacity ==
  ASSUME NEW size \in Nat, NEW a, DOMAIN a = 0 .. size - 1
  PROVE  Capacity(a) = size /\ (DOMAIN a = {} <=> size = 0)
<1>1. 0 \in Int /\ size - 1 \in Int
  OBVIOUS
<1>2. Cardinality(0 .. size - 1) = IF 0 > size - 1 THEN 0 ELSE (size - 1) - 0 + 1
  BY <1>1, FS_Interval
<1>3. Cardinality(0 .. size - 1) = size
  BY <1>2
<1>4. 0 .. size - 1 = {} <=> size = 0
  BY DEF Capacity
<1> QED
  BY <1>3, <1>4 DEF Capacity

\* No words for no bits
LEMMA NoWords == W * Words(0) = 0
<1>1. W \in Nat /\ W > 1 /\ W - 1 \in 0 .. W - 1 /\ W * 0 = 0
  BY BitArrayAssumption
<1>2. (W * 0 + (W - 1)) \div W = 0
  BY <1>1, PlaceInBlock
<1>3. Words(0) = 0
  BY <1>1, <1>2 DEF Words
<1> QED
  BY <1>1, <1>3

\* The numbers of the nodes that are stored, counted in front and counted behind,
\* E being what is stored
NodeParts(t, tree, end, E) ==
  /\ Cardinality(E) \in Nat /\ t.implicit_trailing_leaf_cnt \in Nat
  /\ t.implicit_inner_node_cnt + Cardinality(E) + t.implicit_trailing_leaf_cnt
       = Cardinality(tree.active)
  /\ Cardinality(E \cap tree.inner) \in Nat
  /\ t.implicit_inner_node_cnt + Cardinality(E \cap tree.inner) = Cardinality(tree.inner)

\* No node is left out.
LEMMA NodesParted ==
  ASSUME NEW t, NEW tree, IsTree(tree), t.implicit_inner_node_cnt \in Nat,
         0 .. t.implicit_inner_node_cnt - 1 \subseteq tree.inner,
         NEW end, NEW E, NodesKept(t, tree, end, E)
  PROVE  NodeParts(t, tree, end, E)
<1> DEFINE A == tree.active
           I == tree.inner
<1>1. PICK c \in Nat : c = t.implicit_inner_node_cnt /\ 0 .. c - 1 \subseteq I
  OBVIOUS
<1>2. /\ A \subseteq Nat /\ IsFiniteSet(A) /\ I \subseteq Nat /\ IsFiniteSet(I) /\ I \subseteq A
      /\ A \subseteq 0 .. 2 * n - 2
  BY ActiveNodes DEF Nodes
<1>3. /\ end \in Nat /\ \A v \in I : v < end
      /\ E = {v \in A : c <= v /\ v < end}
      /\ t.implicit_trailing_leaf_cnt = Cardinality({v \in A \ I : v >= end})
  BY <1>1, Zenon DEF NodesKept
<1>4. PICK top \in Nat : top = 2 * n - 1 + end /\ \A v \in A : v < top
  <2>1. n \in Nat /\ n > 0
    BY Height
  <2>2. 2 * n - 1 + end \in Nat
    BY <1>3, <2>1
  <2> HIDE DEF A
  <2>3. \A v \in A : v < 2 * n - 1 + end
    BY <1>2, <1>3, <2>1
  <2> QED
    BY <2>2, <2>3
<1>5. c <= end /\ end <= top
  <2>1. c = 0 \/ c - 1 \in I
    BY <1>1
  <2>2. c <= end
    BY <1>3, <2>1
  <2>3. end <= top
    BY <1>3, <1>4, Height
  <2> QED
    BY <2>2, <2>3
<1> HIDE DEF A, I
<1>6. Rank(A, c) = c /\ Rank(I, c) = c
  BY <1>1, <1>2, RankOfFull
<1>7. Rank(A, top) = Cardinality(A) /\ Rank(I, end) = Cardinality(I)
  <2>1. {v \in A : v < top} = A /\ {v \in I : v < end} = I
    BY <1>3, <1>4
  <2> QED
    BY <2>1 DEF Rank
<1>8. E = Within(A, c, end)
  BY <1>3 DEF Within
<1>9. {v \in A \ I : v >= end} = Within(A, end, top)
  <2>1. ASSUME NEW v \in A PROVE (v \notin I /\ v >= end) <=> (end <= v /\ v < top)
    BY <1>2, <1>3, <1>4
  <2> QED
    BY <2>1 DEF Within
<1>10. E \cap I = Within(I, c, end)
  BY <1>2, <1>8 DEF Within
<1>11. /\ Cardinality(Within(A, c, end)) \in Nat
       /\ Rank(A, end) = Rank(A, c) + Cardinality(Within(A, c, end))
  BY <1>2, <1>3, <1>5, RankWithin, Zenon
<1>12. /\ Cardinality(Within(A, end, top)) \in Nat
       /\ Rank(A, top) = Rank(A, end) + Cardinality(Within(A, end, top))
  BY <1>2, <1>3, <1>5, RankWithin, Zenon
<1>13. /\ Cardinality(Within(I, c, end)) \in Nat
       /\ Rank(I, end) = Rank(I, c) + Cardinality(Within(I, c, end))
  BY <1>2, <1>3, <1>5, RankWithin, Zenon
<1>14. t.implicit_trailing_leaf_cnt = Cardinality(Within(A, end, top))
  BY <1>3, <1>9
<1> QED
  BY <1>1, <1>6, <1>7, <1>8, <1>10, <1>11, <1>12, <1>13, <1>14 DEF NodeParts, A, I

\* What T holds, and what it has room for
TreeCounted(t, tree) ==
  /\ InnerCnt(t) = Cardinality(tree.inner)
  /\ NodeCnt(t) = Cardinality(tree.active) + (IF DOMAIN t.T = {} THEN 1 ELSE 0)
  /\ t.implicit_trailing_leaf_cnt \in Nat
  /\ t.T \in [0 .. Capacity(t.T) - 1 -> BOOLEAN]
  /\ t.tree_bit_cnt \in 1 .. Greater(1, Capacity(t.T))
  /\ DOMAIN t.T # {} => t.tree_bit_cnt + t.free_bits_T = Capacity(t.T)

\* T has a bit for each node that is stored, and its words are as few as can be.
LEMMA TreeIsCounted ==
  ASSUME NEW t, NEW tree, InOrder(t, tree)
  PROVE  TreeCounted(t, tree) /\ t.implicit_trailing_leaf_cnt <= Cardinality(tree.active \ tree.inner)
<1> DEFINE c == t.implicit_inner_node_cnt
<1>1. /\ IsTree(tree) /\ c \in Nat /\ 0 .. c - 1 \subseteq tree.inner
      /\ \E end, E : NodesKept(t, tree, end, E)
  <2>1. /\ IsTree(tree) /\ c \in 0 .. n - 1 /\ 0 .. c - 1 \subseteq tree.inner
        /\ \E end, E : NodesKept(t, tree, end, E)
    BY DEF InOrder, Encodes, Shaped
  <2> HIDE DEF c
  <2> QED
    BY <2>1, Height
<1>2. PICK end, E : NodesKept(t, tree, end, E)
  BY <1>1
<1>3. /\ E \subseteq tree.active /\ t.T = Stored(E, tree.inner)
      /\ t.tree_bit_cnt = IF Cardinality(E) = 0 THEN 1 ELSE Cardinality(E)
      /\ t.free_bits_T = U(W * Words(Cardinality(E)) - t.tree_bit_cnt)
      /\ t.implicit_trailing_leaf_cnt = Cardinality({v \in tree.active \ tree.inner : v >= end})
  <2>1. E = {v \in tree.active : c <= v /\ v < end}
    BY <1>2, Zenon DEF NodesKept
  <2>2. E \subseteq tree.active
    BY <2>1
  <2> QED
    BY <1>2, <2>2, Zenon DEF NodesKept
<1>4. /\ E \subseteq Nat /\ IsFiniteSet(E) /\ E \subseteq Nodes
      /\ IsFiniteSet(tree.active \ tree.inner)
  <2>1. E \in SUBSET tree.active /\ tree.active \subseteq Nat /\ tree.active \subseteq Nodes
        /\ IsFiniteSet(tree.active) /\ IsFiniteSet(tree.active \ tree.inner)
    BY <1>1, <1>3, ActiveNodes
  <2> QED
    BY <2>1, FS_Subset
<1>5. NodeParts(t, tree, end, E)
  BY <1>1, <1>2, NodesParted
<1>6. PICK m \in Nat : m = Cardinality(E) /\ m <= 2 * n - 1
  BY <1>4, NodesFit
<1>7. PICK size \in Nat : size = W * Words(m) /\ m <= size /\ size <= m + W - 1
  BY <1>6, WordsFit
<1>8. /\ DOMAIN t.T = 0 .. size - 1 /\ t.T \in [0 .. size - 1 -> BOOLEAN]
      /\ Capacity(t.T) = size /\ (DOMAIN t.T = {} <=> size = 0)
  <2>1. t.T = [k \in 0 .. size - 1 |-> k < m /\ Nth(E, k) \in tree.inner]
    BY <1>3, <1>6, <1>7 DEF Stored, Array
  <2>2. DOMAIN t.T = 0 .. size - 1
    BY <2>1
  <2>3. t.T \in [0 .. size - 1 -> BOOLEAN]
    BY <2>1
  <2> QED
    BY <2>2, <2>3, WordsCapacity
<1>9. size = 0 <=> m = 0
  BY <1>7, NoWords
<1>10. Cardinality({k \in 0 .. t.tree_bit_cnt - 1 : Bit(t.T, k)}) = Cardinality(E \cap tree.inner)
  <2>1. PICK last \in Nat : last = t.tree_bit_cnt - 1 /\ m <= last + 1
    BY <1>3, <1>6
  <2>2. {k \in 0 .. t.tree_bit_cnt - 1 : Bit(t.T, k)} = OnesUpTo(Stored(E, tree.inner), last)
    BY <1>3, <2>1 DEF OnesUpTo
  <2>3. Cardinality(OnesUpTo(Stored(E, tree.inner), last))
          = Cardinality(RankedUpTo(E, tree.inner, last))
    BY <1>4, StoredCount
  <2>4. RankedUpTo(E, tree.inner, last) = E \cap tree.inner
    <3>1. \A v \in E : Rank(E, v) <= last
      <4>1. \A v \in E : Rank(E, v) \in Nat /\ Rank(E, v) < Cardinality(E)
        BY <1>4, RankType, RankBelow
      <4> QED
        BY <1>6, <2>1, <4>1
    <3> QED
      BY <3>1 DEF RankedUpTo
  <2> QED
    BY <2>2, <2>3, <2>4
<1>11. InnerCnt(t) = Cardinality(tree.inner)
  BY <1>5, <1>10 DEF InnerCnt, NodeParts
<1>12. NodeCnt(t) = Cardinality(tree.active) + (IF DOMAIN t.T = {} THEN 1 ELSE 0)
  <2>1. PICK i \in Nat, j \in Nat : /\ i = c /\ j = t.implicit_trailing_leaf_cnt
                                    /\ i + m + j = Cardinality(tree.active)
    BY <1>1, <1>5, <1>6 DEF NodeParts
  <2>2. NodeCnt(t) = i + t.tree_bit_cnt + j
    BY <2>1 DEF NodeCnt, TrailingT
  <2>3. CASE m = 0
    <3>1. t.tree_bit_cnt = 1 /\ DOMAIN t.T = {}
      BY <1>3, <1>6, <1>8, <1>9, <2>3
    <3> QED
      BY <2>1, <2>2, <2>3, <3>1
  <2>4. CASE m # 0
    <3>1. t.tree_bit_cnt = m /\ DOMAIN t.T # {}
      BY <1>3, <1>6, <1>8, <1>9, <2>4
    <3> QED
      BY <2>1, <2>2, <3>1
  <2> QED
    BY <2>3, <2>4
<1>13. t.tree_bit_cnt \in 1 .. Greater(1, Capacity(t.T))
  BY <1>3, <1>6, <1>7, <1>8, <1>9 DEF Greater
<1>14. DOMAIN t.T # {} => t.tree_bit_cnt + t.free_bits_T = Capacity(t.T)
  <2>1. SUFFICES ASSUME DOMAIN t.T # {} PROVE t.tree_bit_cnt + t.free_bits_T = size
    BY <1>8
  <2>2. t.tree_bit_cnt = m /\ m > 0
    BY <1>3, <1>6, <1>8, <1>9, <2>1
  <2>3. PICK x \in 0 .. Modulus - 1 : x = size - m
    <3>1. Modulus \in Nat /\ W \in Nat /\ n \in Nat /\ 2 * n + W <= Modulus
      BY ModulusIsNat, BitArrayAssumption, Height, CountersAssumption
    <3> QED
      BY <1>6, <1>7, <3>1
  <2>4. t.free_bits_T = x
    BY <1>3, <1>6, <1>7, <2>2, <2>3, NoWrap
  <2> QED
    BY <2>2, <2>3, <2>4
<1>15. t.implicit_trailing_leaf_cnt <= Cardinality(tree.active \ tree.inner)
  <2>1. {v \in tree.active \ tree.inner : v >= end} \in SUBSET (tree.active \ tree.inner)
    OBVIOUS
  <2> QED
    BY <1>3, <1>4, <2>1, FS_Subset
<1>16. t.implicit_trailing_leaf_cnt \in Nat
  BY <1>5 DEF NodeParts
<1> QED
  BY <1>8, <1>11, <1>12, <1>13, <1>14, <1>15, <1>16 DEF TreeCounted

\* The offsets of a level are where the walk down the levels finds it.
LEMMA OffsetsInOrder ==
  ASSUME NEW t, NEW tree, InOrder(t, tree), NEW l \in t.perfect_level_cnt .. h
  PROVE  /\ t.level_offsets_tree[l] = LevelBegin(t)[l]
         /\ t.level_offsets_labels[l]
              = Cardinality({v \in 0 .. LevelBegin(t)[l] - 1 : ~is_inner_node(t, v)})
<1> DEFINE A      == tree.active
           leaves == tree.active \ tree.inner
           K      == {k \in Nat : ~is_inner_node(t, k)}
<1>1. /\ Encodes(t, tree) /\ IsTree(tree) /\ t.perfect_level_cnt \in 1 .. h + 1
      /\ t.level_offsets_tree[l] = Rank(A, first_node_idx_at_level(l))
      /\ t.level_offsets_labels[l] = Rank(leaves, first_node_idx_at_level(l))
  BY DEF InOrder, Encodes, Shaped, LevelsKept
<1>2. l \in 0 .. h + 1 /\ l \in Nat
  BY <1>1, Height
<1>3. PICK first \in Nat : first = first_node_idx_at_level(l)
  <2>1. 2^l \in Nat /\ 2^l > 0
    BY <1>2, PowerOfTwo
  <2> QED
    BY <2>1 DEF first_node_idx_at_level
<1>4. LevelBegin(t)[l] = Rank(A, first)
  BY <1>1, <1>2, <1>3, LevelBegins
<1>5. A \subseteq Nat /\ IsFiniteSet(A) /\ leaves \subseteq A /\ leaves \subseteq Nat
  BY <1>1, ActiveNodes
<1>6. \A v \in A : Rank(A, v) \in K <=> v \in leaves
  <2>1. \A v \in A : is_inner_node(t, Rank(A, v)) <=> v \in tree.inner
    BY <1>1 DEF Encodes
  <2>2. \A v \in A : Rank(A, v) \in Nat
    BY <1>5, RankType
  <2> QED
    BY <2>1, <2>2
<1>7. Rank(A, 0) = 0 /\ Rank(A, first) \in Nat
  <2>1. {u \in A : u < 0} = {}
    BY <1>5
  <2> QED
    BY <1>5, <2>1, RankType, FS_EmptySet DEF Rank
<1>8. Cardinality(Within(K, Rank(A, 0), Rank(A, first))) = Cardinality(Within(leaves, 0, first))
  <2>1. Numbered(A, leaves, K)
    <3>1. K \subseteq Nat
      OBVIOUS
    <3> HIDE DEF K, A, leaves
    <3> QED
      BY <1>5, <1>6, <3>1 DEF Numbered
  <2> HIDE DEF K, A, leaves
  <2> QED
    BY <2>1, CountByRank
<1>9. Within(leaves, 0, first) = {v \in leaves : v < first}
  BY <1>5 DEF Within
<1>10. Within(K, 0, Rank(A, first)) = {v \in 0 .. Rank(A, first) - 1 : ~is_inner_node(t, v)}
  <2> HIDE DEF A
  <2> QED
    BY <1>7 DEF Within
<1> HIDE DEF A, leaves, K
<1>11. Cardinality({v \in 0 .. Rank(A, first) - 1 : ~is_inner_node(t, v)}) = Rank(leaves, first)
  BY <1>7, <1>8, <1>9, <1>10 DEF Rank
<1> QED
  BY <1>1, <1>3, <1>4, <1>11

\* The labels that are counted, and what L has room for
LEMMA LabelsAreCounted ==
  ASSUME NEW t, NEW tree, InOrder(t, tree)
  PROVE  /\ t.L \in [0 .. Capacity(t.L) - 1 -> BOOLEAN]
         /\ t.label_bit_cnt \in Nat /\ t.label_bit_cnt <= Capacity(t.L)
         /\ t.label_bit_cnt + t.free_bits_L = Capacity(t.L)
         /\ LabelCnt(t) = Cardinality(tree.active \ tree.inner)
         /\ t.implicit_leading_label_cnt \in 0 .. LabelCnt(t)
         /\ t.implicit_trailing_label_cnt \in 0 .. LabelCnt(t)
<1>1. LabelsKept(t) /\ LabelsCounted(t, tree)
  BY DEF InOrder, Shaped
<1>2. Modulus \in Nat
  BY ModulusIsNat
<1>3. PICK size \in Nat : /\ t.L \in [0 .. size - 1 -> BOOLEAN]
                          /\ t.label_bit_cnt \in Nat /\ t.free_bits_L \in Nat
                          /\ t.label_bit_cnt + t.free_bits_L = size
                          /\ t.implicit_leading_label_cnt \in 0 .. Modulus - 1
  <2>1. \A x \in 0 .. Modulus - 1 : x \in Nat
    BY <1>2
  <2> QED
    BY <1>1, <2>1 DEF LabelsKept
<1>4. Capacity(t.L) = size
  BY <1>3, WordsCapacity
<1>5. t.implicit_trailing_label_cnt \in 0 .. Modulus - 1
      /\ LabelCnt(t) = Cardinality(tree.active \ tree.inner)
  BY <1>1 DEF LabelsCounted
<1>6. /\ t.implicit_leading_label_cnt \in 0 .. LabelCnt(t)
      /\ t.implicit_trailing_label_cnt \in 0 .. LabelCnt(t)
  BY <1>2, <1>3, <1>5 DEF LabelCnt, TrailingL
<1> QED
  BY <1>3, <1>4, <1>5, <1>6

-----------------------------------------------------------------------------
\* The diff in front of a TEB

\* Between the calls of the client the TEB is in order, for some tree.
Ordered(t) == \E tree : InOrder(t, tree) /\ SkippedArePerfect(tree)

\* What holds between the calls: the bits the client is told are those of the TEB,
\* and the TEB is in order and without faults.
HybridInv ==
  /\ content = Decode(teb)
  /\ diff_ \in [Pos -> BOOLEAN]
  /\ Ordered(teb) /\ Faultless(teb)

\* A TEB is read as a bitmap.
LEMMA DecodeType ==
  ASSUME NEW t
  PROVE  /\ Decode(t) \in [Pos -> BOOLEAN]
         /\ \A i \in Pos : Decode(t)[i] = test(t, i)
<1>1. \A i \in Pos : test(t, i) \in BOOLEAN
  BY DEF test, get_label, get_label_by_idx
<1> QED
  BY <1>1 DEF Decode

\* A 1-bit is read from L.
LEMMA OneIsStored ==
  ASSUME NEW tree, InOrder(teb, tree), content = Decode(teb), HasOne
  PROVE  teb.label_bit_cnt > 0
<1>1. PICK i \in Pos : test(teb, i)
  BY DecodeType DEF HasOne
<1>2. PICK k : get_label_by_idx(teb, k) /\ k = get_label_idx(teb, Descend(teb, i).node)
  BY <1>1 DEF test, get_label
<1>3. k \in Int
  <2>1. PICK s \in Slots : s = i
    BY PosAreSlots
  <2>2. IsTree(tree) /\ Encodes(teb, tree)
    BY DEF InOrder, Encodes
  <2>3. PICK d \in 0 .. h : Ends(tree, s, d) /\ Descend(teb, s).node = Rank(tree.active, NodeAbove(s, d))
    BY <2>2, EncodedWalk
  <2>4. NodeAbove(s, d) \in tree.active
    <3>1. d \in 0 .. d
      BY Height
    <3> QED
      BY <2>2, <2>3, <3>1, PathIsActive
  <2>5. k = Rank(tree.active, NodeAbove(s, d)) - Rank(tree.inner, NodeAbove(s, d) + 1)
    BY <1>2, <2>1, <2>2, <2>3, <2>4 DEF get_label_idx, Encodes
  <2>6. tree.active \subseteq Nat /\ tree.inner \subseteq Nat
        /\ IsFiniteSet(tree.active) /\ IsFiniteSet(tree.inner)
    BY <2>2, ActiveNodes
  <2>7. NodeAbove(s, d) \in Nat /\ NodeAbove(s, d) + 1 \in Nat
    BY <2>4, <2>6
  <2>8. Rank(tree.active, NodeAbove(s, d)) \in Nat /\ Rank(tree.inner, NodeAbove(s, d) + 1) \in Nat
    BY <2>6, <2>7, RankType
  <2> QED
    BY <2>5, <2>8
<1>4. teb.label_bit_cnt \in Nat /\ teb.implicit_leading_label_cnt \in Nat
  <2>1. teb.implicit_leading_label_cnt \in 0 .. LabelCnt(teb) /\ teb.label_bit_cnt \in Nat
    BY LabelsAreCounted
  <2>2. LabelCnt(teb) \in Nat
    <3>1. IsTree(tree) /\ LabelCnt(teb) = Cardinality(tree.active \ tree.inner)
      BY LabelsAreCounted DEF InOrder, Encodes
    <3> QED
      BY <3>1, NodeCounts, Height
  <2> QED
    BY <2>1, <2>2
<1>5. teb.implicit_leading_label_cnt <= k /\ k < teb.implicit_leading_label_cnt + teb.label_bit_cnt
  BY <1>2 DEF get_label_by_idx, TrailingL
<1> QED
  BY <1>3, <1>4, <1>5

\* The counters, arrays and offsets of a TEB that is in order are those of one tree.
LEMMA OrderedShape ==
  ASSUME Ordered(teb), content = Decode(teb)
  PROVE  TebTypeOK /\ FreeBitsAreTheRest /\ TreeIsFull /\ OffsetsPointToLevels
<1>1. PICK tree : InOrder(teb, tree)
  BY DEF Ordered
<1>2. IsTree(tree) /\ teb.perfect_level_cnt \in 1 .. h + 1 /\ teb.implicit_inner_node_cnt \in 0 .. n - 1
  BY <1>1 DEF InOrder, Encodes
<1>3. PICK inner \in 0 .. n - 1 :
        /\ inner = Cardinality(tree.inner)
        /\ Cardinality(tree.active) = 2 * inner + 1
        /\ Cardinality(tree.active \ tree.inner) = inner + 1
  BY <1>2, NodeCounts
<1>4. n \in Nat /\ n > 0
  BY Height
<1>5. TreeCounted(teb, tree) /\ teb.implicit_trailing_leaf_cnt <= inner + 1
  BY <1>1, <1>3, TreeIsCounted
<1>6. /\ teb.L \in [0 .. Capacity(teb.L) - 1 -> BOOLEAN]
      /\ teb.label_bit_cnt \in Nat /\ teb.label_bit_cnt <= Capacity(teb.L)
      /\ teb.label_bit_cnt + teb.free_bits_L = Capacity(teb.L)
      /\ LabelCnt(teb) = inner + 1
      /\ teb.implicit_leading_label_cnt \in 0 .. inner + 1
      /\ teb.implicit_trailing_label_cnt \in 0 .. inner + 1
  BY <1>1, <1>3, LabelsAreCounted
<1>7. /\ InnerCnt(teb) = inner
      /\ NodeCnt(teb) = 2 * inner + (IF DOMAIN teb.T = {} THEN 2 ELSE 1)
  BY <1>3, <1>4, <1>5 DEF TreeCounted
<1>8. TreeIsFull
  BY <1>6, <1>7 DEF TreeIsFull
<1>9. FreeBitsAreTheRest
  BY <1>5, <1>6 DEF FreeBitsAreTheRest, TreeCounted
<1>10. OffsetsPointToLevels
  BY <1>1, OffsetsInOrder DEF OffsetsPointToLevels
<1>11. TebTypeOK
  <2>1. content \in [Pos -> BOOLEAN]
    BY DecodeType
  <2>2. HasOne => teb.label_bit_cnt \in 1 .. Capacity(teb.L)
    <3>1. Capacity(teb.L) \in Int
      <4>1. PICK size \in Nat : teb.L \in [0 .. size - 1 -> BOOLEAN]
        BY <1>1 DEF InOrder, LabelsKept
      <4> QED
        BY <4>1, WordsCapacity
    <3> QED
      BY <1>1, <1>6, <3>1, OneIsStored
  <2>3. NodeCnt(teb) <= 2 * n /\ LabelCnt(teb) <= n
    BY <1>3, <1>4, <1>6, <1>7
  <2>4. /\ teb.implicit_inner_node_cnt \in 0 .. n /\ teb.implicit_trailing_leaf_cnt \in 0 .. n
        /\ teb.implicit_leading_label_cnt \in 0 .. n /\ teb.implicit_trailing_label_cnt \in 0 .. n
    <3>1. inner + 1 <= n
      BY <1>3, <1>4
    <3>2. teb.implicit_trailing_leaf_cnt \in Nat /\ teb.implicit_trailing_leaf_cnt <= inner + 1
      BY <1>5 DEF TreeCounted
    <3> QED
      BY <1>2, <1>4, <1>6, <3>1, <3>2
  <2>5. /\ teb.T \in [0 .. Capacity(teb.T) - 1 -> BOOLEAN]
        /\ teb.tree_bit_cnt \in 1 .. Greater(1, Capacity(teb.T))
    BY <1>5 DEF TreeCounted
  <2> QED
    BY <1>2, <1>6, <2>1, <2>2, <2>3, <2>4, <2>5 DEF TebTypeOK
<1> QED
  BY <1>8, <1>9, <1>10, <1>11

\* A TEB that was just built is in order.
LEMMA BuiltIsOrdered ==
  ASSUME NEW plain \in [Pos -> BOOLEAN]
  PROVE  /\ Ordered(Serialize(plain)) /\ Faultless(Serialize(plain))
         /\ Decode(Serialize(plain)) = plain
<1> DEFINE bits == Padded(plain)
           tree == PrunedTree(bits)
<1>1. bits \in [Slots -> BOOLEAN] /\ Serialize(plain) = ToTeb(tree)
  BY SerializeIsToTeb
<1>2. IsTree(tree)
  BY <1>1, PrunedIsTree
<1>3. SkippedArePerfect(tree)
  BY PrunedSkipsNothing
<1> HIDE DEF tree
<1>4. InOrder(Serialize(plain), tree) /\ Faultless(Serialize(plain))
  BY <1>1, <1>2, ToTebInOrder
<1> QED
  BY <1>3, <1>4, BuildingKeepsBits DEF Ordered

\* A TEB that the tree merge has made is in order, and has the bits of the TEB and
\* the diff before.
LEMMA MergedIsOrdered ==
  ASSUME NEW t, Ordered(t), t.implicit_inner_node_cnt > 0, NEW diff \in [Pos -> BOOLEAN],
         NEW merged, merged = ToTeb(ToggleAll(FromTeb(t), diff))
  PROVE  /\ Ordered(merged) /\ Faultless(merged)
         /\ Decode(merged) = [i \in Pos |-> Decode(t)[i] # diff[i]]
<1> DEFINE made  == FromTeb(t)
           after == ToggleAll(made, diff)
<1>1. PICK tree : InOrder(t, tree) /\ SkippedArePerfect(tree)
  BY DEF Ordered
<1>2. t.implicit_inner_node_cnt \in 1 .. n - 1
  <2>1. t.implicit_inner_node_cnt \in 0 .. n - 1 /\ n \in Nat
    BY <1>1, Height DEF InOrder
  <2> QED
    BY <2>1
<1>3. /\ IsTree(made) /\ SkippedArePerfect(made)
      /\ \A p \in Pos : tree_test(made, p) = test(t, p)
  BY <1>1, <1>2, OpeningKeepsBits DEF InOrder
<1> HIDE DEF made
<1>4. /\ IsTree(after) /\ SkippedArePerfect(after)
      /\ \A p \in Pos : tree_test(after, p) = (tree_test(made, p) # diff[p])
  BY <1>3, MergeFlipsTheDiff
<1>5. merged = ToTeb(after)
  BY DEF made
<1> HIDE DEF after
<1>6. Ordered(merged) /\ Faultless(merged)
  BY <1>4, <1>5, ToTebInOrder DEF Ordered
<1>7. \A p \in Pos : test(merged, p) = tree_test(after, p)
  BY <1>4, <1>5, EncodingKeepsBits
<1>8. \A i \in Pos : test(merged, i) = (Decode(t)[i] # diff[i])
  BY <1>3, <1>4, <1>7, DecodeType
<1> QED
  BY <1>6, <1>8 DEF Decode

\* The answers of an update, for the bits of the TEB
LEMMA UpdateAnswers ==
  ASSUME NEW t, Ordered(t), NEW i \in Pos, NEW val \in BOOLEAN, NEW diff_val \in BOOLEAN,
         NEW answer, answer = update(t, i, val, "hybrid", diff_val)
  PROVE  /\ Ordered(answer.teb)
         /\ \/ /\ answer.res = 0 /\ (Decode(t)[i] # diff_val) = val
               /\ Decode(answer.teb) = Decode(t)
            \/ /\ answer.res = 1 /\ (Decode(t)[i] # diff_val) # val
               /\ Decode(answer.teb) = [Decode(t) EXCEPT ![i] = ~@]
            \/ /\ answer.res = 2 /\ (Decode(t)[i] # diff_val) # val
               /\ Decode(answer.teb) = Decode(t)
<1>1. PICK tree : InOrder(t, tree) /\ SkippedArePerfect(tree)
  BY DEF Ordered
<1>2. \/ /\ answer.res = 0 /\ (test(t, i) # diff_val) = val
         /\ answer.teb = t
      \/ /\ answer.res = 1 /\ (test(t, i) # diff_val) # val
         /\ \A q \in Pos : test(answer.teb, q) = IF q = i THEN ~test(t, i) ELSE test(t, q)
         /\ \E after : InOrder(answer.teb, after) /\ SkippedArePerfect(after)
      \/ /\ answer.res = 2 /\ (test(t, i) # diff_val) # val
         /\ answer.teb = t
  BY <1>1, UpdateFlipsOneBit, SMTT(30)
<1>3. Decode(t)[i] = test(t, i)
  BY DecodeType
<1>4. Ordered(answer.teb)
  BY <1>2 DEF Ordered
<1>5. ASSUME \A q \in Pos : test(answer.teb, q) = IF q = i THEN ~test(t, i) ELSE test(t, q)
      PROVE  Decode(answer.teb) = [Decode(t) EXCEPT ![i] = ~@]
  BY <1>5 DEF Decode
<1> QED
  BY <1>2, <1>3, <1>4, <1>5, Zenon

\* An update does nothing outside the arrays, and takes no free bits back.
LEMMA UpdateFaultless ==
  ASSUME NEW t, Ordered(t), Faultless(t),
         NEW i \in Pos, NEW val \in BOOLEAN, NEW diff_val \in BOOLEAN,
         NEW answer, answer = update(t, i, val, "hybrid", diff_val)
  PROVE  Faultless(answer.teb)
<1> DEFINE node   == Descend(t, i).node
           stored == get_label(t, node)
           idx    == get_label_idx(t, node)
           e      == MakeLabelExplicit(t, idx)
           new    == set_label_bit(e, idx - e.implicit_leading_label_cnt, ~stored)
<1>1. PICK tree : InOrder(t, tree)
  BY DEF Ordered
<1>2. answer = IF (stored # diff_val) = val THEN NoChange(t)
               ELSE IF HasOwnLeaf(t, node)
                 THEN IF CostOfLabel(t, idx) > t.free_bits_L THEN Declined(t) ELSE Done(new)
               ELSE Declined(t)
  BY Zenon DEF update, update_lowest
<1>3. CASE HasOwnLeaf(t, node) /\ ~(CostOfLabel(t, idx) > t.free_bits_L)
  <2>1. idx \in Nat /\ IsTeb(t) /\ LabelsKept(t)
    BY <1>1, <1>3, OwnLabel DEF InOrder
  <2>2. PICK flipped \in BOOLEAN : flipped = ~stored
    OBVIOUS
  <2>3. PICK made, s : made = e /\ s = new
    OBVIOUS
  <2>4. made = MakeLabelExplicit(t, idx)
    BY <2>3
  <2>5. s = set_label_bit(made, idx - made.implicit_leading_label_cnt, flipped)
    BY <2>2, <2>3
  <2> HIDE DEF idx, new, e
  <2>6. Faultless(s)
    BY <1>3, <2>1, <2>4, <2>5, WrittenFaultless, SMTT(30)
  <2>7. answer = NoChange(t) \/ answer = Declined(t) \/ answer = Done(s)
    BY <1>2, <2>3
  <2> QED
    BY <2>6, <2>7 DEF NoChange, Declined, Done
<1>4. CASE ~(HasOwnLeaf(t, node) /\ ~(CostOfLabel(t, idx) > t.free_bits_L))
  <2>1. answer = NoChange(t) \/ answer = Declined(t)
    BY <1>2, <1>4
  <2> QED
    BY <2>1 DEF NoChange, Declined
<1> QED
  BY <1>3, <1>4

\* Diff and the tree are about the same positions.
LEMMA SamePositions ==
  /\ Detailed!Pos = Pos
  /\ Detailed!EmptyDiff = EmptyDiff
  /\ Detailed!Content = Content
  BY DEF Detailed!Pos, Pos, Detailed!EmptyDiff, EmptyDiff, Detailed!Content, Content,
         Detailed!Test, Detailed!Xor

\* At first the TEB is just built.
LEMMA HybridInit == Init => HybridInv /\ Detailed!Init
<1> SUFFICES ASSUME Init PROVE HybridInv /\ Detailed!Init
  OBVIOUS
<1>1. PICK bits \in [Pos -> BOOLEAN] :
        /\ teb = Serialize(bits) /\ content = Decode(teb) /\ diff_ = EmptyDiff
        /\ has_pending_updates_ = FALSE /\ call = [op |-> "none"]
  BY DEF Init, InitFrom
<1>2. Ordered(teb) /\ Faultless(teb) /\ content = bits
  BY <1>1, BuiltIsOrdered
<1>3. diff_ \in [Pos -> BOOLEAN]
  BY <1>1 DEF EmptyDiff
<1>4. HybridInv
  BY <1>1, <1>2, <1>3 DEF HybridInv
<1>5. content \in [Pos -> BOOLEAN]
  BY <1>2
<1> QED
  BY <1>1, <1>4, <1>5, SamePositions DEF Detailed!Init

\* Each step keeps the TEB in order and is one that Diff allows: set() writes to
\* the diff only.
LEMMA HybridSet ==
  ASSUME HybridInv, NEW i \in Pos, NEW val \in BOOLEAN, Set(i, val)
  PROVE  HybridInv' /\ Detailed!Set(i, val)
<1>1. content \in [Pos -> BOOLEAN]
  BY DecodeType DEF HybridInv
<1>2. (content[i] # val) \in BOOLEAN
  OBVIOUS
<1>3. diff_' \in [Pos -> BOOLEAN]
  BY <1>2 DEF Set, HybridInv
<1>4. HybridInv'
  BY <1>3 DEF HybridInv, Set
<1>5. Content[i] = (content[i] # diff_[i]) 
  BY DEF Content
<1>6. Detailed!Set(i, val)
  BY <1>5 DEF Set, Detailed!Set, Detailed!Test, Detailed!Xor
<1> QED
  BY <1>4, <1>6

\* An update that the TEB declines goes to the diff, as Diff says.
LEMMA HybridUpdate ==
  ASSUME HybridInv, NEW i \in Pos, NEW val \in BOOLEAN, Update(i, val)
  PROVE  HybridInv' /\ Detailed!Update(i, val)
<1>1. PICK answer :
        /\ "update" \in Interfaces
        /\ answer = update(teb, i, val, "hybrid", diff_[i])
        /\ teb' = answer.teb
        /\ diff_' = IF answer.res = 2 THEN [diff_ EXCEPT ![i] = ~@] ELSE diff_
        /\ call' = [op |-> "update", pos |-> i, val |-> val, res |-> answer.res]
        /\ content' = Decode(teb')
        /\ has_pending_updates_' = has_pending_updates_
  BY DEF Update
<1>2. /\ content = Decode(teb) /\ diff_ \in [Pos -> BOOLEAN]
      /\ Ordered(teb) /\ Faultless(teb)
  BY DEF HybridInv
<1>3. diff_[i] \in BOOLEAN
  BY <1>2
<1>4. /\ Ordered(answer.teb)
      /\ \/ /\ answer.res = 0 /\ (Decode(teb)[i] # diff_[i]) = val
            /\ Decode(answer.teb) = Decode(teb)
         \/ /\ answer.res = 1 /\ (Decode(teb)[i] # diff_[i]) # val
            /\ Decode(answer.teb) = [Decode(teb) EXCEPT ![i] = ~@]
         \/ /\ answer.res = 2 /\ (Decode(teb)[i] # diff_[i]) # val
            /\ Decode(answer.teb) = Decode(teb)
  BY <1>1, <1>2, <1>3, UpdateAnswers, SMTT(30)
<1>5. diff_' \in [Pos -> BOOLEAN]
  BY <1>1, <1>2
<1>6. HybridInv'
  <2>1. Faultless(answer.teb)
    BY <1>1, <1>2, <1>3, UpdateFaultless, SMTT(30)
  <2> QED
    BY <1>1, <1>4, <1>5, <2>1 DEF HybridInv
<1>7. CASE answer.res = 0
  <2>1. Detailed!UpdateCancelled(i, val)
    BY <1>1, <1>2, <1>4, <1>7 DEF Detailed!UpdateCancelled, Detailed!Test, Detailed!Xor
  <2> QED
    BY <1>1, <1>6, <2>1 DEF Detailed!Update
<1>8. CASE answer.res = 1
  <2>1. Detailed!UpdateInPlace(i, val)
    BY <1>1, <1>2, <1>4, <1>8 DEF Detailed!UpdateInPlace, Detailed!Test, Detailed!Xor
  <2> QED
    BY <1>1, <1>6, <2>1 DEF Detailed!Update
<1>9. CASE answer.res = 2
  <2>1. Detailed!UpdateDiff(i, val)
    BY <1>1, <1>2, <1>4, <1>9 DEF Detailed!UpdateDiff, Detailed!Test, Detailed!Xor
  <2> QED
    BY <1>1, <1>6, <2>1 DEF Detailed!Update
<1> QED
  BY <1>4, <1>7, <1>8, <1>9

\* Whatever bits a merge builds the TEB from, the TEB is in order.
LEMMA MergeKeepsOrder ==
  ASSUME HybridInv, NEW strategy \in Strategies, Merge(strategy)
  PROVE  HybridInv'
<1>1. content = Decode(teb) /\ diff_ \in [Pos -> BOOLEAN] /\ Ordered(teb)
  BY DEF HybridInv
<1>2. EmptyDiff \in [Pos -> BOOLEAN]
  BY DEF EmptyDiff
<1>3. CASE MergeByTree /\ diff_' = EmptyDiff
  <2>1. /\ teb.implicit_inner_node_cnt > 0 /\ content' = Decode(teb')
        /\ teb' = ToTeb(ToggleAll(FromTeb(teb), diff_))
    BY <1>3 DEF MergeByTree, MergedTree
  <2>2. Ordered(teb') /\ Faultless(teb')
    BY <1>1, <2>1, MergedIsOrdered
  <2> QED
    BY <1>2, <1>3, <2>1, <2>2 DEF HybridInv
<1>4. CASE MergeByScan(strategy) /\ diff_' = EmptyDiff
  <2> DEFINE bits == [i \in Pos |-> i \in Scanned(strategy, teb, diff_)]
  <2>1. teb' = Serialize(bits) /\ content' = Decode(teb') /\ bits \in [Pos -> BOOLEAN]
    BY <1>4 DEF MergeByScan, Rebuilt
  <2> HIDE DEF bits
  <2>2. Ordered(teb') /\ Faultless(teb')
    BY <2>1, BuiltIsOrdered
  <2> QED
    BY <1>2, <1>4, <2>1, <2>2 DEF HybridInv
<1>5. CASE UNCHANGED <<teb, content, diff_>>
  BY <1>5 DEF HybridInv
<1> QED
  BY <1>3, <1>4, <1>5 DEF Merge

\* What is needed of a merge to be one of Diff: the bits that the reader saw.
LEMMA MergeOfContent ==
  ASSUME NEW strategy \in Strategies, Merge(strategy), has_pending_updates_ => content' = Content
  PROVE  Detailed!Merge("naive")
<1>1. /\ call' = [op |-> "merge", applied |-> has_pending_updates_]
      /\ has_pending_updates_' = has_pending_updates_
  BY DEF Merge
<1>2. CASE has_pending_updates_
  <2>1. content' = Content /\ diff_' = EmptyDiff
    BY <1>2 DEF Merge
  <2>2. Detailed!ApplyDiff("naive")
    BY <2>1, SamePositions DEF Detailed!ApplyDiff
  <2> QED
    BY <1>1, <1>2, <2>1, <2>2, SamePositions DEF Detailed!Merge
<1>3. CASE ~has_pending_updates_
  <2>1. UNCHANGED <<teb, content, diff_>>
    BY <1>3 DEF Merge
  <2> QED
    BY <1>1, <1>3, <2>1 DEF Detailed!Merge
<1> QED
  BY <1>2, <1>3

\* The merge through the tree gives the bits that the reader saw, whatever TEB it
\* reads: it does not use the scan iterator.
LEMMA TreeMergeIsRight ==
  ASSUME HybridInv, MergeByTree
  PROVE  content' = Content
<1>1. content = Decode(teb) /\ diff_ \in [Pos -> BOOLEAN] /\ Ordered(teb)
  BY DEF HybridInv
<1>2. /\ teb.implicit_inner_node_cnt > 0 /\ content' = Decode(teb')
      /\ teb' = ToTeb(ToggleAll(FromTeb(teb), diff_))
  BY DEF MergeByTree, MergedTree
<1>3. Decode(teb') = [i \in Pos |-> Decode(teb)[i] # diff_[i]]
  BY <1>1, <1>2, MergedIsOrdered
<1> QED
  BY <1>1, <1>2, <1>3 DEF Content

\* A merge that scans gives them if no run of the TEB is counted twice.
LEMMA ScanMergeIsRight ==
  ASSUME HybridInv, ScanRight, ~CountsTwice(teb),
         NEW strategy \in ScanStrategies, MergeByScan(strategy)
  PROVE  content' = Content
<1>1. content = Decode(teb) /\ diff_ \in [Pos -> BOOLEAN] /\ Sound(teb)
  BY DEF HybridInv, Faultless, Sound
<1>2. content \in [Pos -> BOOLEAN]
  BY <1>1, DecodeType
<1>3. ~Overruns(teb)
  BY DEF MergeByScan
<1>4. Scanned(strategy, teb, diff_) = {i \in Pos : content[i] # diff_[i]}
  BY <1>1, <1>3 DEF ScanRight
<1>5. [i \in Pos |-> i \in Scanned(strategy, teb, diff_)] = Content
  BY <1>4 DEF Content
<1>6. teb' = Serialize(Content) /\ content' = Decode(teb')
  BY <1>5 DEF MergeByScan, Rebuilt
<1>7. Content \in [Pos -> BOOLEAN]
  BY <1>1, <1>2 DEF Content
<1> QED
  BY <1>6, <1>7, BuiltIsOrdered

\* A merge is one of Diff, or it reads a TEB in which runs are counted twice.
LEMMA HybridMerge ==
  ASSUME HybridInv, ScanRight, NEW strategy \in Strategies, Merge(strategy)
  PROVE  Detailed!Merge("naive") \/ MisreadMerge
<1>1. CASE ~has_pending_updates_
  BY <1>1, MergeOfContent
<1>2. CASE strategy = "tree" /\ MergeByTree
  <2>1. content' = Content
    BY <1>2, TreeMergeIsRight
  <2> QED
    BY <2>1, MergeOfContent
<1>3. CASE strategy # "tree" /\ MergeByScan(strategy)
  <2>1. strategy \in ScanStrategies
    BY <1>3 DEF ScanStrategies
  <2>2. CASE CountsTwice(teb)
    BY <2>1, <2>2 DEF MisreadMerge
  <2>3. CASE ~CountsTwice(teb)
    <3>1. content' = Content
      BY <1>3, <2>1, <2>3, ScanMergeIsRight
    <3> QED
      BY <3>1, MergeOfContent
  <2> QED
    BY <2>2, <2>3
<1> QED
  BY <1>1, <1>2, <1>3 DEF Merge

\* All the steps keep the TEB in order.
LEMMA HybridKeepsOrder ==
  ASSUME HybridInv, [Next]_vars
  PROVE  HybridInv'
<1>1. ASSUME NEW i \in Pos, NEW val \in BOOLEAN, Set(i, val)
      PROVE  HybridInv'
  BY <1>1, HybridSet
<1>2. ASSUME NEW i \in Pos, NEW val \in BOOLEAN, Update(i, val)
      PROVE  HybridInv'
  BY <1>2, HybridUpdate
<1>3. ASSUME NEW strategy \in Strategies, Merge(strategy)
      PROVE  HybridInv'
  BY <1>3, MergeKeepsOrder
<1>4. CASE UNCHANGED vars
  BY <1>4 DEF vars, HybridInv
<1> QED
  BY <1>1, <1>2, <1>3, <1>4 DEF Next, CallAt

\* They are those of Diff, but for a merge that reads runs twice.
LEMMA HybridStep ==
  ASSUME HybridInv, ScanRight, [Next]_vars
  PROVE  [Detailed!Next \/ MisreadMerge]_(Detailed!vars)
<1>1. ASSUME NEW i \in Pos, NEW val \in BOOLEAN, Set(i, val)
      PROVE  Detailed!Next
  BY <1>1, HybridSet, SamePositions DEF Detailed!Next
<1>2. ASSUME NEW i \in Pos, NEW val \in BOOLEAN, Update(i, val)
      PROVE  Detailed!Next
  BY <1>2, HybridUpdate, SamePositions DEF Detailed!Next
<1>3. ASSUME NEW strategy \in Strategies, Merge(strategy)
      PROVE  Detailed!Next \/ MisreadMerge
  BY <1>3, HybridMerge DEF Detailed!Next
<1>4. CASE UNCHANGED vars
  BY <1>4 DEF vars, Detailed!vars
<1> QED
  BY <1>1, <1>2, <1>3, <1>4 DEF Next, CallAt

\* The invariant above is one of each behaviour.
LEMMA HybridInvariant == Spec => []HybridInv
BY HybridInit, HybridKeepsOrder, PTL DEF Spec

\* The TEB with its diff behaves as Diff says of any bitmap, for every length of the
\* bitmap and of the words, however writes, updates and merges are mixed: an
\* update flips its bit in the TEB or in the diff, never in both and no other, and
\* a merge gives the bits that the reader saw.  The exception is a merge that reads
\* with the scan iterator a TEB in which runs are counted twice; what it takes from
\* the iterators for any other TEB is ScanRight.
THEOREM HybridImplementsDiff == Spec /\ []ScanRight => ImplementsDiff
BY HybridInvariant, HybridInit, HybridStep, PTL DEF Spec, ImplementsDiff

\* A client that only merges through the tree never meets the exception, and needs
\* nothing from the iterators: its TEB with the diff is a Diff without reservation,
\* for every length.
THEOREM TreeClientImplementsDiff ==
  ASSUME Strategies \subseteq {"tree"}
  PROVE  Spec => Detailed!Spec
<1>1. ScanStrategies = {}
  BY DEF ScanStrategies
<1>2. ScanRight
  BY <1>1 DEF ScanRight
<1>3. ~MisreadMerge
  BY <1>1 DEF MisreadMerge
<1>4. HybridInv /\ [Next]_vars => [Detailed!Next]_(Detailed!vars)
  BY <1>2, <1>3, HybridStep
<1> QED
  BY <1>4, HybridInvariant, HybridInit, PTL DEF Spec, Detailed!Spec

\* Nothing that update() does word by word, or that a merge leaves behind, goes
\* outside the arrays of a TEB that is not pruned: the guard of Next stops no
\* behaviour.
THEOREM HybridHasNoFaults == Spec => []NoFaults /\ [](teb.faults = {})
<1>1. HybridInv => NoFaults /\ teb.faults = {}
  BY DEF HybridInv, Faultless, NoFaults, Sound
<1> QED
  BY <1>1, HybridInvariant, PTL

\* None of the unsigned counters of the TEB below a diff wraps, and what they count
\* fits into the tree and the arrays.
THEOREM HybridTypeCorrect == Spec => []TebTypeOK
<1>1. HybridInv => TebTypeOK
  BY OrderedShape DEF HybridInv
<1> QED
  BY <1>1, HybridInvariant, PTL

\* However many updates were taken in place, the free bits that are left are the
\* bits of T and of L that are not in use.
THEOREM HybridFreeBits == Spec => []FreeBitsAreTheRest
<1>1. HybridInv => FreeBitsAreTheRest
  BY OrderedShape DEF HybridInv
<1> QED
  BY <1>1, HybridInvariant, PTL

\* The labels that updates in place make explicit and the counters that they move
\* stay those of one full tree: a leaf is never without a label.
THEOREM HybridTreeIsFull == Spec => []TreeIsFull
<1>1. HybridInv => TreeIsFull
  BY OrderedShape DEF HybridInv
<1> QED
  BY <1>1, HybridInvariant, PTL

\* The offsets of the levels, by which update() tells whether a bit has a leaf of
\* its own, stay where the levels of the tree begin.
THEOREM HybridOffsets == Spec => []OffsetsPointToLevels
<1>1. HybridInv => OffsetsPointToLevels
  BY OrderedShape DEF HybridInv
<1> QED
  BY <1>1, HybridInvariant, PTL

-----------------------------------------------------------------------------
\* What TreeMerge keeps true: the TEB is in order, and what is read from it, or from
\* the tree while there is one, is the content.
TreeInv ==
  /\ Ordered(teb) /\ Faultless(teb)
  /\ content \in [Pos -> BOOLEAN]
  /\ mbt = NoTree => content = Decode(teb)
  /\ mbt # NoTree => /\ IsTree(mbt) /\ SkippedArePerfect(mbt)
                     /\ content = TreeBits(mbt)

\* NoTree is not a tree.
LEMMA NoTreeIsNone ==
  ASSUME NEW tree, IsTree(tree)
  PROVE  tree # NoTree
<1>1. 0 \in tree.active
  BY DEF IsTree
<1>2. NoTree.active = {}
  BY DEF NoTree
<1> QED
  BY <1>1, <1>2

\* A tree is read as a bitmap.
LEMMA TreeBitsType ==
  ASSUME NEW tree
  PROVE  /\ TreeBits(tree) \in [Pos -> BOOLEAN]
         /\ \A i \in Pos : TreeBits(tree)[i] = tree_test(tree, i)
<1>1. \A i \in Pos : tree_test(tree, i) \in BOOLEAN
  BY DEF tree_test
<1> QED
  BY <1>1 DEF TreeBits

\* The first node that is stored in a TEB in order is a leaf.
LEMMA FirstStoredIsLeaf ==
  ASSUME NEW t, Ordered(t)
  PROVE  t.tree_bit_cnt > 0 /\ ~Bit(t.T, 0)
<1>1. PICK tree : InOrder(t, tree)
  BY DEF Ordered
<1> DEFINE c == t.implicit_inner_node_cnt
<1>2. /\ Encodes(t, tree) /\ IsTree(tree)
      /\ c \in Nat /\ 0 .. c - 1 \subseteq tree.inner /\ c \notin tree.inner
      /\ t.tree_bit_cnt \in Nat /\ t.tree_bit_cnt > 0
  <2>1. /\ Encodes(t, tree) /\ IsTree(tree)
        /\ c \in 0 .. n - 1 /\ 0 .. c - 1 \subseteq tree.inner /\ c \notin tree.inner
        /\ t.tree_bit_cnt \in Nat \ {0}
    BY <1>1 DEF InOrder, Encodes
  <2> HIDE DEF c
  <2> QED
    BY <2>1, Height
<1>3. 0 .. 2 * c \subseteq tree.active /\ tree.active \subseteq Nat
  BY <1>2, ActiveWithoutGap, ActiveNodes
<1>4. c \in tree.active /\ 0 .. c - 1 \subseteq tree.active
  BY <1>2, <1>3
<1>5. Rank(tree.active, c) = c
  BY <1>2, <1>3, <1>4, RankOfFull
<1>6. ~is_inner_node(t, c)
  BY <1>2, <1>4, <1>5 DEF Encodes
<1>7. c < TrailingT(t) /\ c - c = 0
  BY <1>2 DEF TrailingT
<1> QED
  BY <1>2, <1>6, <1>7 DEF is_inner_node

\* Bitmap is about the same positions.
LEMMA BitmapPositions == Abstract!Pos = Pos
  BY DEF Abstract!Pos, Pos

\* A TEB is built from one of the contents.
LEMMA TreeStarts == InitTree => TreeInv /\ Abstract!Init
<1> SUFFICES ASSUME InitTree PROVE TreeInv /\ Abstract!Init
  OBVIOUS
<1>1. PICK bits \in Contents :
        /\ teb = Serialize(bits) /\ mbt = NoTree /\ content = bits
        /\ call = [op |-> "none"]
  BY DEF InitTree
<1>2. bits \in [Pos -> BOOLEAN]
  BY TreeMergeAssumption
<1>3. Ordered(teb) /\ Faultless(teb) /\ Decode(teb) = bits
  BY <1>1, <1>2, BuiltIsOrdered
<1>4. TreeInv
  BY <1>1, <1>2, <1>3 DEF TreeInv
<1>5. Abstract!Init
  BY <1>1, <1>2, BitmapPositions DEF Abstract!Init, Abstract!NoCall
<1> QED
  BY <1>4, <1>5

\* An update is asked for the bit that is not there: it flips it, or is declined and
\* leaves the TEB as it is.
LEMMA UpdateTebStep ==
  ASSUME TreeInv, mbt = NoTree, NEW i \in Pos, NEW diff_val \in BOOLEAN, UpdateTeb(i, diff_val)
  PROVE  TreeInv' /\ Abstract!Next /\ mbt' = NoTree
<1>1. PICK val, answer :
        /\ val = ~(content[i] # diff_val)
        /\ answer = update(teb, i, val, "hybrid", diff_val)
        /\ teb' = answer.teb
        /\ content' = IF teb'.faults = {} THEN Decode(teb') ELSE content
        /\ call' = IF answer.res = 1 THEN [op |-> "write", pos |-> i, val |-> ~content[i]]
                   ELSE [op |-> "maintain"]
        /\ mbt' = mbt
  BY DEF UpdateTeb
<1>2. /\ Ordered(teb) /\ Faultless(teb)
      /\ content \in [Pos -> BOOLEAN] /\ content = Decode(teb)
  BY DEF TreeInv
<1>3. val \in BOOLEAN /\ content[i] \in BOOLEAN
  BY <1>1, <1>2
<1>4. /\ Ordered(answer.teb)
      /\ \/ /\ answer.res = 0 /\ (Decode(teb)[i] # diff_val) = val
            /\ Decode(answer.teb) = Decode(teb)
         \/ /\ answer.res = 1 /\ (Decode(teb)[i] # diff_val) # val
            /\ Decode(answer.teb) = [Decode(teb) EXCEPT ![i] = ~@]
         \/ /\ answer.res = 2 /\ (Decode(teb)[i] # diff_val) # val
            /\ Decode(answer.teb) = Decode(teb)
  <2>1. answer = update(teb, i, val, "hybrid", diff_val) /\ Ordered(teb)
    BY <1>1, <1>2
  <2> QED
    BY <1>3, <2>1, UpdateAnswers, SMTT(30)
<1>5. Faultless(teb')
  <2>1. answer = update(teb, i, val, "hybrid", diff_val) /\ Ordered(teb) /\ Faultless(teb)
    BY <1>1, <1>2
  <2>2. Faultless(answer.teb)
    BY <1>3, <2>1, UpdateFaultless, SMTT(30)
  <2> QED
    BY <1>1, <2>2
<1>6. content' = Decode(teb')
  BY <1>1, <1>5 DEF Faultless
<1>7. TreeInv'
  BY <1>1, <1>4, <1>5, <1>6, DecodeType DEF TreeInv
<1>8. CASE answer.res = 1
  <2>1. call' = Abstract!Write(i, ~content[i])
    BY <1>1, <1>8 DEF Abstract!Write
  <2>2. content' = [content EXCEPT ![i] = ~content[i]]
    BY <1>1, <1>2, <1>4, <1>6, <1>8
  <2>3. Abstract!Put(i, ~content[i])
    BY <2>1, <2>2 DEF Abstract!Put
  <2> QED
    BY <1>1, <1>3, <1>7, <2>3, BitmapPositions DEF Abstract!Next
<1>9. CASE answer.res # 1
  <2>1. Abstract!Maintain
    BY <1>1, <1>2, <1>4, <1>6, <1>9 DEF Abstract!Maintain, Abstract!Maintenance
  <2> QED
    BY <1>1, <1>7, <2>1 DEF Abstract!Next
<1> QED
  BY <1>8, <1>9

\* Opening the tree changes no bit.
LEMMA OpenTreeStep ==
  ASSUME TreeInv, mbt = NoTree, OpenTree
  PROVE  TreeInv' /\ Abstract!Next /\ mbt' # NoTree
<1>1. /\ teb.implicit_inner_node_cnt > 0 /\ mbt' = FromTeb(teb)
      /\ content' = TreeBits(mbt') /\ call' = [op |-> "maintain"] /\ teb' = teb
  BY DEF OpenTree
<1>2. Ordered(teb) /\ Faultless(teb) /\ content = Decode(teb)
  BY DEF TreeInv
<1>3. PICK tree : InOrder(teb, tree) /\ SkippedArePerfect(tree)
  BY <1>2 DEF Ordered
<1>4. teb.implicit_inner_node_cnt \in 1 .. n - 1
  <2>1. teb.implicit_inner_node_cnt \in 0 .. n - 1 /\ n \in Nat
    BY <1>3, Height DEF InOrder
  <2> QED
    BY <1>1, <2>1
<1>5. /\ IsTree(mbt') /\ SkippedArePerfect(mbt')
      /\ \A p \in Pos : tree_test(mbt', p) = test(teb, p)
  BY <1>1, <1>3, <1>4, OpeningKeepsBits DEF InOrder
<1>6. content' = content
  BY <1>1, <1>2, <1>5 DEF TreeBits, Decode
<1>7. TreeInv' /\ mbt' # NoTree
  BY <1>1, <1>2, <1>5, NoTreeIsNone, TreeBitsType DEF TreeInv
<1>8. Abstract!Maintain
  BY <1>1, <1>6 DEF Abstract!Maintain, Abstract!Maintenance
<1> QED
  BY <1>7, <1>8 DEF Abstract!Next

\* What a write to the open tree leaves: a tree with the same levels perfect and the
\* one bit written.
LEMMA WrittenTree ==
  ASSUME TreeInv, mbt # NoTree, NEW i \in Pos, NEW val \in BOOLEAN,
         IsTree(mbt'), SkippedArePerfect(mbt'), teb' = teb,
         \A q \in Pos : tree_test(mbt', q) = IF q = i THEN val ELSE tree_test(mbt, q),
         content' = TreeBits(mbt'),
         call' = [op |-> "write", pos |-> i, val |-> val]
  PROVE  TreeInv' /\ Abstract!Next /\ mbt' # NoTree
<1>1. /\ Ordered(teb) /\ Faultless(teb)
      /\ content \in [Pos -> BOOLEAN] /\ content = TreeBits(mbt)
  BY DEF TreeInv
<1>2. content' = [content EXCEPT ![i] = val]
  <2>1. \A q \in Pos : content'[q] = IF q = i THEN val ELSE content[q]
    BY <1>1, TreeBitsType
  <2> QED
    BY <1>1, <2>1, TreeBitsType
<1>3. TreeInv' /\ mbt' # NoTree
  BY <1>1, NoTreeIsNone, TreeBitsType DEF TreeInv
<1>4. Abstract!Put(i, val)
  BY <1>2 DEF Abstract!Put, Abstract!Write
<1> QED
  BY <1>3, <1>4, BitmapPositions DEF Abstract!Next

\* toggle() on the open tree
LEMMA ToggleBitStep ==
  ASSUME TreeInv, mbt # NoTree, NEW i \in Pos, ToggleBit(i)
  PROVE  /\ TreeInv' /\ Abstract!Next /\ mbt' # NoTree
         /\ call'.pos = i /\ PathPruned(mbt', i)
<1>1. /\ mbt' = toggle(mbt, i) /\ content' = TreeBits(mbt') /\ teb' = teb
      /\ call' = [op |-> "write", pos |-> i, val |-> ~content[i]]
  BY DEF ToggleBit
<1>2. IsTree(mbt) /\ SkippedArePerfect(mbt) /\ content = TreeBits(mbt)
  BY DEF TreeInv
<1>3. /\ IsTree(mbt') /\ SkippedArePerfect(mbt') /\ PathPruned(mbt', i)
      /\ \A q \in Pos : tree_test(mbt', q) = IF q = i THEN ~tree_test(mbt, i)
                                             ELSE tree_test(mbt, q)
  <2>1. PICK after : after = toggle(mbt, i)
    OBVIOUS
  <2>2. /\ IsTree(after) /\ SkippedArePerfect(after) /\ PathPruned(after, i)
        /\ \A q \in Pos : tree_test(after, q) = IF q = i THEN ~tree_test(mbt, i)
                                               ELSE tree_test(mbt, q)
    BY <1>2, <2>1, ToggleFlipsOneBit
  <2> QED
    BY <1>1, <2>1, <2>2
<1>4. content[i] = tree_test(mbt, i) /\ (~content[i]) \in BOOLEAN
  BY <1>2, TreeBitsType
<1>5. \A q \in Pos : tree_test(mbt', q) = IF q = i THEN ~content[i] ELSE tree_test(mbt, q)
  BY <1>3, <1>4
<1>6. TreeInv' /\ Abstract!Next /\ mbt' # NoTree
  BY <1>1, <1>3, <1>4, <1>5, WrittenTree
<1> QED
  BY <1>1, <1>3, <1>6

\* set() on the open tree
LEMMA WriteBitStep ==
  ASSUME TreeInv, mbt # NoTree, NEW i \in Pos, NEW val \in BOOLEAN, WriteBit(i, val)
  PROVE  /\ TreeInv' /\ Abstract!Next /\ mbt' # NoTree
         /\ call'.pos = i /\ (content' # content => PathPruned(mbt', i))
<1>1. /\ mbt' = set(mbt, i, val) /\ content' = TreeBits(mbt') /\ teb' = teb
      /\ call' = [op |-> "write", pos |-> i, val |-> val]
  BY DEF WriteBit
<1>2. IsTree(mbt) /\ SkippedArePerfect(mbt) /\ content = TreeBits(mbt)
  BY DEF TreeInv
<1>3. /\ IsTree(mbt') /\ SkippedArePerfect(mbt')
      /\ mbt' # mbt => PathPruned(mbt', i)
      /\ \A q \in Pos : tree_test(mbt', q) = IF q = i THEN val ELSE tree_test(mbt, q)
  BY <1>1, <1>2, SetWritesOneBit
<1>4. content' # content => mbt' # mbt
  BY <1>1, <1>2
<1>5. TreeInv' /\ Abstract!Next /\ mbt' # NoTree
  BY <1>1, <1>3, WrittenTree
<1> QED
  BY <1>1, <1>3, <1>4, <1>5

\* The TEB made of the tree answers as the tree did.
LEMMA CloseTreeStep ==
  ASSUME TreeInv, mbt # NoTree, CloseTree
  PROVE  TreeInv' /\ Abstract!Next /\ mbt' = NoTree
<1>1. /\ teb' = ToTeb(mbt) /\ mbt' = NoTree /\ content' = Decode(teb')
      /\ call' = [op |-> "maintain"]
  BY DEF CloseTree
<1>2. IsTree(mbt) /\ SkippedArePerfect(mbt) /\ content = TreeBits(mbt)
  BY DEF TreeInv
<1>3. Ordered(teb') /\ Faultless(teb')
  BY <1>1, <1>2, ToTebInOrder DEF Ordered
<1>4. \A p \in Pos : test(teb', p) = tree_test(mbt, p)
  BY <1>1, <1>2, EncodingKeepsBits
<1>5. content' = content
  BY <1>1, <1>2, <1>4 DEF TreeBits, Decode
<1>6. TreeInv'
  BY <1>1, <1>3, DecodeType DEF TreeInv
<1>7. Abstract!Maintain
  BY <1>1, <1>5 DEF Abstract!Maintain, Abstract!Maintenance
<1> QED
  BY <1>1, <1>6, <1>7 DEF Abstract!Next

\* What the steps from an invariant state do.  While the tree is open a write that
\* changes a bit leaves its path pruned.
TreeStepKeeps ==
  /\ TreeInv'
  /\ [Abstract!Next]_(Abstract!vars)
  /\ mbt # NoTree /\ mbt' # NoTree /\ content' # content => PathPruned(mbt', call'.pos)

\* So do all the steps.
LEMMA TreeStep ==
  ASSUME TreeInv, [NextTree]_varsTree
  PROVE  TreeStepKeeps
<1>1. Touched \subseteq Pos
  BY TreeMergeAssumption
<1>2. ASSUME mbt = NoTree, NEW i \in Touched, NEW diff_val \in BOOLEAN, UpdateTeb(i, diff_val)
      PROVE  TreeStepKeeps
  BY <1>1, <1>2, UpdateTebStep DEF TreeStepKeeps
<1>3. CASE mbt = NoTree /\ OpenTree
  BY <1>3, OpenTreeStep DEF TreeStepKeeps
<1>4. ASSUME mbt # NoTree, NEW i \in Touched, ToggleBit(i)
      PROVE  TreeStepKeeps
  BY <1>1, <1>4, ToggleBitStep DEF TreeStepKeeps
<1>5. ASSUME mbt # NoTree, NEW i \in Touched, NEW val \in BOOLEAN, WriteBit(i, val)
      PROVE  TreeStepKeeps
  BY <1>1, <1>5, WriteBitStep DEF TreeStepKeeps
<1>6. CASE mbt # NoTree /\ CloseTree
  BY <1>6, CloseTreeStep DEF TreeStepKeeps
<1>7. CASE UNCHANGED varsTree
  <2>1. teb' = teb /\ mbt' = mbt /\ content' = content /\ call' = call
    BY <1>7 DEF varsTree
  <2>2. TreeInv'
    BY <2>1 DEF TreeInv
  <2> QED
    BY <2>1, <2>2 DEF TreeStepKeeps, Abstract!vars
<1> QED
  BY <1>2, <1>3, <1>4, <1>5, <1>6, <1>7 DEF NextTree

\* The invariant of TreeMerge
LEMMA TreeInvariant == SpecTree => []TreeInv
<1>1. TreeInv /\ [NextTree]_varsTree => TreeInv'
  BY TreeStep DEF TreeStepKeeps
<1> QED
  BY <1>1, TreeStarts, PTL DEF SpecTree

\* The flags of an open tree describe a tree, however it was made and written to.
THEOREM TreeTypeCorrect == SpecTree => []TypeOK
<1>1. TreeInv => TypeOK
  BY DEF TreeInv, TypeOK
<1> QED
  BY <1>1, TreeInvariant, PTL

\* The node that the constructor of the tree takes for a leaf is one, after every
\* build, merge and in-place update.
THEOREM FirstLeafStays == SpecTree => []FirstExplicitIsLeaf
<1>1. TreeInv => FirstExplicitIsLeaf
  BY FirstStoredIsLeaf DEF TreeInv, FirstExplicitIsLeaf
<1> QED
  BY <1>1, TreeInvariant, PTL

\* No write collapses a node of the levels that the walks of the tree skip.
THEOREM SkippedStay == SpecTree => []SkippedLevelsStay
<1>1. TreeInv => SkippedLevelsStay
  BY DEF TreeInv, SkippedLevelsStay
<1> QED
  BY <1>1, TreeInvariant, PTL

\* Updates in place and ways through the tree, mixed in any order, leave a TEB with
\* the counters, free bits and level offsets of one tree, and go outside no array.
THEOREM TreeKeepsShape ==
  SpecTree => [](/\ teb.faults = {}
                 /\ mbt = NoTree => /\ TebTypeOK /\ FreeBitsAreTheRest
                                    /\ TreeIsFull /\ OffsetsPointToLevels)
<1>1. TreeInv => /\ teb.faults = {}
                 /\ mbt = NoTree => /\ TebTypeOK /\ FreeBitsAreTheRest
                                    /\ TreeIsFull /\ OffsetsPointToLevels
  BY OrderedShape DEF TreeInv, Faultless
<1> QED
  BY <1>1, TreeInvariant, PTL

\* The runs that a write joins are one leaf again, on all levels.
THEOREM WritesPrune == SpecTree => PathIsPruned
<1> DEFINE Pruned ==
      mbt # NoTree /\ mbt' # NoTree /\ content' # content
        => \A l \in mbt.perfect + 1 .. h - 1 :
             NodeAbove(call'.pos, l) \in mbt'.inner
               => ~Collapsible(mbt', NodeAbove(call'.pos, l))
<1>1. TreeInv /\ [NextTree]_varsTree => [Pruned]_varsTree
  <2> SUFFICES ASSUME TreeInv, [NextTree]_varsTree, mbt # NoTree, mbt' # NoTree,
                      content' # content, NEW l \in mbt.perfect + 1 .. h - 1
               PROVE  NodeAbove(call'.pos, l) \in mbt'.inner
                        => ~Collapsible(mbt', NodeAbove(call'.pos, l))
    OBVIOUS
  <2>1. PathPruned(mbt', call'.pos)
    BY TreeStep DEF TreeStepKeeps
  <2>2. l \in 0 .. h - 1
    <3>1. mbt.perfect \in 1 .. h + 1
      BY DEF TreeInv, IsTree
    <3> QED
      BY <3>1, Height
  <2> QED
    BY <2>1, <2>2 DEF PathPruned
<1>2. SpecTree => [][Pruned]_varsTree
  BY <1>1, TreeInvariant, PTL DEF SpecTree
<1> QED
  BY <1>2 DEF PathIsPruned

\* TEB and tree together are a plain bitmap: updates in place, opening, writes and
\* encoding, in any order, change the bit that is written and no other.
THEOREM TreeMergeImplementsBitmap == SpecTree => ImplementsBitmap
<1>1. TreeInv /\ [NextTree]_varsTree => [Abstract!Next]_(Abstract!vars)
  BY TreeStep DEF TreeStepKeeps
<1> QED
  BY <1>1, TreeStarts, TreeInvariant, PTL DEF SpecTree, ImplementsBitmap, Abstract!Spec

-----------------------------------------------------------------------------
\* What TebAlone keeps true: the TEB is in order, and the client is told its bits.
AloneInv ==
  /\ content = Decode(teb)
  /\ Ordered(teb) /\ Faultless(teb)
  /\ BuildKeepsBits

\* A TEB that was just built has the bits it was built from.
LEMMA AloneInit ==
  ASSUME InitAlone([Pos -> BOOLEAN])
  PROVE  AloneInv
<1>1. PICK bits \in [Pos -> BOOLEAN] :
        teb = Serialize(bits) /\ content = Decode(teb) /\ call = [op |-> "build", bits |-> bits]
  BY DEF InitAlone
<1>2. Ordered(teb) /\ Faultless(teb) /\ Decode(teb) = bits
  BY <1>1, BuiltIsOrdered
<1>3. BuildKeepsBits
  BY <1>1, <1>2 DEF BuildKeepsBits
<1> QED
  BY <1>1, <1>2, <1>3 DEF AloneInv

\* An update through a diff writes the bit it answers for, or nothing.
LEMMA AloneUpdate ==
  ASSUME AloneInv, NEW i \in Pos, NEW val \in BOOLEAN, NEW diff_val \in BOOLEAN,
         UpdateAs("hybrid", i, val, diff_val)
  PROVE  /\ AloneInv'
         /\ call'.op = "update" /\ call'.res = 1
              => content' = [content EXCEPT ![call'.pos] = call'.val]
<1>1. PICK answer :
        /\ answer = update(teb, i, val, "hybrid", diff_val)
        /\ teb' = answer.teb
        /\ content' = IF Sound(teb') THEN Decode(teb') ELSE content
        /\ call' = IF answer.res = 1
                     THEN [op |-> "update", res |-> 1, pos |-> i, val |-> (val # diff_val)]
                     ELSE [op |-> "update", res |-> answer.res]
  BY DEF UpdateAs
<1>2. content = Decode(teb) /\ Ordered(teb) /\ Faultless(teb)
  BY DEF AloneInv
<1>3. Ordered(teb') /\ Faultless(teb')
  BY <1>1, <1>2, UpdateAnswers, UpdateFaultless
<1>4. content' = Decode(teb')
  BY <1>1, <1>3 DEF Sound, Faultless
<1>5. call'.op = "update" /\ BuildKeepsBits'
  <2>1. call'.op = "update"
    BY <1>1
  <2> QED
    BY <2>1 DEF BuildKeepsBits
<1>6. AloneInv'
  BY <1>3, <1>4, <1>5 DEF AloneInv
<1>7. CASE answer.res = 1
  <2>1. call'.pos = i /\ call'.val = (val # diff_val)
    BY <1>1, <1>7
  <2>2. (Decode(teb)[i] # diff_val) # val /\ Decode(teb') = [Decode(teb) EXCEPT ![i] = ~@]
    BY <1>1, <1>2, <1>7, UpdateAnswers
  <2>3. Decode(teb)[i] \in BOOLEAN
    BY DecodeType
  <2>4. (~Decode(teb)[i]) = (val # diff_val)
    <3>1. \A a \in BOOLEAN, c \in BOOLEAN, d \in BOOLEAN : (a # d) # c => (~a) = (c # d)
      OBVIOUS
    <3> QED
      BY <2>2, <2>3, <3>1
  <2>5. content' = [content EXCEPT ![i] = (val # diff_val)]
    <3>1. PICK was : was = Decode(teb)
      OBVIOUS
    <3>2. Decode(teb') = [was EXCEPT ![i] = ~was[i]]
      BY <2>2, <3>1
    <3>3. Decode(teb') = [was EXCEPT ![i] = (val # diff_val)]
      BY <2>4, <3>1, <3>2
    <3> QED
      BY <1>2, <1>4, <3>1, <3>3
  <2> QED
    BY <1>6, <2>1, <2>5
<1>8. CASE answer.res # 1
  <2>1. call'.res # 1
    BY <1>1, <1>8
  <2> QED
    BY <1>6, <2>1
<1> QED
  BY <1>7, <1>8

\* The invariant above is one of each behaviour.
LEMMA AloneInvariant == SpecAlone => []AloneInv
<1>1. AloneInv /\ [NextAlone]_varsAlone => AloneInv'
  <2> SUFFICES ASSUME AloneInv, [NextAlone]_varsAlone PROVE AloneInv'
    OBVIOUS
  <2>1. CASE NextAlone
    BY <2>1, AloneUpdate DEF NextAlone
  <2>2. CASE UNCHANGED varsAlone
    BY <2>2 DEF varsAlone, AloneInv, BuildKeepsBits
  <2> QED
    BY <2>1, <2>2
<1> QED
  BY <1>1, AloneInit, PTL DEF SpecAlone

\* A TEB answers as the bitmap it was built from, for every length and whatever of
\* the tree is pruned away or only counted.
THEOREM AloneKeepsBits == SpecAlone => []BuildKeepsBits
<1>1. AloneInv => BuildKeepsBits
  BY DEF AloneInv
<1> QED
  BY <1>1, AloneInvariant, PTL

\* An update through a diff that answers 1 has written the bit it was asked for, and
\* no other; of run-breaking updates, which such a client never makes, this
\* does not hold.
THEOREM AloneChangesOneBit == SpecAlone => UpdateChangesOneBit
<1>1. AloneInv /\ [NextAlone]_varsAlone
        => [(call'.op = "update" /\ call'.res = 1)
              => content' = [content EXCEPT ![call'.pos] = call'.val]]_varsAlone
  BY AloneUpdate DEF NextAlone
<1> QED
  BY <1>1, AloneInvariant, PTL DEF SpecAlone, UpdateChangesOneBit

\* The shape of a TEB that is updated and never merged or pruned: counters that do
\* not wrap, free bits, labels, offsets, and no access outside the arrays.
THEOREM AloneKeepsShape ==
  SpecAlone => [](TebTypeOK /\ NoFaults /\ FreeBitsAreTheRest /\ TreeIsFull /\ OffsetsPointToLevels)
<1>1. AloneInv => TebTypeOK /\ NoFaults /\ FreeBitsAreTheRest /\ TreeIsFull /\ OffsetsPointToLevels
  BY OrderedShape DEF AloneInv, Faultless, NoFaults, Sound
<1> QED
  BY <1>1, AloneInvariant, PTL
=============================================================================
