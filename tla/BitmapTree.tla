----------------------------- MODULE BitmapTree -----------------------------
(***************************************************************************)
(* bitmap_tree: the binary tree put on top of a bitmap before it is        *)
(* encoded.  Nodes are numbered as in a perfect binary tree (root 0,       *)
(* children 2v+1 and 2v+2).  A node is pruned to a leaf when all the bits  *)
(* below it are equal and the bottom-up pruning gets as far as its level.  *)
(***************************************************************************)
EXTENDS Integers, FiniteSets, FiniteSetsExt

CONSTANT N          \* the length of the bitmap

ASSUME BitmapTreeAssumption == N \in Nat \ {0, 1}

Log2(m) == CHOOSE k \in 0 .. m : 2^k <= m /\ m < 2^(k + 1)

h == CHOOSE k \in 0 .. N : 2^k >= N /\ (k = 0 \/ 2^(k - 1) < N)   \* height_
n == 2^h                                                          \* n_

Pos   == 0 .. N - 1
Slots == 0 .. n - 1             \* the leaves of the perfect tree
Nodes == 0 .. 2 * n - 2

parent_of(v) == (v - 1) \div 2
level_of(v)  == Log2(v + 1)
first_node_idx_at_level(l) == 2^l - 1
Level(l) == first_node_idx_at_level(l) .. 2 * first_node_idx_at_level(l)

\* init_tree: the bitmap, rounded up with 0-bits
Padded(content) == [i \in Slots |-> i \in Pos /\ content[i]]

\* The slots below a node
Below(v) ==
  LET width == 2^(h - level_of(v))
      first == (v - first_node_idx_at_level(level_of(v))) * width
  IN  first .. first + width - 1

\* init_labels: the label of a node is the OR of the labels of its children.
label(bits, v) == \E i \in Below(v) : bits[i]

\* Mutant of Uniform: the labels of the children agree, though they may not be
\* leaves.
UniformLabels(bits, v) == label(bits, 2 * v + 1) = label(bits, 2 * v + 2)

\* Both children are leaves and have the same label.
Uniform(bits, v) == \A i \in Below(v) : bits[i] = label(bits, v)

\* One round of prune_tree collapses the uniform nodes of a level; the rounds
\* end early, with the first level where too few nodes collapse.
Collapsed(bits, l) == {v \in Level(l) : Uniform(bits, v)}

RoundIsLast(bits, l) ==
  LET collapse_cnt == Cardinality(Collapsed(bits, l))
  IN  collapse_cnt < (2^l - collapse_cnt) \div 2

RoundRuns(bits, l) == \A k \in l + 1 .. h - 1 : ~RoundIsLast(bits, k)

\* prune_tree: what is a leaf afterwards, and which nodes are still there
is_leaf_node(bits, v) ==
  \/ level_of(v) = h
  \/ Uniform(bits, v) /\ RoundRuns(bits, level_of(v))

Leaves(bits)   == {v \in Nodes : is_leaf_node(bits, v)}
Active(leaves) == {v \in Nodes : v = 0 \/ parent_of(v) \notin leaves}

\* Mutant of FirstExplicit: the last inner node that leads is stored as well.
FirstExplicitOneShort(leaves) == IF 0 \in leaves THEN 0 ELSE Min(leaves) - 1

\* The first node that is stored is the first leaf.
FirstExplicit(leaves) == Min(leaves)

\* init_counters: the shape of the pruned tree, and which nodes and labels
\* have to be stored.  Inner nodes that lead, leaves that trail, and the
\* 0-labels at both ends are only counted.
CountersOf(active, leaves, ones) ==
  LET inner == active \ leaves
      begin == FirstExplicit(leaves)
      end   == IF inner = {} THEN 0 ELSE Max(inner) + 1
  IN  [inner            |-> inner,
       active           |-> active,
       leaves           |-> leaves,
       ones             |-> ones,
       explicit_nodes   |-> {v \in active : begin <= v /\ v < end},
       explicit_labels  |-> IF ones = {} THEN {}
                              ELSE {v \in leaves : Min(ones) <= v /\ v <= Max(ones)},
       leading_inner_node_cnt |-> begin,
       trailing_leaf_node_cnt |-> Cardinality({v \in leaves : v >= end}),
       leading_0label_cnt     |-> Cardinality({v \in leaves : ones = {} \/ v < Min(ones)}),
       trailing_0label_cnt    |->
         IF ones = {} THEN 0 ELSE Cardinality({v \in leaves : v > Max(ones)})]

Counters(bits) ==
  LET active == Active(Leaves(bits))
      leaves == active \cap Leaves(bits)
  IN  CountersOf(active, leaves, {v \in leaves : label(bits, v)})

perfect_level_cnt(counters) == Log2(counters.leading_inner_node_cnt + 1) + 1
=============================================================================
