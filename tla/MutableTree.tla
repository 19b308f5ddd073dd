---------------------------- MODULE MutableTree ----------------------------
(***************************************************************************)
(* mutable_bitmap_tree: a TEB taken apart into a binary tree in which      *)
(* single bits can be written, and the way back.  A tree is a record: the  *)
(* nodes flagged as inner and as active, the nodes whose label bit is set  *)
(* (inner nodes keep the label they had as leaves), and the number of      *)
(* levels that were perfect in the TEB, which writes never change.         *)
(***************************************************************************)
EXTENDS TebFlat

Children(v) == {2 * v + 1, 2 * v + 2}

SetInner(tree, v) ==
  [tree EXCEPT !.inner = @ \cup {v}, !.active = @ \cup Children(v)]

\* Mutant of SetLeaf: the children stay active.
SetLeafKeepsChildren(tree, v) == [tree EXCEPT !.inner = @ \ {v}]

\* Only called for a node above two leaves
SetLeaf(tree, v) == [tree EXCEPT !.inner = @ \ {v}, !.active = @ \ Children(v)]

SetLabel(tree, v, val) ==
  [tree EXCEPT !.labels = IF val THEN @ \cup {v} ELSE @ \ {v}]

\* The flags describe a tree: a node is active if and only if it is the root
\* or the child of an inner node, and only active nodes are inner
\* (validate_active_nodes).  No node of the last level is inner, and no label
\* outside the tree's nodes is set.
IsTree(tree) ==
  /\ tree \in [inner : SUBSET (0 .. n - 2), active : SUBSET Nodes,
               labels : SUBSET Nodes, perfect : 1 .. h + 1]
  /\ tree.inner \subseteq tree.active
  /\ tree.active = {0} \cup UNION {Children(v) : v \in tree.inner}

\* The levels that test(), set() and toggle() skip are perfect.
SkippedArePerfect(tree) ==
  0 .. first_node_idx_at_level(tree.perfect - 1) - 1 \subseteq tree.inner

-----------------------------------------------------------------------------
\* The constructor from a TEB.  T and L are read bit by bit from their first
\* stored bit on, with 0 behind their ends; the nodes of the tree that are
\* stored are met in level order.  The first of them is taken for a leaf,
\* whatever its bit in T says.
Upper(t) ==
  LET c == t.implicit_inner_node_cnt
  IN  [inner  |-> 0 .. c - 1, active |-> 0 .. Lesser(2 * c, 2 * n - 2), labels |-> {},
       perfect |-> Log2(c + 1) + 1]

NextLabel(t, i) ==
  /\ i >= t.implicit_leading_label_cnt
  /\ i < TrailingL(t)
  /\ Bit(t.L, i - t.implicit_leading_label_cnt)

NextNode(t, i) == i < t.tree_bit_cnt /\ Bit(t.T, i)

FromTeb(t) ==
  LET c == t.implicit_inner_node_cnt
      read[v \in c - 1 .. 2 * n - 2] ==
        IF v = c - 1 THEN [tree |-> Upper(t), nodes |-> 0, labels |-> 0]
        ELSE LET r == read[v - 1] IN
          IF parent_of(v) \notin r.tree.inner THEN r
          ELSE IF v # c /\ NextNode(t, r.nodes)
            THEN [r EXCEPT !.tree = SetInner(@, v), !.nodes = @ + 1]
          ELSE [tree   |-> SetLabel(r.tree, v, NextLabel(t, r.labels)),
                nodes  |-> r.nodes + 1,
                labels |-> r.labels + 1]
  IN  read[2 * n - 2].tree

-----------------------------------------------------------------------------
\* The node above a slot on a level of the perfect tree
NodeAbove(pos, l) == first_node_idx_at_level(l) + pos \div 2^(h - l)

\* The walk of test(), set() and toggle(), from the last perfect level down
LeafLevel(tree, pos) ==
  CHOOSE l \in tree.perfect - 1 .. h :
    /\ NodeAbove(pos, l) \notin tree.inner
    /\ \A k \in tree.perfect - 1 .. l - 1 : NodeAbove(pos, k) \in tree.inner

tree_test(tree, pos) == NodeAbove(pos, LeafLevel(tree, pos)) \in tree.labels

\* Mutant of Expand: a sibling keeps the label it had when it was last a leaf.
ExpandKeepsSiblings(tree, pos, value) ==
  LET top  == LeafLevel(tree, pos)
      path == {NodeAbove(pos, l) : l \in top .. h - 1}
  IN  SetLabel([tree EXCEPT !.inner  = @ \cup path,
                            !.active = @ \cup UNION {Children(v) : v \in path}],
               NodeAbove(pos, h), value)

\* The run that a leaf stands for is broken: down to the last level, each node
\* above pos becomes inner, and each sibling gets the label the leaf had.
Expand(tree, pos, value) ==
  LET top     == LeafLevel(tree, pos)
      path    == {NodeAbove(pos, l) : l \in top .. h - 1}
      sibling == (UNION {Children(v) : v \in path}) \ {NodeAbove(pos, l) : l \in top .. h}
      opened  == [tree EXCEPT !.inner  = @ \cup path,
                              !.active = @ \cup UNION {Children(v) : v \in path},
                              !.labels = IF value THEN @ \ sibling ELSE @ \cup sibling]
  IN  SetLabel(opened, NodeAbove(pos, h), value)

\* Mutant of Collapsible: on any level.
CollapsibleAnywhere(tree, v) ==
  /\ Children(v) \cap tree.inner = {}
  /\ 2 * v + 1 \in tree.labels <=> 2 * v + 2 \in tree.labels

\* Nodes of the perfect levels, and of the first level below them, stay.
Collapsible(tree, v) ==
  /\ level_of(v) > tree.perfect
  /\ Children(v) \cap tree.inner = {}
  /\ 2 * v + 1 \in tree.labels <=> 2 * v + 2 \in tree.labels

\* Mutant of CollapseUp: only the parent of the written node is looked at.
CollapseOnce(tree, pos) ==
  LET v == NodeAbove(pos, h - 1) IN
  IF ~Collapsible(tree, v) THEN tree
  ELSE SetLabel(SetLeaf(tree, v), v, 2 * v + 1 \in tree.labels)

\* Bottom-up, until the first node that does not collapse
CollapseUp(tree, pos) ==
  LET up[l \in 0 .. h] ==
        IF l = h THEN [tree |-> tree, going |-> TRUE]
        ELSE LET below == up[l + 1]
                 v     == NodeAbove(pos, l)
             IN  IF below.going /\ l > 0 /\ Collapsible(below.tree, v)
                   THEN [tree  |-> SetLabel(SetLeaf(below.tree, v), v,
                                            2 * v + 1 \in below.tree.labels),
                         going |-> TRUE]
                   ELSE [below EXCEPT !.going = FALSE]
  IN  up[0].tree

write(tree, pos, value) == CollapseUp(Expand(tree, pos, value), pos)

toggle(tree, pos) == write(tree, pos, ~tree_test(tree, pos))

set(tree, pos, value) ==
  IF tree_test(tree, pos) = value THEN tree ELSE write(tree, pos, value)

\* merge_tree: the bits of the diff are toggled, in ascending order.
ToggleAll(tree, diff) ==
  LET toggled[k \in 0 .. N] ==
        IF k = 0 THEN tree
        ELSE IF diff[k - 1] THEN toggle(toggled[k - 1], k - 1)
        ELSE toggled[k - 1]
  IN  toggled[N]

-----------------------------------------------------------------------------
\* The way back: teb_builder on the counters of the tree
ToTeb(tree) ==
  LET leaves == tree.active \ tree.inner
  IN  SerializeTree(CountersOf(tree.active, leaves, leaves \cap tree.labels))
=============================================================================
