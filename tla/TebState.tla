------------------------------ MODULE TebState ------------------------------
(***************************************************************************)
(* What the clients that hold a tree-encoded bitmap have in common: the    *)
(* TEB, what it answers, the call made last, and the invariants of a TEB   *)
(* between two calls.  TebAlone updates the TEB on its own, Teb prunes it  *)
(* too, HybridTeb puts a diff in front of it, TreeMerge opens it as a      *)
(* mutable tree.                                                           *)
(***************************************************************************)
EXTENDS TebUpdate

VARIABLES
  teb,          \* the encoded bitmap
  content,      \* what is read at each position
  call          \* the last call: what it asked for, and the answer

Sound(t) == t.faults = {}

-----------------------------------------------------------------------------
HasOne == Sound(teb) /\ \E i \in Pos : content[i]

InnerCnt(t) ==
  t.implicit_inner_node_cnt + Cardinality({k \in 0 .. t.tree_bit_cnt - 1 : Bit(t.T, k)})

\* The first node of each level, counted down from the root
LevelBegin(t) ==
  LET begin[l \in 0 .. h + 1] ==
        IF l = 0 THEN 0
        ELSE IF l = 1 THEN 1
        ELSE begin[l - 1]
               + 2 * Cardinality({v \in begin[l - 2] .. begin[l - 1] - 1 : is_inner_node(t, v)})
  IN  begin

\* As long as there is a 1-bit, the counters are those of a tree with no more
\* nodes and labels than the perfect one: none of the u32 differences wraps.
TebTypeOK ==
  /\ teb.T \in [0 .. Capacity(teb.T) - 1 -> BOOLEAN]
  /\ teb.L \in [0 .. Capacity(teb.L) - 1 -> BOOLEAN]
  /\ content \in [Pos -> BOOLEAN]
  /\ HasOne =>
       /\ teb.perfect_level_cnt \in 1 .. h + 1
       /\ {teb.implicit_inner_node_cnt, teb.implicit_trailing_leaf_cnt,
           teb.implicit_leading_label_cnt, teb.implicit_trailing_label_cnt} \subseteq 0 .. n
       /\ NodeCnt(teb) <= 2 * n
       /\ LabelCnt(teb) <= n
       /\ teb.label_bit_cnt \in 1 .. Capacity(teb.L)
       /\ teb.tree_bit_cnt \in 1 .. Greater(1, Capacity(teb.T))

\* Nothing that building or updating does word-wise goes outside the arrays of
\* the TEB, however often the TEB was pruned in between.
NoFaults == call.op # "prune" => Sound(teb)

\* The free bits that update() and prune() spend are the bits of the arrays
\* that are not in use, after any mix of updates that use them up and prunes
\* that give them back.
FreeBitsAreTheRest ==
  /\ HasOne /\ DOMAIN teb.T # {} => teb.tree_bit_cnt + teb.free_bits_T = Capacity(teb.T)
  /\ HasOne => teb.label_bit_cnt + teb.free_bits_L = Capacity(teb.L)

\* The counters describe one tree: each inner node has two children, and each
\* node that is not inner has a label, stored or counted.
TreeIsFull ==
  /\ HasOne => NodeCnt(teb) = 2 * InnerCnt(teb) + (IF DOMAIN teb.T = {} THEN 2 ELSE 1)
  /\ HasOne => LabelCnt(teb) = InnerCnt(teb) + 1

\* The offsets of the levels, which the builder writes once and updates and
\* prunes only adjust, are where the levels of the tree begin; update() tells
\* by them whether a bit has a leaf of its own.
OffsetsPointToLevels ==
  HasOne => \A l \in teb.perfect_level_cnt .. h :
    /\ teb.level_offsets_tree[l] = LevelBegin(teb)[l]
    /\ teb.level_offsets_labels[l] =
         Cardinality({v \in 0 .. LevelBegin(teb)[l] - 1 : ~is_inner_node(teb, v)})
=============================================================================
