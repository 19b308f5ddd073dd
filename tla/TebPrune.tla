------------------------------ MODULE TebPrune ------------------------------
(***************************************************************************)
(* teb_flat::prune: the tree is walked bottom-up, right subtree before     *)
(* left; an inner node whose children are leaves with equal labels becomes *)
(* a leaf, if the free bits are enough to store what was only counted.     *)
(* Afterwards T and L are trimmed.                                         *)
(***************************************************************************)
EXTENDS TebUpdate

\* Mutant of ShiftTreeOffsets: the level itself moves as well.
ShiftTreeOffsetsFrom(t, level, cnt) ==
  [t EXCEPT !.level_offsets_tree = [l \in 0 .. h |-> IF l >= level THEN U(@[l] + cnt) ELSE @[l]]]

\* The entries of the level offsets below a level move by cnt.
ShiftTreeOffsets(t, level, cnt) ==
  [t EXCEPT !.level_offsets_tree = [l \in 0 .. h |-> IF l > level THEN U(@[l] + cnt) ELSE @[l]]]

ShiftLabelOffsets(t, level, cnt) ==
  [t EXCEPT !.level_offsets_labels = [l \in 0 .. h |-> IF l > level THEN U(@[l] + cnt) ELSE @[l]]]

-----------------------------------------------------------------------------
\* What the collapse of node v, above the leaves left and left + 1, needs
CostT(t, v) == Greater(0, t.implicit_inner_node_cnt - v)

\* Mutant of CostL: the bit of the parent's own label is forgotten.
CostLOffByOne(t, label_idx, val) ==
  IF ~val THEN 0
  ELSE IF label_idx < t.implicit_leading_label_cnt
    THEN t.implicit_leading_label_cnt - label_idx
  ELSE Greater(0, label_idx - TrailingL(t) + 1)

CostL(t, label_idx, val) ==
  IF ~val THEN 0
  ELSE IF label_idx < t.implicit_leading_label_cnt
    THEN t.implicit_leading_label_cnt - label_idx + 1
  ELSE Greater(0, label_idx - TrailingL(t) + 1)

\* The labels of the two leaves go.
RemoveChildLabels(t, left) ==
  LET right    == left + 1
      leading  == {k \in {left, right} : k < t.implicit_leading_label_cnt}
      trailing == {k \in {left, right} : k >= TrailingL(t)}
      both     == {left, right}
  IN  IF leading = both \/ trailing = both
        THEN LET lead == IF leading = both THEN LeadL(t, -2) ELSE t
             IN  IF trailing = both THEN TrailL(lead, -2) ELSE lead
      ELSE IF left \in leading
        THEN LeadL(GrowL(remove_from_labels(t, 0, 1), -1), -1)
      ELSE IF right \in trailing
        THEN TrailL(GrowL(set_label_bit(t, t.label_bit_cnt - 1, FALSE), -1), -1)
      ELSE GrowL(remove_from_labels(t, left - t.implicit_leading_label_cnt, 2), -2)

\* The two leaves go.
RemoveChildNodes(t, left) ==
  IF left >= TrailingT(t) THEN TrailT(t, -2)
  ELSE IF left + 1 >= TrailingT(t) THEN GrowT(TrailT(t, -1), -1)
  ELSE GrowT(remove_from_tree(t, left - t.implicit_inner_node_cnt, 2), -2)

\* The parent becomes a leaf; a parent that was only counted is stored first,
\* with all the inner nodes behind it.
MakeLeaf(t, v, cost) ==
  LET Prepend(s, cnt) == LeadT(GrowT(s, cnt), -cnt)
      stored == IF cost >= W
                  THEN Prepend(prepend_words_T(
                                 Prepend(insert_into_tree(t, 0, cost % W, TRUE), cost % W),
                                 cost \div W),
                               W * (cost \div W))
                  ELSE Prepend(insert_into_tree(t, 0, cost, TRUE), cost)
  IN  IF v < t.implicit_inner_node_cnt THEN set_tree_bit(stored, 0, FALSE)
      ELSE set_tree_bit(t, v - t.implicit_inner_node_cnt, FALSE)

\* The parent gets the label of its leaves.
InsertParentLabel(t, label_idx, val, cost, leading, trailing) ==
  IF ~leading /\ ~trailing
    THEN GrowL(insert_into_labels(t, label_idx - t.implicit_leading_label_cnt, 1, val), 1)
  ELSE IF ~val
    THEN IF leading THEN LeadL(t, 1) ELSE TrailL(t, 1)
  ELSE IF leading
    THEN set_label_bit(LeadL(PrependLabels(t, cost, cost >= W), 1 - cost), 0, TRUE)
  ELSE LET grown == TrailL(GrowL(t, cost), 1 - cost)
       IN  set_label_bit(grown, grown.label_bit_cnt + cost - 1, TRUE)

\* The assertions made after every collapse
CollapseAsserts(before, after) ==
  /\ NodeCnt(after) = NodeCnt(before) - 2
  /\ LabelCnt(after) = LabelCnt(before) - 1
  /\ after.free_bits_L = Capacity(after.L) - after.label_bit_cnt
  /\ after.free_bits_T = Capacity(after.T) - after.tree_bit_cnt

Collapse(t, v, level) ==
  LET left      == 2 * rank_inclusive(t, v) - 1
      val       == get_label(t, left + 1)
      label_idx == v - (rank_inclusive(t, v) - 1)
      cost_T    == CostT(t, v)
      cost_L    == CostL(t, label_idx, val)
      bare      == RemoveChildNodes(RemoveChildLabels(t, get_label_idx(t, left)), left)
      lowered   == IF level + 1 < t.perfect_level_cnt
                     THEN [bare EXCEPT !.perfect_level_cnt = @ - 1] ELSE bare
      leaf      == MakeLeaf(lowered, v, cost_T)
      labelled  == InsertParentLabel(leaf, label_idx, val, cost_L,
                                     label_idx < t.implicit_leading_label_cnt,
                                     label_idx >= TrailingL(t))
      shifted   == ShiftLabelOffsets(ShiftLabelOffsets(ShiftTreeOffsets(
                     labelled, level + 1, -2), level + 1, -2), level, 1)
  IN  IF cost_T > t.free_bits_T \/ cost_L > t.free_bits_L THEN t
      ELSE [shifted EXCEPT !.faults = @ \cup FaultIf(~CollapseAsserts(t, shifted), "assert")]

-----------------------------------------------------------------------------
RECURSIVE prune_traverse(_, _, _)
prune_traverse(t, v, level) ==
  LET Child(s, c) ==
        IF c >= NodeCnt(s) THEN [s EXCEPT !.faults = @ \cup {"assert"}]
        ELSE IF is_inner_node(s, c) THEN prune_traverse(s, c, level + 1)
        ELSE s
      right == Child(t, 2 * rank_inclusive(t, v))
      below == Child(right, 2 * rank_inclusive(right, v) - 1)
      left  == 2 * rank_inclusive(below, v) - 1
  IN  IF t.faults # {} \/ v >= NodeCnt(t) - 1 \/ ~is_inner_node(t, v) THEN t
      ELSE IF /\ below.faults = {}
              /\ ~is_inner_node(below, left) /\ ~is_inner_node(below, left + 1)
              /\ get_label(below, left) = get_label(below, left + 1)
        THEN Collapse(below, v, level)
      ELSE below

LastOne(a)  == IF \E k \in DOMAIN a : a[k] THEN Max({k \in DOMAIN a : a[k]}) ELSE Capacity(a)
FirstOne(a) == IF \E k \in DOMAIN a : a[k] THEN Min({k \in DOMAIN a : a[k]}) ELSE Capacity(a)

\* The last indices are u32 differences, as the counts are.
TrimTrailingT(t) ==
  LET cnt == U(t.tree_bit_cnt - 1) - LastOne(t.T)
  IN  IF cnt > 0 THEN TrailT(GrowT(t, -cnt), cnt) ELSE t

TrimLeadingL(t) ==
  LET cnt == FirstOne(t.L)
  IN  IF 0 < cnt /\ cnt < W THEN LeadL(GrowL(remove_from_labels(t, 0, cnt), -cnt), cnt) ELSE t

\* Mutant of TrimTrailingL: the trimmed labels are not counted.
TrimTrailingLUncounted(t) ==
  LET cnt == U(t.label_bit_cnt - 1) - LastOne(t.L)
  IN  IF cnt > 0 THEN GrowL(t, -cnt) ELSE t

TrimTrailingL(t) ==
  LET cnt == U(t.label_bit_cnt - 1) - LastOne(t.L)
  IN  IF cnt > 0 THEN TrailL(GrowL(t, -cnt), cnt) ELSE t

prune(t) ==
  LET pruned == prune_traverse(t, 0, 0)
  IN  IF pruned.faults # {} THEN pruned
      ELSE TrimTrailingL(TrimLeadingL(TrimTrailingT(pruned)))
=============================================================================
