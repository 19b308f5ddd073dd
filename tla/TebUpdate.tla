----------------------------- MODULE TebUpdate -----------------------------
(***************************************************************************)
(* In-place updates of a tree-encoded bitmap: teb_flat::update, for a bit  *)
(* that has a leaf of its own, and runbreaking_update, which grows the     *)
(* tree below a leaf that stands for a run.  An update answers 0 (the bit  *)
(* has the value already), 1 (done in place) or 2 (declined).              *)
(***************************************************************************)
EXTENDS TebFlat

\* Who calls update(): the experiments directly, diff::update with the diff
\* bit ("hybrid"), or the same with the two-run option ("hybrid_plus").
AllModes == {"direct", "hybrid", "hybrid_plus"}

Done(t)     == [teb |-> t, res |-> 1]
Declined(t) == [teb |-> t, res |-> 2]
NoChange(t) == [teb |-> t, res |-> 0]

-----------------------------------------------------------------------------
\* Mutant of MakeLabelExplicit: the trailing count is left as it was.
MakeLabelExplicitKeepsTrail(t, label_idx) ==
  LET lead  == t.implicit_leading_label_cnt - label_idx
      trail == label_idx - (TrailingL(t) - 1)
  IN  IF lead > 0 THEN LeadL(PrependLabels(t, lead, lead > W), -lead)
      ELSE IF trail > 0 THEN GrowL(t, trail)
      ELSE t

\* update(), for a leaf of the lowest level: the label is made explicit if it
\* was only counted, as far as there are free bits, and then overwritten.
MakeLabelExplicit(t, label_idx) ==
  LET lead  == t.implicit_leading_label_cnt - label_idx
      trail == label_idx - (TrailingL(t) - 1)
  IN  IF lead > 0 THEN LeadL(PrependLabels(t, lead, lead > W), -lead)
      ELSE IF trail > 0 THEN TrailL(GrowL(t, trail), -trail)
      ELSE t

\* Mutant of CostOfLabel: one bit too few for a trailing label.
CostOfLabelOffByOne(t, label_idx) ==
  Greater(0, Greater(t.implicit_leading_label_cnt - label_idx,
                     label_idx - TrailingL(t)))

CostOfLabel(t, label_idx) ==
  Greater(0, Greater(t.implicit_leading_label_cnt - label_idx,
                     label_idx - (TrailingL(t) - 1)))

update_lowest(t, node_idx, val) ==
  LET label_idx == get_label_idx(t, node_idx)
      explicit  == MakeLabelExplicit(t, label_idx)
  IN  IF CostOfLabel(t, label_idx) > t.free_bits_L THEN Declined(t)
      ELSE Done(set_label_bit(explicit, label_idx - explicit.implicit_leading_label_cnt, val))

-----------------------------------------------------------------------------
\* runbreaking_update(): the run at node_idx, i+1 levels above the lowest, is
\* broken by a path of inner nodes down to pos.  Step k (0 .. i) of the path
\* inserts a pair of leaves; its second index accounts for the pairs before.
PathStep(t, node_idx, i) ==
  LET step[k \in 0 .. i] ==
        LET before == IF k = 0 THEN node_idx ELSE step[k - 1].n
            left   == 2 * (rank_inclusive(t, before) + k + 1) - 1
            below  == left - 1 - (2 * k)
        IN  [left |-> left, n |-> below, label |-> left - rank_inclusive(t, below) - (k + 1)]
  IN  step

\* What the path costs in T: the pairs that go in, and the trailing leaves
\* up to each new inner node.
RunbreakingCostT(t, pos, node_idx, i, path) ==
  LET first == Greater(0, node_idx - TrailingT(t) + 1)
      cost[k \in 0 .. i] ==
        IF k = 0 THEN [cost |-> first, begin |-> TrailingT(t)]
        ELSE LET c == cost[k - 1]
                 left == path[k - 1].left
                 right == DirectionBit(pos, i - k + 1) = 1
                 add == IF right
                          THEN IF left <= c.begin THEN 2 ELSE left - c.begin + 2
                          ELSE IF left < c.begin THEN 2 ELSE left - c.begin + 1
             IN  [cost |-> c.cost + add, begin |-> c.begin + add]
  IN  cost[i].cost

\* What it costs in L: the label of the run goes, each step but the last adds
\* the old value, the last adds the pair of labels at the lowest level.
RunbreakingCostL(t, pos, val, node_idx, i, path) ==
  LET removed == get_label_idx(t, node_idx)
      lead0   == t.implicit_leading_label_cnt
      start   == [cost  |-> IF removed >= lead0 /\ node_idx < TrailingL(t) THEN -1 ELSE 0,
                  lead  |-> IF removed < lead0 THEN lead0 - 1 ELSE lead0,
                  begin |-> TrailingL(t)]
      Add(c, k) ==
        IF k < c.lead
          THEN IF val THEN [c EXCEPT !.lead = @ + 1]
               ELSE [c EXCEPT !.cost = @ + c.lead - k + 1, !.lead = k]
        ELSE IF k >= c.begin
          THEN IF val THEN c
               ELSE [c EXCEPT !.cost = @ + k - c.begin + 1, !.begin = k + 1]
        ELSE [c EXCEPT !.cost = @ + 1, !.begin = @ + 1]
      cost[k \in 0 .. i] == IF k = 0 THEN start ELSE Add(cost[k - 1], path[k - 1].label)
      c    == cost[i]
      left == path[i].label
      pair01 == val = (DirectionBit(pos, 0) = 1)
      pair == IF pair01
                THEN IF left < c.lead THEN c.lead - left + 1
                     ELSE IF left = c.lead THEN 1
                     ELSE IF left >= c.begin THEN c.begin - left + 2
                     ELSE 2
                ELSE IF left <= c.lead THEN c.lead - left + 2
                     ELSE IF left < c.begin THEN 2
                     ELSE IF left = c.begin THEN 1
                     ELSE left - c.begin + 1
  IN  U(c.cost + pair)

\* The pairs of leaves, in order: inside T, or two more trailing leaves
InsertPairs(t, path, i) ==
  LET after[k \in 0 .. i] ==
        LET s == IF k = 0 THEN t ELSE after[k - 1]
            left == path[k].left
        IN  IF left < TrailingT(s)
              THEN GrowT(insert_into_tree(s, left - s.implicit_inner_node_cnt, 2, FALSE), 2)
              ELSE TrailT(s, 2)
  IN  after[i]

\* The new inner nodes: the run itself and, but for the last step, the leaf
\* of each pair that lies on the path
SetInnerNodes(t, pos, node_idx, i, path) ==
  LET SetInner(s, v) ==
        LET cnt == Greater(0, v - TrailingT(s) + 1)
        IN  set_tree_bit(TrailT(GrowT(s, cnt), -cnt), v - s.implicit_inner_node_cnt, TRUE)
      after[k \in 0 .. i] ==
        IF k = 0 THEN SetInner(t, node_idx)
        ELSE SetInner(after[k - 1], path[k - 1].left + DirectionBit(pos, i - k + 1))
  IN  after[i]

RemoveRunLabel(t, k) ==
  IF k < t.implicit_leading_label_cnt THEN LeadL(t, -1)
  ELSE IF k >= TrailingL(t) THEN TrailL(t, -1)
  ELSE GrowL(remove_from_labels(t, k - t.implicit_leading_label_cnt, 1), -1)

\* A label of the old value, for the sibling of a new inner node
InsertSiblingLabel(t, k, old) ==
  LET lead == t.implicit_leading_label_cnt
      cnt  == lead - k + 1
      past == k - TrailingL(t)
  IN  IF k < lead
        THEN IF old
               THEN LeadL(GrowL(set_label_bit(insert_into_labels(t, 0, cnt, FALSE), 0, TRUE), cnt),
                          -(lead - k))
               ELSE LeadL(t, 1)
      ELSE IF past >= 0
        THEN IF old
               THEN set_label_bit(TrailL(GrowL(t, past + 1), -past), k, TRUE)
               ELSE TrailL(t, 1)
      ELSE GrowL(insert_into_labels(t, k - lead, 1, old), 1)

\* The labels of the pair at the lowest level, 01 or 10
InsertPair01(t, left) ==
  LET lead == t.implicit_leading_label_cnt
      past == left - TrailingL(t)
  IN  IF left < lead
        THEN LET cnt == lead - left + 1 IN
             LeadT(GrowL(set_label_bit(insert_into_labels(t, 0, cnt, FALSE), 0, TRUE), cnt),
                   -(lead - left))
      ELSE IF left = lead
        THEN LeadL(GrowL(insert_into_labels(t, 0, 1, TRUE), 1), 1)
      ELSE IF past > 0
        THEN set_label_bit(TrailL(GrowL(t, past + 2), -past), left + 1 - lead, TRUE)
      ELSE set_label_bit(GrowL(insert_into_labels(t, left - lead, 2, FALSE), 2),
                         left + 1 - lead, TRUE)

InsertPair10(t, left) ==
  LET lead == t.implicit_leading_label_cnt
      past == left - TrailingL(t)
  IN  IF left <= lead
        THEN LeadL(GrowL(set_label_bit(insert_into_labels(t, 0, TrailingL(t) - left + 2, FALSE),
                                       0, TRUE),
                         lead - left + 2),
                   -(lead - left))
      ELSE IF past < 0
        THEN set_label_bit(GrowL(insert_into_labels(t, left - lead, 2, FALSE), 2),
                           left - lead, TRUE)
      ELSE IF past = 0
        THEN set_label_bit(TrailL(GrowL(t, 1), 1), left - lead, TRUE)
      ELSE set_label_bit(TrailL(GrowL(t, past + 1), -(past - 1)), left - lead, TRUE)

\* Every level below the one that changed moves by the nodes (labels) added.
ShiftOffsets(t, level, i) ==
  LET Pairs(l) == Lesser(Greater(0, l - level - 1), i)   \* pairs put in above level l
  IN  [t EXCEPT !.level_offsets_tree   = [l \in 0 .. h |-> U(@[l] + 2 * Pairs(l))],
                !.level_offsets_labels =
                  [l \in 0 .. h |-> U(@[l] + Pairs(l) - (IF l > level THEN 1 ELSE 0))]]

runbreaking_update(t, pos, val, level, node_idx) ==
  LET i     == h - 1 - level
      path  == PathStep(t, node_idx, i)
      tree  == SetInnerNodes(InsertPairs(t, path, i), pos, node_idx, i, path)
      freed == RemoveRunLabel(tree, get_label_idx(t, node_idx))
      labels[k \in 0 .. i] ==
        IF k = 0 THEN freed ELSE InsertSiblingLabel(labels[k - 1], path[k - 1].label, ~val)
      paired == IF val = (DirectionBit(pos, 0) = 1)
                  THEN InsertPair01(labels[i], path[i].label)
                  ELSE InsertPair10(labels[i], path[i].label)
  IN  IF \/ RunbreakingCostT(t, pos, node_idx, i, path) > t.free_bits_T
         \/ RunbreakingCostL(t, pos, val, node_idx, i, path) > t.free_bits_L
        THEN Declined(t)
        ELSE Done(ShiftOffsets(paired, level, i))

-----------------------------------------------------------------------------
\* Mutant of HasOwnLeaf: the offset is that of the level above.
HasOwnLeafOrParent(t, node_idx) == node_idx >= t.level_offsets_tree[h - 1]

\* A leaf of the lowest level stands for one bit, not for a run.
HasOwnLeaf(t, node_idx) == node_idx >= t.level_offsets_tree[h]

\* update(): with a diff bit the value asked for is that of the XOR, and the
\* label is to become the opposite of what it is.
update(t, pos, val, mode, diff_val) ==
  LET at     == Descend(t, pos)
      stored == get_label(t, at.node)
      actual == IF mode = "direct" THEN stored ELSE stored # diff_val
      newVal == IF mode = "direct" THEN val ELSE ~stored
      lowest == HasOwnLeaf(t, at.node)
      breaks == \/ mode = "direct"
                \/ mode = "hybrid_plus" /\ at.level = h - 2
  IN  IF actual = val THEN NoChange(t)
      ELSE IF lowest THEN update_lowest(t, at.node, newVal)
      ELSE IF breaks THEN runbreaking_update(t, pos, newVal, at.level, at.node)
      ELSE Declined(t)
=============================================================================
