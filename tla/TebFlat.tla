------------------------------ MODULE TebFlat ------------------------------
(***************************************************************************)
(* The tree-encoded bitmap as teb_builder serializes it and teb_flat reads *)
(* and grows it.  A TEB is a record: the bit arrays T (tree structure, in  *)
(* level order) and L (labels), each as long as the words the header gave  *)
(* it, and the counters of the teb_flat object.  Inner nodes that lead T,  *)
(* leaves that trail it and 0-labels at both ends of L are only counted.   *)
(*                                                                         *)
(* Where the code shifts by a full word, writes past an array, writes      *)
(* through the null pointer of an empty array, or fails one of its own     *)
(* assertions, the record says so in faults and nothing is claimed of what *)
(* follows.  The rank of a node is counted from T; TebWords checks that    *)
(* the rank table the code keeps beside T gives that count.                *)
(***************************************************************************)
EXTENDS BitmapTree, BitArray

\* The counters are u32: a difference below zero is a huge number.  2^16
\* stands in for 2^32, far above every count of the instances checked.
Modulus == 65536
U(x) == x % Modulus

\* They hold the numbers of nodes and of labels, and a word more.
ASSUME CountersAssumption == 2 * n + W <= Modulus

Lesser(a, b)   == IF a < b THEN a ELSE b
Greater(a, b)  == IF a < b THEN b ELSE a

-----------------------------------------------------------------------------
\* teb_builder::serialize, and the teb_flat object made from the result.  The
\* free bits are those of the last word; an empty tree is read as one 0-bit.
Nth(S, k) == CHOOSE v \in S : Cardinality({u \in S : u < v}) = k

Stored(S, ones) ==
  [k \in Array(Cardinality(S)) |-> k < Cardinality(S) /\ Nth(S, k) \in ones]

\* Mutant of LevelOffsets: the offset counts the level it should point to.
LevelOffsetsIncludeLevel(S, perfect, inPerfect) ==
  [l \in 0 .. h |-> IF l < perfect THEN inPerfect[l]
                    ELSE Cardinality({v \in S : v < first_node_idx_at_level(l + 1)})]

LevelOffsets(S, perfect, inPerfect) ==
  [l \in 0 .. h |-> IF l < perfect THEN inPerfect[l]
                    ELSE Cardinality({v \in S : v < first_node_idx_at_level(l)})]

SerializeTree(c) ==
  LET tree_cnt      == Cardinality(c.explicit_nodes)
      tree_bit_cnt  == IF tree_cnt = 0 THEN 1 ELSE tree_cnt
      label_bit_cnt == Cardinality(c.explicit_labels)
      perfect       == perfect_level_cnt(c)
  IN  [T |-> Stored(c.explicit_nodes, c.inner), tree_bit_cnt |-> tree_bit_cnt,
       free_bits_T |-> U(W * Words(tree_cnt) - tree_bit_cnt),
       implicit_inner_node_cnt    |-> c.leading_inner_node_cnt,
       implicit_trailing_leaf_cnt |-> c.trailing_leaf_node_cnt,
       L |-> Stored(c.explicit_labels, c.ones),
       label_bit_cnt |-> label_bit_cnt,
       free_bits_L |-> U(W * Words(label_bit_cnt) - label_bit_cnt),
       implicit_leading_label_cnt  |-> c.leading_0label_cnt,
       implicit_trailing_label_cnt |-> c.trailing_0label_cnt,
       perfect_level_cnt |-> perfect,
       level_offsets_tree   |-> LevelOffsets(c.active, perfect,
                                          [l \in 0 .. h |-> first_node_idx_at_level(l)]),
       level_offsets_labels |-> LevelOffsets(c.leaves, perfect, [l \in 0 .. h |-> 0]),
       faults |-> {}]

Serialize(content) == SerializeTree(Counters(Padded(content)))

-----------------------------------------------------------------------------
\* Reading
TrailingT(t) == t.implicit_inner_node_cnt + t.tree_bit_cnt      \* first trailing leaf
TrailingL(t) == t.implicit_leading_label_cnt + t.label_bit_cnt  \* first trailing label
NodeCnt(t)   == TrailingT(t) + t.implicit_trailing_leaf_cnt
LabelCnt(t)  == TrailingL(t) + t.implicit_trailing_label_cnt

rank_inclusive(t, v) ==
  IF v < t.implicit_inner_node_cnt THEN v + 1
  ELSE t.implicit_inner_node_cnt
         + Cardinality({k \in 0 .. Lesser(v - t.implicit_inner_node_cnt, t.tree_bit_cnt - 1) :
                          Bit(t.T, k)})

is_inner_node(t, v) ==
  \/ v < t.implicit_inner_node_cnt
  \/ v < TrailingT(t) /\ Bit(t.T, v - t.implicit_inner_node_cnt)

get_label_idx(t, v) == v - rank_inclusive(t, v)

get_label_by_idx(t, k) ==
  /\ t.implicit_leading_label_cnt <= k
  /\ k < TrailingL(t)
  /\ Bit(t.L, k - t.implicit_leading_label_cnt)

get_label(t, v) == get_label_by_idx(t, get_label_idx(t, v))

DirectionBit(pos, i) == (pos \div 2^i) % 2

\* The walk of test() and update(): from the node of the last perfect level
\* above pos down to a leaf.
Descend(t, pos) ==
  LET top == t.perfect_level_cnt - 1
      at[l \in top .. h] ==
        IF l = top THEN first_node_idx_at_level(top) + pos \div 2^(h - top)
        ELSE LET v == at[l - 1] IN
             IF is_inner_node(t, v)
               THEN 2 * rank_inclusive(t, v) - 1 + DirectionBit(pos, h - l)
               ELSE v
      level == CHOOSE l \in top .. h :
                 /\ l = h \/ ~is_inner_node(t, at[l])
                 /\ \A k \in top .. l - 1 : is_inner_node(t, at[k])
  IN  [node |-> at[level], level |-> level]

test(t, pos) == get_label(t, Descend(t, pos).node)

Decode(t) == [i \in Pos |-> test(t, i)]

-----------------------------------------------------------------------------
\* Changing the arrays
insert_into_labels(t, begin_idx, cnt, val) ==
  IF cnt = 0 THEN t
  ELSE [t EXCEPT !.L = InsertBits(@, begin_idx, cnt, val),
                 !.faults = @ \cup InsertFaults(t.L, begin_idx, cnt)]

remove_from_labels(t, begin_idx, cnt) ==
  IF cnt = 0 THEN t
  ELSE [t EXCEPT !.L = RemoveBits(@, begin_idx, cnt),
                 !.faults = @ \cup RemoveFaults(t.L, begin_idx, cnt)]

insert_into_tree(t, begin_idx, cnt, val) ==
  IF cnt = 0 THEN t
  ELSE [t EXCEPT !.T = InsertBits(@, begin_idx, cnt, val),
                 !.faults = @ \cup InsertFaults(t.T, begin_idx, cnt)]

remove_from_tree(t, begin_idx, cnt) ==
  IF cnt = 0 THEN t
  ELSE [t EXCEPT !.T = RemoveBits(@, begin_idx, cnt),
                 !.faults = @ \cup RemoveFaults(t.T, begin_idx, cnt)]

set_label_bit(t, i, val) ==
  [t EXCEPT !.L = SetBit(@, i, val), !.faults = @ \cup WriteFaults(t.L, i)]

set_tree_bit(t, i, val) ==
  [t EXCEPT !.T = SetBit(@, i, val), !.faults = @ \cup WriteFaults(t.T, i)]

\* Whole words are moved up, and the assertion on the room for them holds.
prepend_words_L(t, words) ==
  [t EXCEPT !.L = InsertBits(@, 0, words * W, FALSE),
            !.faults = @ \cup FaultIf(Words(t.label_bit_cnt) + words > Words(Capacity(t.L)),
                                      "assert")]

prepend_words_T(t, words) ==
  [t EXCEPT !.T = InsertBits(@, 0, words * W, TRUE),
            !.faults = @ \cup FaultIf(Words(t.tree_bit_cnt) + words > Words(Capacity(t.T)),
                                      "assert")]

\* Mutant of GrowL: the free bits are left as they were.
GrowLKeepsFree(t, cnt) == [t EXCEPT !.label_bit_cnt = U(@ + cnt)]

\* Explicit bits gained (or, below zero, given back) and what that costs
GrowT(t, cnt) == [t EXCEPT !.tree_bit_cnt = U(@ + cnt), !.free_bits_T = U(@ - cnt)]
GrowL(t, cnt) == [t EXCEPT !.label_bit_cnt = U(@ + cnt), !.free_bits_L = U(@ - cnt)]
TrailT(t, cnt) == [t EXCEPT !.implicit_trailing_leaf_cnt = U(@ + cnt)]
TrailL(t, cnt) == [t EXCEPT !.implicit_trailing_label_cnt = U(@ + cnt)]
LeadL(t, cnt)  == [t EXCEPT !.implicit_leading_label_cnt = U(@ + cnt)]
LeadT(t, cnt)  == [t EXCEPT !.implicit_inner_node_cnt = U(@ + cnt)]

\* cnt 0-labels in front of L; split says that whole words are moved apart.
PrependLabels(t, cnt, split) ==
  IF split
    THEN LET bits == GrowL(insert_into_labels(t, 0, cnt % W, FALSE), cnt % W)
         IN  GrowL(prepend_words_L(bits, cnt \div W), W * (cnt \div W))
    ELSE GrowL(insert_into_labels(t, 0, cnt, FALSE), cnt)
=============================================================================
