------------------------------ MODULE TebScan ------------------------------
(***************************************************************************)
(* teb_scan_iter: the 1-run iterator that reads a tree-encoded bitmap from *)
(* one end to the other, which merges and decoders use.  It keeps a        *)
(* position in T and L for every level and produces runs in batches.  How  *)
(* a batch is made depends on how many levels are not perfect: three loops *)
(* for none, one and two, and a tree traversal for more, the one that is   *)
(* compiled without AVX-512.                                               *)
(*                                                                         *)
(* The loops read T and L through buffers of a word, of which they consume *)
(* less than they hold before they refill them; here they read the bits    *)
(* themselves.  A TEB always has level offsets, so that the way without    *)
(* them, through teb_iter, is never taken.                                 *)
(***************************************************************************)
EXTENDS TebPrune, TebLoops, Sequences, Functions

CONSTANTS
  BatchSize,    \* the entries of a batch (129)
  Spare,        \* the entries kept free for what a round of a loop adds (64)
  Round         \* the nodes a round consumes, in the loop for as many levels
                \* that are not perfect (63, 31 and 15)

TopLevel(t)  == t.perfect_level_cnt - 1
TopBegin(t)  == 2 ^ TopLevel(t) - 1         \* top_node_idx_begin_
TopEnd(t)    == 2 ^ t.perfect_level_cnt - 1 \* top_node_idx_end_

\* The bits as fetch_n_bits() finds them: it knows the bits that are counted
\* in front, and takes everything behind the arrays for 0.
FetchT(t, k) == k < t.implicit_inner_node_cnt \/ Bit(t.T, k - t.implicit_inner_node_cnt)
FetchL(t, k) == k >= t.implicit_leading_label_cnt /\ Bit(t.L, k - t.implicit_leading_label_cnt)

-----------------------------------------------------------------------------
\* An entry is written in any case, and kept if the next one goes elsewhere.
Put(s, pos, length, kept) ==
  [s EXCEPT !.results[s.cnt] = [pos |-> pos, length |-> length], !.cnt = @ + kept]

One(bit) == IF bit THEN 1 ELSE 0

\* A leaf of a level above the lowest
LeafRun(t, s, level) ==
  LET put == Put(s, s.path, 2 ^ (h - level), One(FetchL(t, s.label[level])))
  IN  [put EXCEPT !.label[level] = @ + 1, !.path = @ + 2 ^ (h - level)]

\* The two leaves of the lowest level below an inner node; two says how many
\* entries a run of both counts for.
PairRun(t, s, two) ==
  LET first  == FetchL(t, s.label[h])
      length == One(first) + One(FetchL(t, s.label[h] + 1))
      put    == Put(s, s.path + 1 - One(first), length, IF length = 2 THEN two ELSE length)
  IN  [put EXCEPT !.label[h] = @ + 2, !.path = @ + 2]

\* next_batch_uncompressed: every bit has a leaf.
BitNode(t, s) == [Put(s, s.path, 1, One(FetchL(t, s.path))) EXCEPT !.path = @ + 1]

NextNode(s, level) == [s EXCEPT !.node[level] = @ + 1]

\* Mutant of PairNode: a run counts for its bits, as in three levels.
PairNodeCountsBits(t, s) ==
  LET next == NextNode(s, h - 1) IN
  IF FetchT(t, s.node[h - 1]) THEN PairRun(t, next, 2)
  ELSE LeafRun(t, next, h - 1)

\* next_batch_2levels
PairNode(t, s) ==
  LET next == NextNode(s, h - 1) IN
  IF FetchT(t, s.node[h - 1]) THEN PairRun(t, next, 1)
  ELSE LeafRun(t, next, h - 1)

\* next_batch_3levels: a pair of 1-bits counts for two entries, the second of
\* which is what was there before.
QuadNode(t, s) ==
  LET Child(c) ==
        LET below == NextNode(c, h - 1) IN
        IF FetchT(t, c.node[h - 1]) THEN PairRun(t, below, 2)
        ELSE LeafRun(t, below, h - 1)
      next == NextNode(s, h - 2)
  IN  IF FetchT(t, s.node[h - 2]) THEN Child(Child(next)) ELSE LeafRun(t, next, h - 2)

LoopNode(t, s) ==
  CASE Imperfect(t) = 0 -> BitNode(t, s)
    [] Imperfect(t) = 1 -> PairNode(t, s)
    [] Imperfect(t) = 2 -> QuadNode(t, s)

\* The entries from which on a batch of a loop is not filled further
Filled(t) == IF Imperfect(t) = 2 THEN BatchSize - 1 - Spare ELSE BatchSize - Spare

RECURSIVE LoopRound(_, _, _)
LoopRound(t, s, nodes) ==
  IF nodes = 0 \/ s.path >= N THEN s ELSE LoopRound(t, LoopNode(t, s), nodes - 1)

\* The entry that ends the last batch
EndEntry(s) == IF s.cnt < BatchSize THEN Put(s, N, 0, 1) ELSE s

\* A loop ends when it stands on the length of the bitmap; it steps over a
\* length that is inside a node, and the assertion on that fails.
RECURSIVE LoopBatch(_, _)
LoopBatch(t, s) ==
  IF s.path > N THEN [EndEntry(s) EXCEPT !.overrun = TRUE]
  ELSE IF s.path = N THEN EndEntry(s)
  ELSE IF s.cnt >= Filled(t) THEN s
  ELSE LoopBatch(t, LoopRound(t, s, Round[Imperfect(t) + 1]))

-----------------------------------------------------------------------------
\* next_batch_scalar_stack_perfect: the positions of the levels above serve
\* as a stack of the right children that are still to be visited.
RECURSIVE GoLeft(_, _)
GoLeft(t, s) ==
  IF is_inner_node(t, s.node[s.level])
    THEN GoLeft(t, [NextNode(s, s.level) EXCEPT !.level = @ + 1, !.path = 2 * @])
    ELSE s

LeafVisit(t, s) ==
  LET width == 2 ^ (h - s.level)
      put   == Put(s, s.path * width, width, 1)
      found == IF get_label_by_idx(t, s.label[s.level]) THEN put ELSE s
  IN  [NextNode(found, s.level) EXCEPT !.label[s.level] = @ + 1]

\* Up to a left child and on to its sibling, or to the next top node; the
\* level is 0 when there is none.
GoRight(t, s) ==
  LET up == CHOOSE k \in 0 .. s.level + 1 :
              (s.path \div 2 ^ k) % 2 = 0 /\ \A j \in 0 .. k - 1 : (s.path \div 2 ^ j) % 2 = 1
      top == s.top + 1
  IN  IF s.level - up >= t.perfect_level_cnt
        THEN [s EXCEPT !.level = @ - up, !.path = @ \div 2 ^ up + 1]
      ELSE [s EXCEPT !.top = top, !.path = top - TopBegin(t),
                     !.level = IF top = TopEnd(t) THEN 0 ELSE TopLevel(t)]

\* Mutant of TreeBatch: where the traversal stands when a batch is full is not
\* saved.
RECURSIVE TreeBatchForgets(_, _)
TreeBatchForgets(t, s) ==
  LET next == GoRight(t, LeafVisit(t, GoLeft(t, s))) IN
  IF next.level = 0 THEN EndEntry(next)
  ELSE IF next.cnt = BatchSize - 1 THEN [next EXCEPT !.level = s.level, !.path = s.path]
  ELSE TreeBatchForgets(t, next)

RECURSIVE TreeBatch(_, _)
TreeBatch(t, s) ==
  LET next == GoRight(t, LeafVisit(t, GoLeft(t, s))) IN
  IF next.level = 0 THEN EndEntry(next)
  ELSE IF next.cnt = BatchSize - 1 THEN next
  ELSE TreeBatch(t, next)

-----------------------------------------------------------------------------
\* pos() and length() are those of the entry that is read.
Read(s, k) == [s EXCEPT !.read = k, !.pos = s.results[k].pos, !.length = s.results[k].length]

get_next_batch(t, s) ==
  LET empty == [s EXCEPT !.cnt = 0]
  IN  Read(IF Imperfect(t) <= 2 THEN LoopBatch(t, empty) ELSE TreeBatch(t, empty), 0)

next(t, s) == IF s.read + 1 = s.cnt THEN get_next_batch(t, s) ELSE Read(s, s.read + 1)

\* The constructor: the levels above the first leaf were read on the way to it.
scan_it(t) ==
  LET first == Min({l \in 0 .. h : ~is_inner_node(t, t.level_offsets_tree[l])})
      tree  == Imperfect(t) > 2
  IN  get_next_batch(t,
        [results |-> [k \in 0 .. BatchSize - 1 |-> [pos |-> 0, length |-> 0]],
         cnt |-> 0, read |-> 0, pos |-> 0, length |-> 0, overrun |-> FALSE,
         path |-> 0, level |-> first, top |-> TopBegin(t),
         node |-> [l \in 0 .. h |->
                     t.level_offsets_tree[l] + (IF tree /\ l < first THEN 1 ELSE 0)],
         label |-> t.level_offsets_labels])

RECURSIVE Forward(_, _, _)
Forward(t, s, to_pos) ==
  IF s.pos # N /\ s.pos + s.length <= to_pos THEN Forward(t, next(t, s), to_pos) ELSE s

\* skip_to(): next() as often as it takes
skip_to(t, s, to_pos) ==
  LET at      == Forward(t, s, to_pos)
      clipped == [pos |-> to_pos, length |-> at.length - (to_pos - at.pos)]
  IN  IF to_pos >= N
        THEN Read([s EXCEPT !.results[0] = [pos |-> N, length |-> 0], !.cnt = 1], 0)
      ELSE IF at.pos # N /\ at.pos < to_pos
        THEN Read([at EXCEPT !.results[at.read] = clipped], at.read)
      ELSE at

-----------------------------------------------------------------------------
\* All the runs of a TEB, in the order in which they are given
RECURSIVE RunsFrom(_, _)
RunsFrom(t, s) ==
  IF s.pos = N THEN <<>>
  ELSE <<[pos |-> s.pos, length |-> s.length]>> \o RunsFrom(t, next(t, s))

Runs(t) == RunsFrom(t, scan_it(t))

\* The bits that are set in a plain bitmap when it is made from the runs
BitsOf(runs) == UNION {r.pos .. r.pos + r.length - 1 : r \in Range(runs)}
=============================================================================
