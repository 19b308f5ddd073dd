-------------------------------- MODULE Part --------------------------------
(***************************************************************************)
(* Partitioned bitmaps: part_upforward, whose partitions take writes       *)
(* themselves (here each is a diff), part_updirect, which recompresses the *)
(* partition of a write, and part_run, which keeps a partition of equal    *)
(* bits as a value in the pointer.  One iterator reads through all         *)
(* partitions; the nested iterators are those of RunIter.                  *)
(***************************************************************************)
EXTENDS RunIter

CONSTANTS
  N,            \* the length of the bitmap
  P,            \* bits per partition
  Kinds,        \* the kinds of partitioned bitmap looked at
  Written       \* those the client writes to

AllKinds == {"upforward", "updirect", "run"}

ASSUME PartAssumption ==
  /\ N \in Nat \ {0} /\ P \in {2^k : k \in 0 .. N}
  /\ Kinds \subseteq AllKinds /\ Written \subseteq Kinds

Pos      == 0 .. N - 1
part_cnt == (N + P - 1) \div P
Parts    == 0 .. part_cnt - 1
All      == 0 .. P - 1

VARIABLES
  kind,
  parts,        \* the partitions
  cursor,       \* the open iterator, if any
  seen,         \* how far the client has read with it
  call          \* the last call

vars == <<kind, parts, cursor, seen, call>>

\* A partition: the bitmap's length and 1-bits, the diff and its flag, and
\* whether it is only a value (of length P, then).
Compressed(len, ones) ==
  [len |-> len, ones |-> ones, diff |-> {}, pending |-> FALSE, is_value |-> FALSE]

Value(val) == [Compressed(P, IF val THEN All ELSE {}) EXCEPT !.is_value = TRUE]

\* part_run keeps a value where all or none of the bits of a partition are set.
Install(k, len, ones) ==
  IF k = "run" /\ Cardinality(ones) \in {0, P} THEN Value(Cardinality(ones) = P)
  ELSE Compressed(len, ones)

OnesOf(p) == (p.ones \ p.diff) \cup (p.diff \ p.ones)
test(i)   == i % P \in OnesOf(parts[i \div P])
Content   == [i \in Pos |-> test(i)]
Ones      == {i \in Pos : test(i)}

-----------------------------------------------------------------------------
\* The iterator
NoIter == [len |-> 0, bits |-> {}, cuts |-> {}, pos |-> 0, length |-> 0]
Closed == [part |-> part_cnt, it |-> NoIter, pos |-> 0, length |-> 0, cuts |-> {}]

AtEnd(cuts) == [Closed EXCEPT !.pos = N, !.cuts = cuts]

Nested(q, cuts) ==
  run_iter(parts[q].len, OnesOf(parts[q]),
           {i - P * q : i \in cuts \cap (P * q + 1 .. P * q + P - 1)})

Stand(q, it, cuts) ==
  [part |-> q, it |-> it, pos |-> P * q + it.pos, length |-> it.length, cuts |-> cuts]

Enter(q, cuts) ==
  IF parts[q].is_value THEN [Closed EXCEPT !.part = q, !.pos = P * q, !.length = P, !.cuts = cuts]
  ELSE Stand(q, Nested(q, cuts), cuts)

\* next_part(): the first partition from q on that has a 1-bit
PartFrom(q, cuts) ==
  LET found == {r \in Parts : r >= q /\ OnesOf(parts[r]) # {}}
  IN  IF found = {} THEN AtEnd(cuts) ELSE Enter(Min(found), cuts)

\* Mutant of NestedOrNext: the end of a partition's runs is the end.
NestedOrNextStops(c, it) == IF end(it) THEN AtEnd(c.cuts) ELSE Stand(c.part, it, c.cuts)

NestedOrNext(c, it) == IF end(it) THEN PartFrom(c.part + 1, c.cuts) ELSE Stand(c.part, it, c.cuts)

NextRun(c) ==
  IF parts[c.part].is_value THEN PartFrom(c.part + 1, c.cuts) ELSE NestedOrNext(c, next(c.it))

SkipWithin(c, to_pos) ==
  IF c.pos >= to_pos THEN c
  ELSE IF parts[c.part].is_value THEN [c EXCEPT !.pos = to_pos, !.length = P - (to_pos % P)]
  ELSE NestedOrNext(c, skip_to(c.it, to_pos % P))

\* Mutant of SkipTo: the current run keeps its length.
SkipToKeepsLength(c, to_pos) ==
  LET there == PartFrom(to_pos \div P, c.cuts)
  IN  IF to_pos < run_end(c) THEN [c EXCEPT !.pos = to_pos]
      ELSE IF to_pos \div P = c.part THEN SkipWithin(c, to_pos)
      ELSE IF end(there) \/ there.pos > to_pos THEN there
      ELSE SkipWithin(there, to_pos)

SkipTo(c, to_pos) ==
  LET dst_part == to_pos \div P
      there    == PartFrom(dst_part, c.cuts)
  IN  IF to_pos < run_end(c) THEN [c EXCEPT !.pos = to_pos, !.length = @ - (to_pos - c.pos)]
      ELSE IF dst_part = c.part THEN SkipWithin(c, to_pos)
      ELSE IF end(there) \/ there.pos > to_pos THEN there
      ELSE SkipWithin(there, to_pos)

-----------------------------------------------------------------------------
Init ==
  /\ kind \in Kinds
  /\ \E ones \in SUBSET Pos :
       parts = [q \in Parts |-> Install(kind, P, {i \in All : P * q + i \in ones})]
  /\ cursor = Closed
  /\ seen = 0
  /\ call = [op |-> "none"]

\* Mutant of Forward: the diff takes the value, not the difference.
ForwardStoresValue(p, i, val) ==
  [p EXCEPT !.pending = TRUE,
            !.diff = IF val THEN @ \cup {i} ELSE @ \ {i}]

\* diff::set of the partition
Forward(p, i, val) ==
  [p EXCEPT !.pending = TRUE,
            !.diff = IF (i \in p.ones) # val THEN @ \cup {i} ELSE @ \ {i}]

\* Decompressed, changed and compressed again.  A value is decompressed to as
\* many bits as the whole bitmap has.
Recompress(p, i, val) ==
  LET len  == IF p.is_value THEN N ELSE p.len
      ones == IF p.is_value /\ p.ones # {} THEN Pos ELSE p.ones
  IN  Install(kind, len, IF val THEN ones \cup {i} ELSE ones \ {i})

\* set(); no client writes while it iterates.
Set(i, val) ==
  /\ kind \in Written
  /\ parts' = [parts EXCEPT ![i \div P] =
                 IF kind = "upforward" THEN Forward(@, i % P, val) ELSE Recompress(@, i % P, val)]
  /\ cursor' = Closed /\ seen' = 0
  /\ call' = [op |-> "write", pos |-> i, val |-> val]
  /\ UNCHANGED kind

\* merge(): that of each diff; part_updirect has nothing to merge.
Merge ==
  /\ kind \in Written \ {"run"}
  /\ parts' = [q \in Parts |->
                 IF parts[q].pending
                   THEN [parts[q] EXCEPT !.ones = OnesOf(parts[q]), !.diff = {}]
                   ELSE parts[q]]
  /\ cursor' = Closed /\ seen' = 0
  /\ call' = [op |-> "maintain"]
  /\ UNCHANGED kind

Open ==
  /\ \E cuts \in CutsOf(Ones) : cursor' = PartFrom(0, cuts)
  /\ seen' = 0
  /\ call' = [op |-> "maintain"]
  /\ UNCHANGED <<kind, parts>>

Read(c, from) ==
  /\ ~end(cursor)
  /\ cursor' = c /\ seen' = from
  /\ call' = [op |-> "maintain"]
  /\ UNCHANGED <<kind, parts>>

Advance   == Read(NextRun(cursor), run_end(cursor))
Skip(pos) == pos >= cursor.pos /\ Read(SkipTo(cursor, pos), pos)

Next ==
  \/ \E i \in Pos, val \in BOOLEAN : Set(i, val)
  \/ Merge
  \/ Open
  \/ Advance
  \/ \E pos \in Pos : Skip(pos)

Spec == Init /\ [][Next]_vars

-----------------------------------------------------------------------------
Abstract == INSTANCE Bitmap WITH content <- Content

\* Every partition has P bits, with none set behind the end of the bitmap, and
\* the iterator never points there.
TypeOK ==
  /\ kind \in Kinds
  /\ \A q \in Parts :
       /\ parts[q].len = P /\ parts[q].ones \subseteq All /\ parts[q].diff \subseteq All
       /\ parts[q].is_value \in BOOLEAN /\ parts[q].pending \in BOOLEAN
       /\ \A i \in OnesOf(parts[q]) : P * q + i \in Pos
  /\ cursor.part \in 0 .. part_cnt
  /\ cursor.pos \in 0 .. N /\ cursor.length \in 0 .. N - cursor.pos
  /\ seen \in 0 .. N

\* Read forward with next() and skip_to() in any mix, the iterator misses no
\* 1-bit of any partition, stands only on 1-bits, and ends only when none is
\* left, also across partitions that are empty, single-valued or not merged.
RunIsNext ==
  cursor # Closed =>
    IF end(cursor) THEN \A i \in Ones : i < seen
    ELSE /\ cursor.pos >= seen
         /\ cursor.pos .. run_end(cursor) - 1 \subseteq Ones
         /\ \A i \in Ones : ~(seen <= i /\ i < cursor.pos)

\* Through test() a partitioned bitmap is a plain bitmap: a write changes its
\* bit and no other, whatever partition it falls in, and merge() changes none.
ImplementsBitmap == Abstract!Spec
=============================================================================
