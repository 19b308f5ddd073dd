----------------------------- MODULE PartProofs -----------------------------
(***************************************************************************)
(* A partitioned bitmap is a plain bitmap, and its iterator gives the next *)
(* run of it, for bitmaps and partitions of every length, with runs cut    *)
(* anywhere, of part_upforward, part_updirect and a part_run that is only  *)
(* read.  Why a written part_run is left out: Recompress.                  *)
(***************************************************************************)
EXTENDS Part, NatLemmas

Partition ==
  [len : {P}, ones : SUBSET All, diff : SUBSET All, pending : BOOLEAN, is_value : BOOLEAN]

\* Every partition has P bits, none set behind the end of the bitmap, a value
\* stands for all or none of them, and only part_upforward has bits to merge.
Partitions ==
  /\ kind \in Kinds
  /\ parts \in [Parts -> Partition]
  /\ \A q \in Parts :
       /\ \A i \in OnesOf(parts[q]) : P * q + i \in Pos
       /\ parts[q].is_value => kind = "run" /\ OnesOf(parts[q]) \in {{}, All}
       /\ parts[q].diff # {} => kind = "upforward"

Cursors ==
  [part : 0 .. part_cnt, it : Iterators(P) \cup {NoIter}, pos : Nat, length : Nat, cuts : SUBSET Int]

\* In a value the iterator counts for itself; elsewhere it ends where the
\* nested one does, and has perhaps skipped into its run.
InValue(c) ==
  /\ parts[c.part].is_value
  /\ P * c.part <= c.pos /\ run_end(c) = P * c.part + P

InNested(c) ==
  /\ ~parts[c.part].is_value
  /\ c.it \in Iterators(P) /\ Stands(c.it) /\ ~end(c.it)
  /\ c.it.bits = OnesOf(parts[c.part])
  /\ P * c.part + c.it.pos <= c.pos /\ run_end(c) = P * c.part + run_end(c.it)

Stood(c) ==
  /\ c \in Cursors
  /\ IF end(c) THEN c.pos <= N
     ELSE /\ c.part \in Parts /\ OnesOf(parts[c.part]) # {}
          /\ InValue(c) \/ InNested(c)

\* The iterator stands on the first run there is from a position on.
FirstFrom(c, p) ==
  IF end(c) THEN \A i \in Ones : i < p
  ELSE /\ c.pos >= p
       /\ \A i \in Ones : ~(p <= i /\ i < c.pos)

IInv ==
  /\ Partitions
  /\ Stood(cursor)
  /\ seen \in 0 .. N
  /\ cursor # Closed => FirstFrom(cursor, seen)

\* Going forward to a position, an iterator comes to stand on the first run
\* that is left there, whole or in part, and passes over no bit from the
\* position on.
LEMMA ForwardStands ==
  ASSUME NEW len \in Nat, NEW it \in Iterators(len), NEW p \in Nat
  PROVE  /\ ForwardTo(it, p) \in Iterators(len)
         /\ ForwardTo(it, p).bits = it.bits
         /\ ForwardTo(it, p).cuts = it.cuts
         /\ Stands(ForwardTo(it, p))
         /\ From(it.bits, ForwardTo(it, p).pos) = From(it.bits, p)
         /\ ForwardTo(it, p).length > 0 => ForwardTo(it, p).pos >= p
<1>1. OnRunFrom(ForwardTo(it, p), it, p)
  BY DEF OnRunFrom, ForwardTo
<1> QED
  BY <1>1, ForwardToStands

\* A fresh iterator stands on the first run.
LEMMA RunIterStands ==
  ASSUME NEW len \in Nat, NEW bits \in SUBSET (0 .. len - 1), NEW cuts \in SUBSET Int
  PROVE  /\ run_iter(len, bits, cuts) \in Iterators(len)
         /\ run_iter(len, bits, cuts).bits = bits
         /\ run_iter(len, bits, cuts).cuts = cuts
         /\ Stands(run_iter(len, bits, cuts))
         /\ From(bits, run_iter(len, bits, cuts).pos) = bits
<1> DEFINE it == [len |-> len, bits |-> bits, cuts |-> cuts, pos |-> 0, length |-> 0]
<1>1. it \in Iterators(len)
  BY DEF Iterators
<1>2. From(bits, 0) = bits
  <2>1. \A i \in bits : i \in Int /\ i >= 0
    OBVIOUS
  <2> QED
    BY <2>1 DEF From
<1> QED
  BY <1>1, <1>2, ForwardStands DEF run_iter

-----------------------------------------------------------------------------
\* Positions and partitions
LEMMA Sizes ==
  /\ N \in Nat /\ N > 0 /\ P \in Nat /\ P > 0 /\ part_cnt \in Nat
  /\ Kinds \subseteq AllKinds
<1>1. PICK k \in 0 .. N : P = 2^k
  BY PartAssumption
<1>2. N \in Nat /\ N > 0 /\ k \in Nat
  BY PartAssumption
<1>3. P \in Nat /\ P > 0
  BY <1>1, <1>2, PowerOfTwo
<1>4. N + P - 1 \in Nat
  BY <1>2, <1>3
<1>5. part_cnt \in Nat
  BY <1>3, <1>4, BlockOf DEF part_cnt
<1> QED
  BY <1>2, <1>3, <1>5, PartAssumption

\* Every position lies at its place in its partition.
LEMMA PositionsArePlaces ==
  ASSUME NEW i \in Pos
  PROVE  /\ i \in Nat /\ i \div P \in Parts /\ i % P \in All
         /\ P * (i \div P) \in Nat /\ i = P * (i \div P) + (i % P)
<1>1. i \in Nat /\ i < N /\ N \in Nat /\ P \in Nat /\ P > 0 /\ part_cnt \in Nat
  BY Sizes DEF Pos
<1>2. /\ i \div P \in Nat /\ i % P \in 0 .. P - 1
      /\ P * (i \div P) \in Nat /\ i = P * (i \div P) + (i % P)
  BY <1>1, BlockOf
<1>3. i \div P < part_cnt
  <2>1. PICK m \in Nat : m = N + P - 1
    BY <1>1
  <2>2. part_cnt = m \div P
    BY <2>1 DEF part_cnt
  <2>3. m % P \in 0 .. P - 1 /\ P * part_cnt \in Nat /\ m = P * part_cnt + (m % P)
    BY <1>1, <2>1, <2>2, BlockOf
  <2>4. P * part_cnt > i
    BY <1>1, <2>1, <2>3
  <2>5. part_cnt < i \div P => P * part_cnt + P <= P * (i \div P)
    BY <1>1, <1>2, BlockOrder
  <2>6. ~(part_cnt < i \div P) /\ part_cnt # i \div P
    BY <1>1, <1>2, <2>3, <2>4, <2>5
  <2> QED
    BY <1>1, <1>2, <2>6
<1> QED
  BY <1>1, <1>2, <1>3 DEF Parts, All

\* A partition's places
LEMMA PlacesAreInPartition ==
  ASSUME NEW q \in Parts, NEW r \in All
  PROVE  P * q \in Nat /\ P * q + r \in Nat /\ (P * q + r) \div P = q /\ (P * q + r) % P = r
<1>1. P \in Nat /\ P > 0 /\ q \in Nat /\ r \in 0 .. P - 1 /\ part_cnt \in Nat
  BY Sizes DEF Parts, All
<1>2. \A x, y \in Nat : x * y \in Nat
  OBVIOUS
<1> QED
  BY <1>1, <1>2, PlaceInBlock

\* Partitions lie one after the other.
LEMMA PartitionOrder ==
  ASSUME NEW p \in Parts, NEW q \in Parts, p < q
  PROVE  P * p \in Nat /\ P * q \in Nat /\ P * p + P <= P * q
BY Sizes, BlockOrder DEF Parts

\* The 1-bits of the bitmap are those of its partitions.
LEMMA OnesArePlaces ==
  ASSUME Partitions
  PROVE  /\ Ones \subseteq Pos
         /\ \A q \in Parts, r \in All : P * q + r \in Ones <=> r \in OnesOf(parts[q])
         /\ \A i \in Ones : \E q \in Parts : \E r \in All :
              r \in OnesOf(parts[q]) /\ i = P * q + r /\ q = i \div P /\ r = i % P
<1>1. Ones \subseteq Pos
  BY DEF Ones
<1>2. ASSUME NEW q \in Parts, NEW r \in All PROVE P * q + r \in Ones <=> r \in OnesOf(parts[q])
  <2>1. (P * q + r) \div P = q /\ (P * q + r) % P = r
    BY PlacesAreInPartition
  <2>2. test(P * q + r) <=> r \in OnesOf(parts[q])
    BY <2>1 DEF test
  <2>3. r \in OnesOf(parts[q]) => P * q + r \in Pos
    BY DEF Partitions
  <2> QED
    BY <2>2, <2>3 DEF Ones
<1>3. ASSUME NEW i \in Ones
      PROVE  /\ i \div P \in Parts /\ i % P \in All /\ i % P \in OnesOf(parts[i \div P])
             /\ i = P * (i \div P) + (i % P)
  <2>1. i \in Pos /\ test(i)
    BY DEF Ones
  <2> QED
    BY <2>1, PositionsArePlaces DEF test
<1> QED
  BY <1>1, <1>2, <1>3

-----------------------------------------------------------------------------
\* The iterator lies within its partition, and gives nothing but 1-bits.
LEMMA RunsAreOnes ==
  ASSUME Partitions, NEW c, Stood(c), ~end(c)
  PROVE  /\ c.part \in Parts /\ P * c.part \in Nat /\ c.pos \in Nat /\ c.length \in Nat
         /\ P * c.part <= c.pos /\ c.pos < run_end(c) /\ run_end(c) \in Nat
         /\ run_end(c) <= P * c.part + P /\ run_end(c) <= N
         /\ \A i \in c.pos .. run_end(c) - 1 : i \in Ones
<1> DEFINE q == c.part
           bits == OnesOf(parts[q])
<1>1. /\ q \in Parts /\ c.pos \in Nat /\ c.length \in Nat /\ c.length > 0
      /\ run_end(c) = c.pos + c.length
  BY DEF Stood, Cursors, end, run_end
<1>2. P \in Nat /\ P > 0 /\ P * q \in Nat /\ N \in Nat
  BY <1>1, Sizes, PlacesAreInPartition DEF All
<1>3. /\ P * q <= c.pos /\ run_end(c) <= P * q + P
      /\ \A r \in All : c.pos <= P * q + r /\ P * q + r < run_end(c) => r \in bits
  <2>1. CASE InValue(c)
    <3>1. bits = All
      BY <1>1, <2>1 DEF InValue, Partitions, Stood
    <3>2. P * q <= c.pos /\ run_end(c) = P * q + P
      BY <2>1 DEF InValue
    <3> QED
      BY <1>1, <1>2, <3>1, <3>2
  <2>2. CASE InNested(c)
    <3>1. PICK it \in Iterators(P) : it = c.it
      BY <2>2 DEF InNested
    <3>2. /\ it.len = P /\ it.pos \in Nat /\ it.length \in Nat
          /\ it.pos + it.length <= P
          /\ \A r \in it.pos .. it.pos + it.length - 1 : r \in bits
          /\ P * q + it.pos <= c.pos /\ run_end(c) = P * q + (it.pos + it.length)
      BY <2>2, <3>1 DEF InNested, Iterators, Stands, run_end
    <3> HIDE DEF q, bits
    <3>3. P * q <= c.pos /\ run_end(c) <= P * q + P
      BY <1>1, <1>2, <3>2
    <3>4. ASSUME NEW r \in All, c.pos <= P * q + r, P * q + r < run_end(c) PROVE r \in bits
      <4>1. r \in it.pos .. it.pos + it.length - 1
        BY <1>1, <1>2, <3>2, <3>4 DEF All
      <4> QED
        BY <3>2, <4>1
    <3> QED
      BY <3>3, <3>4
  <2> QED
    BY <2>1, <2>2 DEF Stood
<1> HIDE DEF q, bits
<1>4. ASSUME NEW i \in c.pos .. run_end(c) - 1 PROVE i \in Ones
  <2>1. PICK r \in All : i = P * q + r
    <3>1. i - P * q \in All /\ i = P * q + (i - P * q)
      BY <1>1, <1>2, <1>3 DEF All
    <3> QED
      BY <3>1
  <2>2. r \in bits
    BY <1>1, <1>2, <1>3, <2>1 DEF All
  <2> QED
    BY <1>1, <2>1, <2>2, OnesArePlaces DEF bits, q
<1>5. run_end(c) - 1 \in Pos
  BY <1>1, <1>4, OnesArePlaces
<1> QED
  BY <1>1, <1>2, <1>3, <1>4, <1>5 DEF Pos, q

\* Entering a partition that has a 1-bit, the iterator stands on its first run.
LEMMA EnterStands ==
  ASSUME Partitions, NEW q \in Parts, OnesOf(parts[q]) # {}, NEW cuts \in SUBSET Int
  PROVE  /\ Stood(Enter(q, cuts)) /\ ~end(Enter(q, cuts))
         /\ Enter(q, cuts).part = q /\ Enter(q, cuts).cuts = cuts
         /\ FirstFrom(Enter(q, cuts), P * q)
<1> DEFINE bits == OnesOf(parts[q])
<1>1. /\ P \in Nat /\ P > 0 /\ P * q \in Nat /\ q \in 0 .. part_cnt /\ part_cnt \in Nat
      /\ parts[q] \in Partition /\ bits \subseteq All
  BY Sizes, PlacesAreInPartition DEF All, Parts, Partitions, Partition, OnesOf
<1>2. CASE parts[q].is_value
  <2>1. Enter(q, cuts) = [part |-> q, it |-> NoIter, pos |-> P * q, length |-> P, cuts |-> cuts]
    BY <1>2 DEF Enter, Closed
  <2>2. Stood(Enter(q, cuts)) /\ ~end(Enter(q, cuts))
    BY <1>1, <1>2, <2>1 DEF Stood, Cursors, end, InValue, run_end
  <2>3. FirstFrom(Enter(q, cuts), P * q)
    <3>1. \A i \in Ones : i \in Int
      BY OnesArePlaces DEF Pos
    <3> QED
      BY <1>1, <2>1, <3>1 DEF FirstFrom, end
  <2> QED
    BY <2>1, <2>2, <2>3
<1>3. CASE ~parts[q].is_value
  <2>1. PICK inner \in SUBSET Int :
          inner = {i - P * q : i \in cuts \cap (P * q + 1 .. P * q + P - 1)}
    <3>1. \A i \in cuts : i - P * q \in Int
      BY <1>1
    <3>2. {i - P * q : i \in cuts \cap (P * q + 1 .. P * q + P - 1)} \in SUBSET Int
      BY <3>1
    <3> QED
      BY <3>2
  <2>2. PICK it \in Iterators(P) :
          /\ it = run_iter(P, bits, inner) /\ it.bits = bits /\ Stands(it)
          /\ From(bits, it.pos) = bits
    <3>1. bits \in SUBSET (0 .. P - 1)
      BY <1>1 DEF All
    <3> QED
      BY <1>1, <3>1, RunIterStands
  <2>3. /\ it.len = P /\ it.pos \in Nat /\ it.length \in Nat
        /\ \A r \in bits : r \in All /\ r >= it.pos
    BY <1>1, <2>2 DEF Iterators, From
  <2>4. it.length > 0
    BY <1>1, <2>2, <2>3 DEF Stands, All
  <2>5. Nested(q, cuts) = it
    BY <1>1, <2>1, <2>2 DEF Nested, Partition
  <2>6. Enter(q, cuts) = [part |-> q, it |-> it, pos |-> P * q + it.pos,
                          length |-> it.length, cuts |-> cuts]
    BY <1>3, <2>5 DEF Enter, Stand
  <2>7. Stood(Enter(q, cuts)) /\ ~end(Enter(q, cuts))
    BY <1>1, <1>3, <2>2, <2>3, <2>4, <2>6 DEF Stood, Cursors, end, InNested, run_end
  <2>8. FirstFrom(Enter(q, cuts), P * q)
    <3>1. ASSUME NEW i \in Ones, P * q <= i PROVE ~(i < P * q + it.pos)
      <4> SUFFICES ASSUME i < P * q + it.pos PROVE FALSE
        OBVIOUS
      <4>1. i \in Int /\ it.pos <= P
        BY <1>1, <2>2, <2>3, OnesArePlaces DEF Pos, Stands
      <4>2. i - P * q \in All /\ i = P * q + (i - P * q)
        BY <1>1, <2>3, <3>1, <4>1 DEF All
      <4>3. i - P * q \in bits
        BY <3>1, <4>2, OnesArePlaces
      <4> QED
        BY <1>1, <2>3, <4>1, <4>3
    <3> QED
      BY <1>1, <2>3, <2>4, <2>6, <3>1 DEF FirstFrom, end
  <2> QED
    BY <2>6, <2>7, <2>8
<1> QED
  BY <1>2, <1>3

\* Partitions before another hold positions before those of it.
LEMMA PlaceBefore ==
  ASSUME NEW p \in Parts, NEW q \in 0 .. part_cnt, NEW r \in All
  PROVE  /\ P * q \in Nat /\ P * p + r \in Nat
         /\ p < q => P * p + r < P * q
         /\ p >= q => P * p + r >= P * q
<1>1. P \in Nat /\ P > 0 /\ p \in Nat /\ q \in Nat /\ r \in 0 .. P - 1 /\ part_cnt \in Nat
  BY Sizes DEF Parts, All
<1>2. P * p \in Nat /\ P * q \in Nat
  <2>1. \A x, y \in Nat : x * y \in Nat
    OBVIOUS
  <2> QED
    BY <1>1, <2>1
<1>3. p < q => P * p + P <= P * q
  BY <1>1, BlockOrder
<1>4. q < p => P * q + P <= P * p
  BY <1>1, BlockOrder
<1> QED
  BY <1>1, <1>2, <1>3, <1>4

\* next_part() passes over no partition that has a 1-bit.
LEMMA PartFromStands ==
  ASSUME Partitions, NEW q \in 0 .. part_cnt, NEW cuts \in SUBSET Int
  PROVE  /\ Stood(PartFrom(q, cuts)) /\ PartFrom(q, cuts).cuts = cuts
         /\ FirstFrom(PartFrom(q, cuts), P * q)
         /\ ~end(PartFrom(q, cuts)) => PartFrom(q, cuts).part >= q
<1> DEFINE found == {r \in Parts : r >= q /\ OnesOf(parts[r]) # {}}
<1>1. /\ P \in Nat /\ P > 0 /\ P * q \in Nat /\ part_cnt \in Nat /\ q \in Nat /\ N \in Nat
      /\ Parts \subseteq Nat
  <2>1. \A x, y \in Nat : x * y \in Nat
    OBVIOUS
  <2> QED
    BY Sizes, <2>1 DEF Parts
<1>2. CASE found = {}
  <2>1. PartFrom(q, cuts) = [part |-> part_cnt, it |-> NoIter, pos |-> N, length |-> 0, cuts |-> cuts]
    BY <1>2 DEF PartFrom, AtEnd, Closed
  <2>2. Stood(PartFrom(q, cuts)) /\ end(PartFrom(q, cuts))
    BY <1>1, <2>1 DEF Stood, Cursors, end
  <2>3. ASSUME NEW i \in Ones PROVE i < P * q
    <3>1. PICK p \in Parts : \E r \in All : r \in OnesOf(parts[p]) /\ i = P * p + r
      BY OnesArePlaces
    <3>2. PICK r \in All : r \in OnesOf(parts[p]) /\ i = P * p + r
      BY <3>1
    <3>3. ~(p >= q)
      BY <1>2, <3>2
    <3> QED
      BY <1>1, <3>2, <3>3, PlaceBefore
  <2> QED
    BY <2>1, <2>2, <2>3 DEF FirstFrom
<1>3. CASE found # {}
  <2>1. found \subseteq Nat
    BY <1>1
  <2>2. PICK m \in found : m = Min(found) /\ \A p \in found : m <= p
    BY <1>3, <2>1, MinOf
  <2>3. m \in Parts /\ m >= q /\ OnesOf(parts[m]) # {}
    OBVIOUS
  <2>4. PartFrom(q, cuts) = Enter(m, cuts)
    BY <1>3, <2>2 DEF PartFrom
  <2>5. PICK c : c = Enter(m, cuts)
    OBVIOUS
  <2>6. Stood(c) /\ ~end(c) /\ c.part = m /\ c.cuts = cuts /\ FirstFrom(c, P * m)
    BY <2>3, <2>5, EnterStands
  <2>7. c.pos \in Nat /\ c.pos >= P * m
    BY <2>6, RunsAreOnes DEF FirstFrom
  <2>8. P * m \in Nat /\ P * m >= P * q
    <3>1. 0 \in All
      BY <1>1 DEF All
    <3>2. P * m + 0 >= P * q /\ P * m \in Nat
      BY <2>3, <3>1, PlaceBefore, PlacesAreInPartition
    <3> QED
      BY <1>1, <3>2
  <2>9. ASSUME NEW i \in Ones, P * q <= i PROVE ~(i < c.pos)
    <3>1. PICK p \in Parts : \E r \in All : r \in OnesOf(parts[p]) /\ i = P * p + r
      BY OnesArePlaces
    <3>2. PICK r \in All : r \in OnesOf(parts[p]) /\ i = P * p + r
      BY <3>1
    <3>3. p >= q
      BY <1>1, <2>9, <3>2, PlaceBefore
    <3>4. p >= m
      BY <2>2, <3>2, <3>3
    <3>5. m \in 0 .. part_cnt
      BY <2>3, <1>1 DEF Parts
    <3>6. i >= P * m
      BY <3>2, <3>4, <3>5, PlaceBefore
    <3> QED
      BY <2>6, <3>6 DEF FirstFrom
  <2>10. FirstFrom(c, P * q)
    BY <1>1, <2>6, <2>7, <2>8, <2>9 DEF FirstFrom
  <2> QED
    BY <2>3, <2>4, <2>5, <2>6, <2>10
<1> QED
  BY <1>2, <1>3

\* Going forward within a partition the iterator comes to the first run there,
\* or to that of the partitions behind it.
LEMMA NestedMoves ==
  ASSUME Partitions, NEW c, Stood(c), ~end(c), InNested(c),
         NEW p \in 0 .. P, NEW there, there = NestedOrNext(c, ForwardTo(c.it, p))
  PROVE  Stood(there) /\ there.cuts = c.cuts /\ FirstFrom(there, P * c.part + p)
<1> DEFINE q == c.part
           bits == OnesOf(parts[q])
<1>1. /\ P \in Nat /\ P > 0 /\ P * q \in Nat /\ q \in 0 .. part_cnt /\ q + 1 \in 0 .. part_cnt
      /\ q \in Parts /\ part_cnt \in Nat /\ q \in Nat /\ c.cuts \in SUBSET Int
  <2>1. q \in Parts /\ P * q \in Nat /\ c.cuts \in SUBSET Int
    BY RunsAreOnes DEF Stood, Cursors
  <2> QED
    BY <2>1, Sizes DEF Parts
<1>2. c.it \in Iterators(P) /\ c.it.bits = bits /\ ~parts[q].is_value /\ bits # {}
  BY DEF InNested, Stood
<1>3. PICK it \in Iterators(P) :
        /\ it = ForwardTo(c.it, p) /\ it.bits = bits /\ Stands(it)
        /\ From(bits, it.pos) = From(bits, p)
        /\ it.length > 0 => it.pos >= p
  <2>1. p \in Nat /\ P \in Nat
    BY <1>1
  <2>2. PICK old \in Iterators(P) : old = c.it /\ old.bits = bits
    BY <1>2
  <2>3. /\ ForwardTo(old, p) \in Iterators(P)
        /\ ForwardTo(old, p).bits = old.bits
        /\ Stands(ForwardTo(old, p))
        /\ From(old.bits, ForwardTo(old, p).pos) = From(old.bits, p)
        /\ ForwardTo(old, p).length > 0 => ForwardTo(old, p).pos >= p
    BY <2>1, ForwardStands
  <2> QED
    BY <2>2, <2>3
<1>4. /\ it.len = P /\ it.pos \in Nat /\ it.length \in Nat /\ it.pos + it.length <= P
      /\ it.length = 0 => it.pos = P
      /\ bits \subseteq All
  BY <1>3 DEF Iterators, Stands, All
<1>5. ASSUME NEW i \in Ones, P * q + p <= i, i < P * q + P
      PROVE  i >= P * q + it.pos
  <2>1. i \in Int
    BY OnesArePlaces DEF Pos
  <2>2. i - P * q \in All /\ i = P * q + (i - P * q)
    BY <1>1, <1>5, <2>1 DEF All
  <2>3. i - P * q \in bits
    BY <1>1, <1>5, <2>2, OnesArePlaces
  <2>4. i - P * q \in From(bits, p)
    BY <1>1, <1>5, <2>1, <2>3 DEF From
  <2>5. i - P * q >= it.pos
    BY <1>3, <2>4 DEF From
  <2> QED
    BY <1>1, <1>4, <2>1, <2>5
<1> HIDE DEF bits
<1>6. CASE end(it)
  <2>1. PICK behind : behind = PartFrom(q + 1, c.cuts)
    OBVIOUS
  <2>2. there = behind
    BY <1>3, <1>6, <2>1 DEF NestedOrNext
  <2>3. Stood(behind) /\ behind.cuts = c.cuts /\ FirstFrom(behind, P * (q + 1))
    BY <1>1, <2>1, PartFromStands
  <2>4. P * (q + 1) = P * q + P
    BY <1>1
  <2>5. \A i \in Ones : i \in Int /\ ~(P * q + p <= i /\ i < P * q + P)
    <3>1. it.pos = P
      BY <1>4, <1>6 DEF end
    <3>2. \A i \in Ones : i \in Int
      BY OnesArePlaces DEF Pos
    <3> QED
      BY <1>1, <1>5, <3>1, <3>2
  <2>6. FirstFrom(behind, P * q + P) /\ (~end(behind) => behind.pos \in Nat)
    BY <2>3, <2>4, RunsAreOnes
  <2>7. FirstFrom(behind, P * q + p)
    <3> HIDE DEF q
    <3> QED
      BY <1>1, <2>5, <2>6 DEF FirstFrom
  <2> QED
    BY <2>2, <2>3, <2>7
<1>7. CASE ~end(it)
  <2>1. there = [part |-> q, it |-> it, pos |-> P * q + it.pos, length |-> it.length, cuts |-> c.cuts]
    BY <1>3, <1>7 DEF NestedOrNext, Stand
  <2>2. it.length > 0 /\ it.pos >= p
    BY <1>3, <1>4, <1>7 DEF end
  <2>3. Stood(there) /\ ~end(there)
    BY <1>1, <1>2, <1>3, <1>4, <1>7, <2>1, <2>2 DEF Stood, Cursors, end, InNested, run_end, bits
  <2>4. FirstFrom(there, P * q + p)
    <3>1. \A i \in Ones : i \in Int
      BY OnesArePlaces DEF Pos
    <3>2. there.pos = P * q + it.pos
      BY <2>1
    <3> HIDE DEF q
    <3>3. \A i \in Ones : ~(P * q + p <= i /\ i < P * q + it.pos)
      BY <1>1, <1>4, <1>5, <2>2, <3>1
    <3> QED
      BY <1>1, <1>4, <2>2, <2>3, <3>2, <3>3 DEF FirstFrom
  <2> QED
    BY <2>1, <2>3, <2>4
<1> QED
  BY <1>6, <1>7

\* next() comes to the first run behind the current one.
LEMMA NextRunStands ==
  ASSUME Partitions, NEW c, Stood(c), ~end(c)
  PROVE  Stood(NextRun(c)) /\ FirstFrom(NextRun(c), run_end(c))
<1> DEFINE q == c.part
<1>1. q \in Parts /\ q + 1 \in 0 .. part_cnt /\ P \in Nat /\ P * q \in Nat /\ c.cuts \in SUBSET Int
  <2>1. q \in Parts /\ P * q \in Nat /\ c.cuts \in SUBSET Int
    BY RunsAreOnes DEF Stood, Cursors
  <2> QED
    BY <2>1, Sizes DEF Parts
<1>2. CASE InValue(c)
  <2>1. P * (q + 1) = P * q + P /\ run_end(c) = P * q + P
    BY <1>1, <1>2 DEF InValue, Parts
  <2>2. NextRun(c) = PartFrom(q + 1, c.cuts)
    BY <1>2 DEF NextRun, InValue
  <2> QED
    BY <1>1, <2>1, <2>2, PartFromStands
<1>3. CASE InNested(c)
  <2>1. PICK p : p = run_end(c.it)
    OBVIOUS
  <2>2. p \in 0 .. P
    BY <1>1, <1>3, <2>1 DEF InNested, Iterators, Stands, run_end
  <2>3. run_end(c) = P * q + p
    BY <1>3, <2>1 DEF InNested
  <2>4. NextRun(c) = NestedOrNext(c, ForwardTo(c.it, p))
    BY <1>3, <2>1 DEF NextRun, InNested, next
  <2> QED
    BY <1>3, <2>2, <2>3, <2>4, NestedMoves
<1> QED
  BY <1>2, <1>3 DEF Stood

\* The iterator's own position and length may move.
Shift(c, x, l) == [c EXCEPT !.pos = x, !.length = l]

\* The rest of it stays.
LEMMA Shifted ==
  ASSUME NEW c \in Cursors, NEW x \in Nat, NEW l \in Nat
  PROVE  /\ Shift(c, x, l) \in Cursors
         /\ Shift(c, x, l).part = c.part /\ Shift(c, x, l).it = c.it
         /\ Shift(c, x, l).pos = x /\ Shift(c, x, l).length = l
<1>1. \A A, B, C : \A d \in [part : A, it : B, pos : Nat, length : Nat, cuts : C] :
        /\ [d EXCEPT !.pos = x, !.length = l] \in [part : A, it : B, pos : Nat, length : Nat, cuts : C]
        /\ [d EXCEPT !.pos = x, !.length = l].part = d.part
        /\ [d EXCEPT !.pos = x, !.length = l].it = d.it
        /\ [d EXCEPT !.pos = x, !.length = l].pos = x
        /\ [d EXCEPT !.pos = x, !.length = l].length = l
  OBVIOUS
<1> QED
  BY <1>1 DEF Cursors, Shift

\* The second half of skip_to(), in the partition of the target
LEMMA SkipWithinStands ==
  ASSUME Partitions, NEW c, Stood(c), ~end(c),
         NEW to_pos \in Pos, to_pos \div P = c.part, c.pos <= to_pos
  PROVE  Stood(SkipWithin(c, to_pos)) /\ FirstFrom(SkipWithin(c, to_pos), to_pos)
<1> DEFINE q == c.part
           p == to_pos % P
<1>1. /\ q \in Parts /\ P \in Nat /\ P > 0 /\ P * q \in Nat /\ c.pos \in Nat
      /\ p \in 0 .. P - 1 /\ to_pos \in Nat /\ to_pos = P * q + p
      /\ \A i \in Ones : i \in Int
  <2>1. q \in Parts /\ P * q \in Nat /\ c.pos \in Nat
    BY RunsAreOnes
  <2>2. p \in All /\ to_pos \in Nat /\ to_pos = P * q + p
    BY PositionsArePlaces
  <2>3. \A i \in Ones : i \in Int
    BY OnesArePlaces DEF Pos
  <2> QED
    BY <2>1, <2>2, <2>3, Sizes DEF All
<1> HIDE DEF p
<1>2. CASE c.pos >= to_pos
  <2>1. SkipWithin(c, to_pos) = c /\ c.pos = to_pos
    BY <1>1, <1>2 DEF SkipWithin
  <2> QED
    BY <1>1, <2>1 DEF FirstFrom
<1>3. CASE ~(c.pos >= to_pos) /\ InValue(c)
  <2>1. PICK there : there = Shift(c, to_pos, P - p)
    OBVIOUS
  <2>2. SkipWithin(c, to_pos) = there
    BY <1>3, <2>1 DEF SkipWithin, InValue, p, Shift
  <2>3. /\ there \in Cursors /\ there.part = q /\ there.pos = to_pos /\ there.length = P - p
    <3>1. P - p \in Nat /\ c \in Cursors /\ to_pos \in Nat
      BY <1>1 DEF Stood
    <3> QED
      BY <2>1, <3>1, Shifted
  <2>4. ~end(there) /\ run_end(there) = P * q + P /\ P * q <= there.pos
    BY <1>1, <2>3 DEF end, run_end
  <2>5. Stood(there)
    BY <1>1, <1>3, <2>3, <2>4 DEF Stood, InValue
  <2>6. FirstFrom(there, to_pos)
    BY <1>1, <2>3, <2>4 DEF FirstFrom
  <2> QED
    BY <2>2, <2>5, <2>6
<1>4. CASE ~(c.pos >= to_pos) /\ InNested(c)
  <2>1. SkipWithin(c, to_pos) = NestedOrNext(c, ForwardTo(c.it, p))
    BY <1>4 DEF SkipWithin, InNested, skip_to, p
  <2>2. p \in 0 .. P
    BY <1>1
  <2> QED
    BY <1>1, <1>4, <2>1, <2>2, NestedMoves
<1> QED
  BY <1>2, <1>3, <1>4 DEF Stood

\* skip_to() comes to the first run there is from its target on, wherever it is.
LEMMA SkipToStands ==
  ASSUME Partitions, NEW c, Stood(c), ~end(c), NEW to_pos \in Pos, c.pos <= to_pos
  PROVE  Stood(SkipTo(c, to_pos)) /\ FirstFrom(SkipTo(c, to_pos), to_pos)
<1> DEFINE q == c.part
           dst == to_pos \div P
<1>1. /\ q \in Parts /\ c.pos \in Nat /\ c.length \in Nat /\ run_end(c) = c.pos + c.length
      /\ run_end(c) \in Nat /\ c.pos < run_end(c) /\ P * q \in Nat /\ P * q <= c.pos
      /\ c.cuts \in SUBSET Int
      /\ to_pos \in Nat /\ dst \in Parts /\ dst \in 0 .. part_cnt /\ P * dst \in Nat /\ P * dst <= to_pos
      /\ \A i \in Ones : i \in Int
  <2>1. /\ q \in Parts /\ c.pos \in Nat /\ c.length \in Nat /\ run_end(c) = c.pos + c.length
        /\ run_end(c) \in Nat /\ c.pos < run_end(c) /\ P * q \in Nat /\ P * q <= c.pos
        /\ c.cuts \in SUBSET Int
    BY RunsAreOnes DEF Stood, Cursors, run_end
  <2>2. /\ to_pos \in Nat /\ dst \in Parts /\ to_pos % P \in Nat
        /\ P * dst \in Nat /\ to_pos = P * dst + (to_pos % P)
    BY PositionsArePlaces, Sizes DEF All
  <2>3. dst \in 0 .. part_cnt /\ P * dst <= to_pos
    <3> HIDE DEF dst
    <3> QED
      BY <2>2, Sizes DEF Parts
  <2>4. \A i \in Ones : i \in Int
    BY OnesArePlaces DEF Pos
  <2> QED
    BY <2>1, <2>2, <2>3, <2>4
<1>2. CASE to_pos < run_end(c)
  <2>1. PICK l \in Nat : l = c.length - (to_pos - c.pos) /\ l = run_end(c) - to_pos
    <3> HIDE DEF dst
    <3>1. run_end(c) - to_pos \in Nat /\ c.length - (to_pos - c.pos) = run_end(c) - to_pos
      BY <1>1, <1>2
    <3> QED
      BY <3>1
  <2>2. PICK there : there = Shift(c, to_pos, l)
    OBVIOUS
  <2>3. SkipTo(c, to_pos) = there
    BY <1>2, <2>1, <2>2 DEF SkipTo, Shift
  <2>4. /\ there \in Cursors /\ there.part = q /\ there.it = c.it
        /\ there.pos = to_pos /\ there.length = run_end(c) - to_pos
    <3>1. c \in Cursors /\ to_pos \in Nat
      BY <1>1 DEF Stood
    <3>2. there \in Cursors /\ there.part = q /\ there.it = c.it /\ there.pos = to_pos /\ there.length = l
      BY <2>2, <3>1, Shifted
    <3> QED
      BY <2>1, <3>2
  <2>5. ~end(there) /\ run_end(there) = run_end(c)
    <3> HIDE DEF dst
    <3>1. there.length > 0 /\ there.pos + there.length = run_end(c)
      BY <1>1, <1>2, <2>4
    <3> QED
      BY <3>1 DEF end, run_end
  <2>6. InValue(c) => InValue(there)
    BY <1>1, <2>4, <2>5 DEF InValue
  <2>7. InNested(c) => InNested(there)
    <3> SUFFICES ASSUME InNested(c) PROVE InNested(there)
      OBVIOUS
    <3>1. P * q + c.it.pos \in Int
      BY <1>1 DEF InNested, Iterators
    <3>2. P * q + c.it.pos <= to_pos
      BY <1>1, <3>1 DEF InNested
    <3> QED
      BY <2>4, <2>5, <3>2 DEF InNested
  <2>8. Stood(there)
    BY <2>4, <2>5, <2>6, <2>7 DEF Stood
  <2>9. FirstFrom(there, to_pos)
    BY <1>1, <2>4, <2>5 DEF FirstFrom
  <2> QED
    BY <2>3, <2>8, <2>9
<1>3. CASE ~(to_pos < run_end(c)) /\ dst = q
  <2>1. SkipTo(c, to_pos) = SkipWithin(c, to_pos)
    BY <1>3 DEF SkipTo
  <2> QED
    BY <1>3, <2>1, SkipWithinStands
<1>4. CASE ~(to_pos < run_end(c)) /\ dst # q
  <2>1. PICK there : there = PartFrom(dst, c.cuts)
    OBVIOUS
  <2>2. Stood(there) /\ FirstFrom(there, P * dst) /\ (~end(there) => there.part >= dst)
    BY <1>1, <2>1, PartFromStands
  <2>3. ~end(there) => there.pos \in Nat /\ there.part \in Parts /\ P * there.part <= there.pos
    BY <2>2, RunsAreOnes
  <2>4. CASE end(there) \/ there.pos > to_pos
    <3>1. SkipTo(c, to_pos) = there
      BY <1>4, <2>1, <2>4 DEF SkipTo
    <3>2. FirstFrom(there, to_pos)
      <4> HIDE DEF dst
      <4> QED
        BY <1>1, <2>2, <2>3, <2>4 DEF FirstFrom
    <3> QED
      BY <2>2, <3>1, <3>2
  <2>5. CASE ~end(there) /\ ~(there.pos > to_pos)
    <3>1. SkipTo(c, to_pos) = SkipWithin(there, to_pos)
      BY <1>4, <2>1, <2>5 DEF SkipTo
    <3>2. there.pos <= to_pos
      BY <1>1, <2>3, <2>5
    <3>3. there.part = dst
      <4>1. /\ there.part \in 0 .. part_cnt /\ there.part \in Nat /\ dst \in Nat
            /\ to_pos % P \in All /\ to_pos = P * dst + (to_pos % P)
        BY <1>1, <2>3, <2>5, Sizes, PositionsArePlaces DEF Parts
      <4>2. P * there.part \in Nat /\ (dst < there.part => to_pos < P * there.part)
        BY <1>1, <4>1, PlaceBefore
      <4> HIDE DEF dst
      <4> QED
        BY <1>1, <2>2, <2>3, <2>5, <3>2, <4>1, <4>2
    <3> QED
      BY <2>2, <2>5, <3>1, <3>2, <3>3, SkipWithinStands
  <2> QED
    BY <2>4, <2>5
<1> QED
  BY <1>2, <1>3, <1>4

-----------------------------------------------------------------------------
\* A partition built from its 1-bits has these, as a value or not.
LEMMA InstallKeepsBits ==
  ASSUME NEW k, NEW ones \in SUBSET All
  PROVE  /\ Install(k, P, ones) \in Partition
         /\ OnesOf(Install(k, P, ones)) = ones
         /\ Install(k, P, ones).is_value => k = "run" /\ ones \in {{}, All}
         /\ Install(k, P, ones).diff = {}
<1>1. P \in Nat /\ P > 0
  BY Sizes
<1>2. IsFiniteSet(All) /\ Cardinality(All) = P
  BY <1>1, FS_Interval DEF All
<1>3. IsFiniteSet(ones)
  BY <1>2, FS_Subset
<1>4. Cardinality(ones) = 0 => ones = {}
  BY <1>3, FS_EmptySet
<1>5. Cardinality(ones) = P => ones = All
  BY <1>2, <1>3, FS_Subset
<1>6. CASE k = "run" /\ Cardinality(ones) \in {0, P}
  <2>1. Install(k, P, ones) = [len |-> P, ones |-> ones, diff |-> {}, pending |-> FALSE, is_value |-> TRUE]
    BY <1>1, <1>4, <1>5, <1>6 DEF Install, Value, Compressed
  <2>2. ones \in {{}, All}
    BY <1>4, <1>5, <1>6
  <2>3. Install(k, P, ones) \in Partition /\ Install(k, P, ones).diff = {}
    BY <2>1 DEF Partition
  <2>4. OnesOf(Install(k, P, ones)) = ones
    BY <2>1 DEF OnesOf
  <2> QED
    BY <1>6, <2>2, <2>3, <2>4
<1>7. CASE ~(k = "run" /\ Cardinality(ones) \in {0, P})
  <2>1. Install(k, P, ones) = [len |-> P, ones |-> ones, diff |-> {}, pending |-> FALSE, is_value |-> FALSE]
    BY <1>7 DEF Install, Compressed
  <2> QED
    BY <2>1 DEF Partition, OnesOf
<1> QED
  BY <1>6, <1>7

\* The bits of a set after a write
Put(s, i, val) == IF val THEN s \cup {i} ELSE s \ {i}

\* A write through the diff of a partition
LEMMA ForwardWrites ==
  ASSUME NEW p \in Partition, NEW i \in All, NEW val \in BOOLEAN
  PROVE  /\ Forward(p, i, val) \in Partition
         /\ Forward(p, i, val).is_value = p.is_value
         /\ OnesOf(Forward(p, i, val)) = Put(OnesOf(p), i, val)
<1> DEFINE diff == IF (i \in p.ones) # val THEN p.diff \cup {i} ELSE p.diff \ {i}
<1>1. diff \in SUBSET All
  BY DEF Partition
<1>2. Forward(p, i, val) = [p EXCEPT !.pending = TRUE, !.diff = diff]
  BY DEF Forward
<1>3. /\ Forward(p, i, val).ones = p.ones /\ Forward(p, i, val).diff = diff
      /\ Forward(p, i, val).is_value = p.is_value /\ Forward(p, i, val) \in Partition
  <2> HIDE DEF diff
  <2> QED
    BY <1>1, <1>2 DEF Partition
<1>4. (p.ones \ diff) \cup (diff \ p.ones) = Put(OnesOf(p), i, val)
  BY DEF Put, OnesOf
<1> QED
  BY <1>3, <1>4 DEF OnesOf

\* A write by way of decompression
LEMMA RecompressWrites ==
  ASSUME NEW p \in Partition, ~p.is_value, p.diff = {}, NEW i \in All, NEW val \in BOOLEAN
  PROVE  /\ Recompress(p, i, val) \in Partition
         /\ Recompress(p, i, val).diff = {}
         /\ Recompress(p, i, val).is_value => kind = "run"
         /\ OnesOf(Recompress(p, i, val)) = Put(OnesOf(p), i, val)
<1> DEFINE ones == Put(p.ones, i, val)
<1>1. ones \in SUBSET All /\ p.len = P
  BY DEF Partition, Put
<1>2. Recompress(p, i, val) = Install(kind, P, ones)
  BY <1>1 DEF Recompress, Put
<1>3. OnesOf(p) = p.ones
  BY DEF OnesOf
<1> HIDE DEF ones
<1>4. /\ Install(kind, P, ones) \in Partition
      /\ OnesOf(Install(kind, P, ones)) = ones
      /\ Install(kind, P, ones).is_value => kind = "run"
      /\ Install(kind, P, ones).diff = {}
  BY <1>1, InstallKeepsBits
<1> QED
  BY <1>2, <1>3, <1>4 DEF ones

\* A write of a bitmap that is not a part_run changes its bit, in its partition.
LEMMA SetWrites ==
  ASSUME "run" \notin Written, Partitions, NEW i \in Pos, NEW val \in BOOLEAN, Set(i, val)
  PROVE  /\ Partitions'
         /\ Content' = [Content EXCEPT ![i] = val]
<1> DEFINE q == i \div P
           r == i % P
<1>1. /\ q \in Parts /\ r \in All /\ i = P * q + r
      /\ kind \in {"upforward", "updirect"} /\ kind' = kind
  <2>1. kind \in Written /\ kind \in AllKinds /\ kind' = kind
    BY PartAssumption DEF Set, Partitions
  <2> QED
    BY <2>1, PositionsArePlaces DEF AllKinds
<1>2. parts[q] \in Partition /\ ~parts[q].is_value
  BY <1>1 DEF Partitions
<1>3. PICK new : new = IF kind = "upforward" THEN Forward(parts[q], r, val)
                       ELSE Recompress(parts[q], r, val)
  OBVIOUS
<1>4. parts' = [parts EXCEPT ![q] = new]
  BY <1>3 DEF Set
<1>5. /\ new \in Partition /\ ~new.is_value /\ (new.diff # {} => kind = "upforward")
      /\ OnesOf(new) = Put(OnesOf(parts[q]), r, val)
  <2>1. CASE kind = "upforward"
    BY <1>1, <1>2, <1>3, <2>1, ForwardWrites
  <2>2. CASE kind # "upforward"
    <3>1. parts[q].diff = {}
      BY <1>1, <2>2 DEF Partitions
    <3>2. new = Recompress(parts[q], r, val)
      BY <1>3, <2>2
    <3> QED
      BY <1>1, <1>2, <2>2, <3>1, <3>2, RecompressWrites
  <2> QED
    BY <2>1, <2>2
<1>6. parts' \in [Parts -> Partition] /\ parts'[q] = new /\ \A s \in Parts : s # q => parts'[s] = parts[s]
  BY <1>1, <1>4, <1>5 DEF Partitions
<1> HIDE DEF q, r
<1>7. Partitions'
  <2>1. \A s \in OnesOf(new) : P * q + s \in Pos
    BY <1>1, <1>5 DEF Put, Partitions
  <2>2. ASSUME NEW s \in Parts
        PROVE  /\ \A j \in OnesOf(parts'[s]) : P * s + j \in Pos
               /\ parts'[s].is_value => kind = "run" /\ OnesOf(parts'[s]) \in {{}, All}
               /\ parts'[s].diff # {} => kind = "upforward"
    BY <1>5, <1>6, <2>1 DEF Partitions
  <2>3. kind' \in Kinds
    BY <1>1 DEF Partitions
  <2> QED
    BY <1>1, <1>6, <2>2, <2>3 DEF Partitions, Pos, Parts, OnesOf, Partition
<1>8. ASSUME NEW j \in Pos PROVE test(j)' = IF j = i THEN val ELSE test(j)
  <2>1. PICK t \in Parts, u \in All : t = j \div P /\ u = j % P /\ j = P * t + u
    BY PositionsArePlaces
  <2>2. test(j)' = (u \in OnesOf(parts'[t])) /\ test(j) = (u \in OnesOf(parts[t]))
    BY <2>1 DEF test, OnesOf
  <2>3. CASE t = q
    <3>1. j = i <=> u = r
      BY <1>1, <2>1, <2>3 DEF q, r
    <3> QED
      BY <1>5, <1>6, <2>2, <2>3, <3>1 DEF Put
  <2>4. CASE t # q
    <3>1. j # i
      BY <2>1, <2>4 DEF q
    <3> QED
      BY <1>6, <2>1, <2>2, <2>4, <3>1
  <2> QED
    BY <2>3, <2>4
<1>9. Content' = [Content EXCEPT ![i] = val]
  BY <1>8 DEF Content
<1> QED
  BY <1>7, <1>9

\* merge() keeps every bit.
LEMMA MergeKeeps ==
  ASSUME Partitions, Merge
  PROVE  Partitions' /\ Content' = Content
<1>1. kind' = kind /\ kind \in Kinds
  BY DEF Merge, Partitions
<1>2. ASSUME NEW q \in Parts
      PROVE  /\ parts'[q] \in Partition
             /\ OnesOf(parts'[q]) = OnesOf(parts[q])
             /\ parts'[q].is_value = parts[q].is_value
             /\ parts'[q].diff # {} => parts[q].diff # {}
  <2>1. parts[q] \in Partition
    BY DEF Partitions
  <2>2. PICK new : new = [parts[q] EXCEPT !.ones = OnesOf(parts[q]), !.diff = {}]
    OBVIOUS
  <2>3. parts'[q] = IF parts[q].pending THEN new ELSE parts[q]
    BY <2>2 DEF Merge
  <2>4. /\ new \in Partition /\ new.ones = OnesOf(parts[q]) /\ new.diff = {}
        /\ new.is_value = parts[q].is_value
    <3>1. OnesOf(parts[q]) \in SUBSET All
      BY <2>1 DEF OnesOf, Partition
    <3> QED
      BY <2>1, <2>2, <3>1 DEF Partition
  <2>5. OnesOf(new) = OnesOf(parts[q])
    BY <2>4 DEF OnesOf
  <2> QED
    BY <2>1, <2>3, <2>4, <2>5
<1>3. parts' = [q \in Parts |-> parts'[q]]
  BY DEF Merge
<1>4. Partitions'
  <2>1. parts' \in [Parts -> Partition]
    BY <1>2, <1>3
  <2>2. ASSUME NEW s \in Parts
        PROVE  /\ \A j \in OnesOf(parts'[s]) : P * s + j \in Pos
               /\ parts'[s].is_value => kind = "run" /\ OnesOf(parts'[s]) \in {{}, All}
               /\ parts'[s].diff # {} => kind = "upforward"
    BY <1>2 DEF Partitions
  <2> QED
    BY <1>1, <2>1, <2>2 DEF Partitions, Pos, Parts, OnesOf, Partition
<1>5. ASSUME NEW j \in Pos PROVE test(j)' = test(j)
  BY <1>2, PositionsArePlaces DEF test, OnesOf
<1> QED
  BY <1>4, <1>5 DEF Content

-----------------------------------------------------------------------------
\* The invariant holds of a new bitmap.
LEMMA InitIInv == Init => IInv
<1> SUFFICES ASSUME Init PROVE IInv
  OBVIOUS
<1>1. PICK ones \in SUBSET Pos :
        parts = [q \in Parts |-> Install(kind, P, {i \in All : P * q + i \in ones})]
  BY DEF Init
<1>2. ASSUME NEW q \in Parts
      PROVE  /\ parts[q] \in Partition
             /\ \A i \in OnesOf(parts[q]) : P * q + i \in Pos
             /\ parts[q].is_value => kind = "run" /\ OnesOf(parts[q]) \in {{}, All}
             /\ parts[q].diff = {}
  <2>1. PICK s \in SUBSET All : s = {i \in All : P * q + i \in ones}
    OBVIOUS
  <2>2. parts[q] = Install(kind, P, s)
    BY <1>1, <2>1
  <2>3. /\ parts[q] \in Partition /\ OnesOf(parts[q]) = s
        /\ parts[q].is_value => kind = "run" /\ s \in {{}, All}
        /\ parts[q].diff = {}
    BY <2>2, InstallKeepsBits
  <2> QED
    BY <2>1, <2>3
<1>3. Partitions
  <2>1. parts \in [Parts -> Partition]
    BY <1>1, <1>2
  <2>2. kind \in Kinds
    BY DEF Init
  <2> QED
    BY <1>2, <2>1, <2>2 DEF Partitions
<1>4. Stood(Closed)
  BY Sizes DEF Stood, Cursors, Closed, end
<1> QED
  BY <1>3, <1>4, Sizes DEF Init, IInv

\* A call that only reads moves the iterator to the first run from where the
\* client has read to.
LEMMA ReadKeeps ==
  ASSUME IInv, NEW c, NEW from \in 0 .. N, Stood(c), FirstFrom(c, from),
         cursor' = c, seen' = from, UNCHANGED <<kind, parts>>
  PROVE  IInv'
<1>1. Partitions' /\ Ones' = Ones
  BY DEF IInv, Partitions, Ones, test, OnesOf
<1>2. Stood(cursor)'
  BY DEF Stood, InValue, InNested, OnesOf, Cursors
<1>3. FirstFrom(cursor, seen)'
  BY <1>1 DEF FirstFrom
<1> QED
  BY <1>1, <1>2, <1>3 DEF IInv

\* So does every call keep it.
LEMMA NextIInv == ASSUME "run" \notin Written PROVE IInv /\ [Next]_vars => IInv'
<1> SUFFICES ASSUME IInv, [Next]_vars PROVE IInv'
  OBVIOUS
<1>1. Partitions /\ Stood(cursor) /\ N \in Nat
  BY Sizes DEF IInv
<1>2. ASSUME Partitions', cursor' = Closed, seen' = 0 PROVE IInv'
  <2>1. Stood(Closed)
    BY Sizes DEF Stood, Cursors, Closed, end
  <2>2. Stood(cursor)'
    BY <1>2, <2>1 DEF Stood, Closed, end, Cursors
  <2> QED
    BY <1>1, <1>2, <2>2 DEF IInv
<1>3. ASSUME NEW i \in Pos, NEW val \in BOOLEAN, Set(i, val) PROVE IInv'
  BY <1>1, <1>2, <1>3, SetWrites DEF Set
<1>4. CASE Merge
  BY <1>1, <1>2, <1>4, MergeKeeps DEF Merge
<1>5. CASE Open
  <2>1. PICK cuts \in CutsOf(Ones) : cursor' = PartFrom(0, cuts)
    BY <1>5 DEF Open
  <2>2. cuts \in SUBSET Int /\ 0 \in 0 .. part_cnt /\ P * 0 = 0
    <3>1. \A i \in Ones : i \in Int
      BY <1>1, OnesArePlaces DEF Pos
    <3> QED
      BY <3>1, Sizes DEF CutsOf
  <2>3. Stood(PartFrom(0, cuts)) /\ FirstFrom(PartFrom(0, cuts), 0)
    BY <1>1, <2>2, PartFromStands
  <2> QED
    BY <1>1, <1>5, <2>1, <2>3, ReadKeeps DEF Open
<1>6. CASE Advance
  <2>1. Stood(NextRun(cursor)) /\ FirstFrom(NextRun(cursor), run_end(cursor))
    BY <1>1, <1>6, NextRunStands DEF Advance, Read
  <2>2. run_end(cursor) \in 0 .. N
    BY <1>1, <1>6, RunsAreOnes DEF Advance, Read
  <2> QED
    BY <1>6, <2>1, <2>2, ReadKeeps DEF Advance, Read
<1>7. ASSUME NEW pos \in Pos, Skip(pos) PROVE IInv'
  <2>1. pos \in 0 .. N /\ cursor.pos <= pos
    BY <1>1, <1>7 DEF Skip, Pos, Stood, Cursors
  <2>2. Stood(SkipTo(cursor, pos)) /\ FirstFrom(SkipTo(cursor, pos), pos)
    BY <1>1, <1>7, <2>1, SkipToStands DEF Skip, Read
  <2> QED
    BY <1>7, <2>1, <2>2, ReadKeeps DEF Skip, Read
<1>8. CASE UNCHANGED vars
  BY <1>8 DEF vars, IInv, Partitions, Stood, Cursors, InValue, InNested, FirstFrom, Ones, test, OnesOf, end, run_end
<1> QED
  BY <1>3, <1>4, <1>5, <1>6, <1>7, <1>8 DEF Next

\* The inductive invariant
LEMMA Inductive == ASSUME "run" \notin Written PROVE Spec => []IInv
BY InitIInv, NextIInv, PTL DEF Spec

\* Type correctness: no partition of a bitmap, however its length divides, holds
\* a bit behind the end, and no iterator goes there.
THEOREM TypeCorrect == ASSUME "run" \notin Written PROVE Spec => []TypeOK
<1>1. IInv => TypeOK
  <2> SUFFICES ASSUME IInv PROVE TypeOK
    OBVIOUS
  <2>1. Partitions /\ Stood(cursor) /\ N \in Nat /\ seen \in 0 .. N
    BY Sizes DEF IInv
  <2>2. ASSUME NEW q \in Parts
        PROVE  /\ parts[q].len = P /\ parts[q].ones \subseteq All /\ parts[q].diff \subseteq All
               /\ parts[q].is_value \in BOOLEAN /\ parts[q].pending \in BOOLEAN
               /\ \A i \in OnesOf(parts[q]) : P * q + i \in Pos
    BY <2>1 DEF Partitions, Partition
  <2>3. cursor.part \in 0 .. part_cnt /\ cursor.pos \in Nat /\ cursor.length \in Nat
    BY <2>1 DEF Stood, Cursors
  <2>4. cursor.pos \in 0 .. N /\ cursor.length \in 0 .. N - cursor.pos
    <3>1. CASE end(cursor)
      BY <2>1, <2>3, <3>1 DEF Stood, end
    <3>2. CASE ~end(cursor)
      BY <2>1, <2>3, <3>2, RunsAreOnes DEF run_end
    <3> QED
      BY <3>1, <3>2
  <2>5. kind \in Kinds
    BY <2>1 DEF Partitions
  <2> QED
    BY <2>1, <2>2, <2>3, <2>4, <2>5 DEF TypeOK
<1> QED
  BY <1>1, Inductive, PTL

\* The iterator reads every 1-bit of every partition, in any mix of next() and
\* skip_to(), and ends only when there is none left.
THEOREM GivesNextRun == ASSUME "run" \notin Written PROVE Spec => []RunIsNext
<1>1. IInv => RunIsNext
  <2> SUFFICES ASSUME IInv, cursor # Closed PROVE
        IF end(cursor) THEN \A i \in Ones : i < seen
        ELSE /\ cursor.pos >= seen
             /\ cursor.pos .. run_end(cursor) - 1 \subseteq Ones
             /\ \A i \in Ones : ~(seen <= i /\ i < cursor.pos)
    BY DEF RunIsNext
  <2>1. Partitions /\ Stood(cursor) /\ FirstFrom(cursor, seen)
    BY DEF IInv
  <2> QED
    BY <2>1, RunsAreOnes DEF FirstFrom
<1> QED
  BY <1>1, Inductive, PTL

\* Through test() a partitioned bitmap is a plain bitmap: each call is a write
\* of its bit, or changes none.
THEOREM Refinement == ASSUME "run" \notin Written PROVE Spec => ImplementsBitmap
<1>1. Init => Abstract!Init
  <2> SUFFICES ASSUME Init PROVE Abstract!Init
    OBVIOUS
  <2>1. Content \in [Pos -> BOOLEAN]
    BY DEF Content, test
  <2> QED
    BY <2>1 DEF Init, Abstract!Init, Abstract!NoCall, Abstract!Pos, Pos
<1>2. IInv /\ [Next]_vars => [Abstract!Next]_Abstract!vars
  <2> SUFFICES ASSUME IInv, [Next]_vars PROVE [Abstract!Next]_Abstract!vars
    OBVIOUS
  <2>1. Partitions
    BY DEF IInv
  <2>2. ASSUME NEW i \in Pos, NEW val \in BOOLEAN, Set(i, val) PROVE Abstract!Next
    <3>1. Content' = [Content EXCEPT ![i] = val]
      BY <2>1, <2>2, SetWrites
    <3>2. Abstract!Put(i, val)
      BY <2>2, <3>1 DEF Set, Abstract!Put, Abstract!Write
    <3> QED
      BY <3>2 DEF Abstract!Next, Abstract!Pos, Pos
  <2>3. ASSUME Content' = Content, call' = [op |-> "maintain"] PROVE Abstract!Next
    BY <2>3 DEF Abstract!Next, Abstract!Maintain, Abstract!Maintenance
  <2>4. CASE Merge
    BY <2>1, <2>3, <2>4, MergeKeeps DEF Merge
  <2>5. ASSUME UNCHANGED <<kind, parts>> PROVE Content' = Content
    BY <2>5 DEF Content, test, OnesOf
  <2>6. CASE Open
    BY <2>3, <2>5, <2>6 DEF Open
  <2>7. CASE Advance
    BY <2>3, <2>5, <2>7 DEF Advance, Read
  <2>8. ASSUME NEW pos \in Pos, Skip(pos) PROVE Abstract!Next
    BY <2>3, <2>5, <2>8 DEF Skip, Read
  <2>9. CASE UNCHANGED vars
    BY <2>5, <2>9 DEF vars, Abstract!vars
  <2> QED
    BY <2>2, <2>4, <2>6, <2>7, <2>8, <2>9 DEF Next
<1> QED
  BY <1>1, <1>2, Inductive, PTL DEF Spec, Abstract!Spec, ImplementsBitmap
=============================================================================
