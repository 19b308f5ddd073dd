---------------------------- MODULE RunOpsProofs ----------------------------
(***************************************************************************)
(* The bitwise operations on run iterators give the runs of their result,  *)
(* for bitmaps of every length and runs cut anywhere.                      *)
(***************************************************************************)
EXTENDS RunOps, NatLemmas

\* What the two iterators have still to give, combined
Left == Combined(AheadOf(it_a), AheadOf(it_b))

Iterator(it) == it \in Iterators(Len) /\ Stands(it) /\ it.cuts \in CutsOf(it.bits)

Types ==
  /\ operation \in Operations
  /\ Iterator(it_a) /\ Iterator(it_b)
  /\ pos \in Nat /\ length \in Nat /\ pos + length <= Len
  /\ pc \in {"loop", "ready"}
  /\ seen \in 0 .. Len

\* Range encoding: what is left of the first bitmap implies what is left of
\* the second.
Implied == operation = "xor_re" => AheadOf(it_a) \subseteq AheadOf(it_b)

\* In the loop the iterators hold what the client has not seen.  A run that was
\* given is the first of that, and the iterators hold what follows it, but for
\* the conjunction, which has not left it yet.
Held ==
  IF pc = "loop" THEN Left = From(Result, seen)
  ELSE IF length = 0 THEN From(Result, seen) = {}
  ELSE /\ pos >= seen
       /\ \A i \in Pos : pos <= i /\ i < pos + length => i \in Result
       /\ From(Result, seen) = From(Result, pos)
       /\ IF operation = "and"
            THEN Left = From(Result, pos) /\ pos = begin_max /\ pos + length = end_min
            ELSE Left = From(Result, pos + length)

\* The conjunction does not keep up with a client that skips within its run.
Exact == operation = "and" => "and" \notin Skipped

IInv == Types /\ Implied /\ (Exact => Held)

\* Going forward to a position, an iterator comes to stand on the first run
\* that is left there, whole or in part, and passes over no bit from the
\* position on.
LEMMA ForwardStands ==
  ASSUME NEW len \in Nat, NEW it \in Iterators(len), NEW p \in Nat
  PROVE  /\ ForwardTo(it, p) \in Iterators(len)
         /\ ForwardTo(it, p).bits = it.bits
         /\ ForwardTo(it, p).cuts = it.cuts
         /\ Stands(ForwardTo(it, p))
         /\ From(it.bits, ForwardTo(it, p).pos) = From(it.bits, p)
         /\ ForwardTo(it, p).length > 0 => ForwardTo(it, p).pos >= p
<1>1. OnRunFrom(ForwardTo(it, p), it, p)
  BY DEF OnRunFrom, ForwardTo
<1> QED
  BY <1>1, ForwardToStands

\* A fresh iterator stands on the first run.
LEMMA RunIterStands ==
  ASSUME NEW len \in Nat, NEW bits \in SUBSET (0 .. len - 1), NEW cuts \in SUBSET Int
  PROVE  /\ run_iter(len, bits, cuts) \in Iterators(len)
         /\ run_iter(len, bits, cuts).bits = bits
         /\ run_iter(len, bits, cuts).cuts = cuts
         /\ Stands(run_iter(len, bits, cuts))
         /\ From(bits, run_iter(len, bits, cuts).pos) = bits
<1> DEFINE it == [len |-> len, bits |-> bits, cuts |-> cuts, pos |-> 0, length |-> 0]
<1>1. it \in Iterators(len)
  BY DEF Iterators
<1>2. From(bits, 0) = bits
  <2>1. \A i \in bits : i \in Int /\ i >= 0
    OBVIOUS
  <2> QED
    BY <2>1 DEF From
<1> QED
  BY <1>1, <1>2, ForwardStands DEF run_iter

-----------------------------------------------------------------------------
\* Where an iterator stands, in terms of the bits it has still to give
LEMMA RunAhead ==
  ASSUME NEW it, Iterator(it)
  PROVE  /\ it.pos \in Nat /\ it.length \in Nat
         /\ run_end(it) = it.pos + it.length /\ run_end(it) <= Len
         /\ it.bits \subseteq Pos /\ AheadOf(it) \subseteq Pos
         /\ \A i \in AheadOf(it) : i >= it.pos
         /\ \A i \in Pos : it.pos <= i /\ i < run_end(it) => i \in AheadOf(it)
         /\ it.length = 0 => AheadOf(it) = {}
         /\ ~end(it) <=> it.length > 0
<1>1. /\ it.len = Len /\ it.bits \subseteq Pos /\ it.pos \in Nat /\ it.length \in Nat
      /\ it.pos + it.length <= Len /\ (it.length = 0 => it.pos = Len)
      /\ \A i \in it.pos .. it.pos + it.length - 1 : i \in it.bits
  BY RunOpsAssumption DEF Iterator, Iterators, Stands, Pos
<1>2. AheadOf(it) \subseteq Pos /\ \A i \in AheadOf(it) : i >= it.pos
  BY <1>1 DEF AheadOf
<1>3. \A i \in Pos : it.pos <= i /\ i < it.pos + it.length => i \in AheadOf(it)
  BY <1>1, RunOpsAssumption DEF AheadOf, Pos
<1>4. it.length = 0 => AheadOf(it) = {}
  BY <1>1, <1>2, RunOpsAssumption DEF Pos
<1> QED
  BY <1>1, <1>2, <1>3, <1>4 DEF run_end, end

\* next() and skip_to() take away what lies before their target, no more.
LEMMA MovedAhead ==
  ASSUME NEW it, Iterator(it), NEW p \in Nat
  PROVE  /\ Iterator(ForwardTo(it, p))
         /\ ForwardTo(it, p).bits = it.bits
         /\ p >= it.pos => AheadOf(ForwardTo(it, p)) = From(AheadOf(it), p)
<1>1. it \in Iterators(Len) /\ Len \in Nat
  BY RunOpsAssumption DEF Iterator
<1>2. /\ ForwardTo(it, p) \in Iterators(Len) /\ Stands(ForwardTo(it, p))
      /\ ForwardTo(it, p).bits = it.bits /\ ForwardTo(it, p).cuts = it.cuts
      /\ From(it.bits, ForwardTo(it, p).pos) = From(it.bits, p)
  BY <1>1, ForwardStands
<1>3. AheadOf(ForwardTo(it, p)) = From(it.bits, p)
  BY <1>2 DEF AheadOf, From
<1>4. p >= it.pos => From(it.bits, p) = From(AheadOf(it), p)
  BY RunAhead, RunOpsAssumption DEF AheadOf, From, Pos
<1> QED
  BY <1>2, <1>3, <1>4 DEF Iterator

\* The invariant holds of fresh iterators.
LEMMA InitIInv == Init => IInv
<1> SUFFICES ASSUME Init PROVE IInv
  OBVIOUS
<1>1. Len \in Nat /\ Len > 0
  BY RunOpsAssumption
<1>2. PICK a \in SUBSET Pos, b \in SUBSET Pos :
        /\ operation = "xor_re" => a \subseteq b
        /\ \E cuts_a \in CutsOf(a), cuts_b \in CutsOf(b) :
             it_a = run_iter(Len, a, cuts_a) /\ it_b = run_iter(Len, b, cuts_b)
  BY DEF Init
<1>3. ASSUME NEW s \in SUBSET Pos, NEW cuts \in CutsOf(s)
      PROVE  /\ Iterator(run_iter(Len, s, cuts))
             /\ run_iter(Len, s, cuts).bits = s
             /\ AheadOf(run_iter(Len, s, cuts)) = s
  <2>1. cuts \in SUBSET Int
    BY <1>1 DEF CutsOf, Pos
  <2> QED
    BY <1>1, <2>1, RunIterStands DEF Pos, Iterator, AheadOf, From
<1>4. /\ Iterator(it_a) /\ it_a.bits = a /\ AheadOf(it_a) = a
      /\ Iterator(it_b) /\ it_b.bits = b /\ AheadOf(it_b) = b
  BY <1>2, <1>3
<1>5. Types
  BY <1>1, <1>4 DEF Init, Types
<1>6. Implied
  BY <1>2, <1>4 DEF Implied
<1>7. Result \subseteq Pos /\ Left = Result
  BY <1>4 DEF Result, Left, Combined
<1>8. From(Result, seen) = Result
  <2>1. \A i \in Result : i >= 0
    BY <1>7 DEF Pos
  <2> QED
    BY <2>1 DEF Init, From
<1> QED
  BY <1>5, <1>6, <1>7, <1>8 DEF Init, Held, IInv

-----------------------------------------------------------------------------
\* A run that is the first of what is left is the first of the result from
\* where the client is.
LEMMA FirstGiven ==
  ASSUME NEW R \in SUBSET Pos, NEW s \in Nat, NEW L, L = From(R, s),
         NEW p \in Nat, NEW l \in Nat, l > 0, p + l <= Len,
         \A i \in L : i >= p,
         \A i \in Pos : p <= i /\ i < p + l => i \in L
  PROVE  /\ p >= s
         /\ \A i \in Pos : p <= i /\ i < p + l => i \in R
         /\ From(R, s) = From(R, p)
         /\ From(L, p + l) = From(R, p + l)
<1> USE RunOpsAssumption
<1>1. p \in Pos
  BY DEF Pos
<1>2. p \in L
  BY <1>1
<1>3. p >= s
  BY <1>2 DEF From
<1>4. \A i \in R : i \in Int /\ (i >= s <=> i >= p)
  BY <1>3 DEF From, Pos
<1>5. From(R, s) = From(R, p)
  BY <1>4 DEF From
<1>6. From(L, p + l) = From(R, p + l)
  BY <1>3, <1>4 DEF From
<1> QED
  BY <1>3, <1>5, <1>6 DEF From

\* So does a round that gives a run, whether it leaves it or stays on it.
LEMMA Gives ==
  ASSUME Types, Held, pc = "loop", pc' = "ready", UNCHANGED seen, Result' = Result,
         pos' \in Nat, length' \in Nat, length' > 0, pos' + length' <= Len,
         \A i \in Left : i >= pos',
         \A i \in Pos : pos' <= i /\ i < pos' + length' => i \in Left,
         IF operation' = "and"
           THEN Left' = Left /\ pos' = begin_max' /\ pos' + length' = end_min'
           ELSE Left' = From(Left, pos' + length')
  PROVE  Held'
<1>1. Left = From(Result, seen)
  BY DEF Held
<1>2. Result \in SUBSET Pos
  BY RunAhead DEF Types, Result, Combined
<1>3. seen \in Nat
  BY DEF Types
<1>4. /\ pos' >= seen
      /\ \A i \in Pos : pos' <= i /\ i < pos' + length' => i \in Result
      /\ From(Result, seen) = From(Result, pos')
      /\ From(Left, pos' + length') = From(Result, pos' + length')
  BY <1>1, <1>2, <1>3, FirstGiven
<1> QED
  BY <1>1, <1>4 DEF Held, From

\* One of the two runs is the next run of the result: the other iterator is at
\* its end, or on a run that begins later.
LEMMA EmitAKeeps ==
  ASSUME Types, Implied, Held, pc = "loop", operation # "and", UNCHANGED <<operation, seen>>,
         EmitA, ~end(it_a), end(it_b) \/ run_end(it_a) <= it_b.pos
  PROVE  IInv'
<1>1. /\ Iterator(it_a) /\ Iterator(it_b) /\ Len \in Nat
  BY RunOpsAssumption DEF Types
<1>2. /\ Iterator(it_a') /\ Iterator(it_b') /\ it_a'.bits = it_a.bits /\ it_b' = it_b
      /\ AheadOf(it_a') = From(AheadOf(it_a), run_end(it_a))
  <2>1. run_end(it_a) \in Nat /\ run_end(it_a) >= it_a.pos
    BY <1>1, RunAhead
  <2>2. it_a' = ForwardTo(it_a, run_end(it_a)) /\ it_b' = it_b
    BY DEF EmitA, next
  <2> QED
    BY <1>1, <2>1, <2>2, MovedAhead
<1>3. /\ pos' = it_a.pos /\ length' = it_a.length /\ pc' = "ready"
  BY DEF EmitA, Emit
<1>4. Types'
  BY <1>1, <1>2, <1>3, RunAhead DEF Types
<1>5. Result' = Result
  BY <1>2 DEF Result, Combined
<1>6. AheadOf(it_b) = From(AheadOf(it_b), run_end(it_a))
  BY <1>1, RunAhead DEF From, Pos
<1>7. Implied'
  BY <1>2, <1>6 DEF Implied, From
<1>8. Left' = From(Left, run_end(it_a))
  BY <1>2, <1>6 DEF Left, Combined, From
<1>9. \A i \in Left : i >= it_a.pos
  BY <1>1, RunAhead DEF Left, Combined, Pos
<1>10. \A i \in Pos : it_a.pos <= i /\ i < run_end(it_a) => i \in Left
  <2>1. \A i \in AheadOf(it_b) : ~(i < run_end(it_a))
    BY <1>1, RunAhead DEF Pos
  <2> QED
    BY <1>1, <2>1, RunAhead DEF Left, Combined, Types
<1>11. Held'
  BY <1>1, <1>3, <1>4, <1>5, <1>8, <1>9, <1>10, RunAhead, Gives DEF Types
<1> QED
  BY <1>4, <1>7, <1>11 DEF IInv

\* The same for the other iterator
LEMMA EmitBKeeps ==
  ASSUME Types, Implied, Held, pc = "loop", operation # "and", UNCHANGED <<operation, seen>>,
         EmitB, ~end(it_b), end(it_a) \/ run_end(it_b) <= it_a.pos
  PROVE  IInv'
<1>1. /\ Iterator(it_a) /\ Iterator(it_b) /\ Len \in Nat
  BY RunOpsAssumption DEF Types
<1>2. /\ Iterator(it_a') /\ Iterator(it_b') /\ it_b'.bits = it_b.bits /\ it_a' = it_a
      /\ AheadOf(it_b') = From(AheadOf(it_b), run_end(it_b))
  <2>1. run_end(it_b) \in Nat /\ run_end(it_b) >= it_b.pos
    BY <1>1, RunAhead
  <2>2. it_b' = ForwardTo(it_b, run_end(it_b)) /\ it_a' = it_a
    BY DEF EmitB, next
  <2> QED
    BY <1>1, <2>1, <2>2, MovedAhead
<1>3. /\ pos' = it_b.pos /\ length' = it_b.length /\ pc' = "ready"
  BY DEF EmitB, Emit
<1>4. Types'
  BY <1>1, <1>2, <1>3, RunAhead DEF Types
<1>5. Result' = Result
  BY <1>2 DEF Result, Combined
<1>6. AheadOf(it_a) = From(AheadOf(it_a), run_end(it_b))
  BY <1>1, RunAhead DEF From, Pos
<1>7. Implied'
  BY <1>2, <1>6 DEF Implied, From
<1>8. Left' = From(Left, run_end(it_b))
  BY <1>2, <1>6 DEF Left, Combined, From
<1>9. \A i \in Left : i >= it_b.pos
  BY <1>1, RunAhead DEF Left, Combined, Pos
<1>10. \A i \in Pos : it_b.pos <= i /\ i < run_end(it_b) => i \in Left
  <2>1. \A i \in AheadOf(it_a) : ~(i < run_end(it_b))
    BY <1>1, RunAhead DEF Pos
  <2> QED
    BY <1>1, <2>1, RunAhead DEF Left, Combined, Types
<1>11. Held'
  BY <1>1, <1>3, <1>4, <1>5, <1>8, <1>9, <1>10, RunAhead, Gives DEF Types
<1> QED
  BY <1>4, <1>7, <1>11 DEF IInv

\* The positions the loops compare
LEMMA Bounds ==
  ASSUME Iterator(it_a), Iterator(it_b)
  PROVE  /\ begin_min = IF it_a.pos <= it_b.pos THEN it_a.pos ELSE it_b.pos
         /\ begin_max = IF it_a.pos <= it_b.pos THEN it_b.pos ELSE it_a.pos
         /\ end_min = IF run_end(it_a) <= run_end(it_b) THEN run_end(it_a) ELSE run_end(it_b)
         /\ end_max = IF run_end(it_a) <= run_end(it_b) THEN run_end(it_b) ELSE run_end(it_a)
<1>1. /\ it_a.pos \in Nat /\ it_b.pos \in Nat /\ run_end(it_a) \in Nat /\ run_end(it_b) \in Nat
  BY RunAhead
<1> QED
  BY <1>1, MinMaxOfPair DEF begin_min, begin_max, end_min, end_max

\* What a step may do to the two iterators: each is left alone or moved to a
\* place at or behind its own.
Moved(it, new) == new = it \/ \E p \in Nat : p >= it.pos /\ new = ForwardTo(it, p)

\* Iterators that were moved keep their bits, and the types hold.
LEMMA MovedTypes ==
  ASSUME Types, Moved(it_a, it_a'), Moved(it_b, it_b'),
         UNCHANGED operation, pos' \in Nat, length' \in Nat, pos' + length' <= Len,
         pc' \in {"loop", "ready"}, seen' \in 0 .. Len
  PROVE  Types' /\ it_a'.bits = it_a.bits /\ it_b'.bits = it_b.bits /\ Result' = Result
<1>1. Iterator(it_a) /\ Iterator(it_b)
  BY DEF Types
<1>2. Iterator(it_a') /\ it_a'.bits = it_a.bits
  BY <1>1, MovedAhead DEF Moved
<1>3. Iterator(it_b') /\ it_b'.bits = it_b.bits
  BY <1>1, MovedAhead DEF Moved
<1> QED
  BY <1>2, <1>3 DEF Types, Result, Combined

-----------------------------------------------------------------------------
\* The conjunction gives the overlap of the two runs and stays on it, or moves
\* the run that ends first up to the other.
LEMMA AndKeeps ==
  ASSUME IInv, pc = "loop", And, UNCHANGED <<operation, seen>>
  PROVE  IInv'
<1>1. Iterator(it_a) /\ Iterator(it_b) /\ Len \in Nat /\ seen \in Nat /\ operation = "and"
  BY RunOpsAssumption DEF IInv, Types, And
<1>2. Implied'
  BY <1>1 DEF Implied
<1>3. CASE begin_max < end_min
  <2>1. /\ pos' = begin_max /\ length' = end_min - begin_max /\ pc' = "ready"
        /\ it_a' = it_a /\ it_b' = it_b
    BY <1>3 DEF And, Emit
  <2>2. /\ begin_max \in Nat /\ end_min \in Nat /\ end_min <= Len
    BY <1>1, Bounds, RunAhead
  <2>3. Types'
    BY <1>3, <2>1, <2>2 DEF IInv, Types
  <2>4. \A i \in Left : i >= begin_max
    BY <1>1, RunAhead, Bounds DEF Left, Combined, Pos
  <2>5. \A i \in Pos : begin_max <= i /\ i < end_min => i \in Left
    BY <1>1, RunAhead, Bounds DEF Left, Combined, Pos
  <2>6. Left' = Left /\ Result' = Result /\ begin_max' = begin_max /\ end_min' = end_min
    BY <2>1 DEF Left, Result, Combined, AheadOf, begin_max, end_min, run_end
  <2>7. pos' + length' = end_min /\ length' > 0 /\ pos' \in Nat /\ length' \in Nat
    BY <1>3, <2>1, <2>2
  <2>8. Held => Held'
    BY <1>1, <2>1, <2>2, <2>4, <2>5, <2>6, <2>7, Gives DEF IInv
  <2> QED
    BY <1>2, <2>3, <2>8 DEF IInv, Exact
<1>4. CASE ~(begin_max < end_min)
  <2>1. AndSkips /\ UNCHANGED <<pos, length, pc>>
    BY <1>4 DEF And
  <2>2. Both
    BY DEF And
  <2>3. CASE run_end(it_a) < run_end(it_b)
    <3>1. it_a' = ForwardTo(it_a, it_b.pos) /\ it_b' = it_b
      BY <2>1, <2>3 DEF AndSkips, skip_to
    <3>2. run_end(it_a) <= it_b.pos /\ it_b.pos \in Nat /\ it_b.pos >= it_a.pos
      BY <1>1, <1>4, <2>2, <2>3, Bounds, RunAhead DEF Both
    <3>3. Types' /\ Result' = Result
      BY <2>1, <3>1, <3>2, MovedTypes DEF IInv, Types, Moved
    <3>4. AheadOf(it_a') = From(AheadOf(it_a), it_b.pos)
      BY <1>1, <3>1, <3>2, MovedAhead
    <3>5. Left' = Left
      BY <1>1, <3>1, <3>4, RunAhead DEF Left, Combined, From
    <3> QED
      BY <1>2, <2>1, <3>3, <3>5 DEF IInv, Exact, Held
  <2>4. CASE ~(run_end(it_a) < run_end(it_b))
    <3>1. it_b' = ForwardTo(it_b, it_a.pos) /\ it_a' = it_a
      BY <2>1, <2>4 DEF AndSkips, skip_to
    <3>2. run_end(it_b) <= it_a.pos /\ it_a.pos \in Nat /\ it_a.pos >= it_b.pos
      BY <1>1, <1>4, <2>2, <2>4, Bounds, RunAhead DEF Both
    <3>3. Types' /\ Result' = Result
      BY <2>1, <3>1, <3>2, MovedTypes DEF IInv, Types, Moved
    <3>4. AheadOf(it_b') = From(AheadOf(it_b), it_a.pos)
      BY <1>1, <3>1, <3>2, MovedAhead
    <3>5. Left' = Left
      BY <1>1, <3>1, <3>4, RunAhead DEF Left, Combined, From
    <3> QED
      BY <1>2, <2>1, <3>3, <3>5 DEF IInv, Exact, Held
  <2> QED
    BY <2>3, <2>4
<1> QED
  BY <1>3, <1>4

\* The disjunction joins runs that overlap or touch.
LEMMA OrKeeps ==
  ASSUME IInv, pc = "loop", Or, UNCHANGED <<operation, seen>>
  PROVE  IInv'
<1>1. Iterator(it_a) /\ Iterator(it_b) /\ Len \in Nat /\ operation = "or" /\ Both
  BY RunOpsAssumption DEF IInv, Exact, Types, Or
<1>2. it_a.length > 0 /\ it_b.length > 0
  BY <1>1, RunAhead DEF Both
<1>3. CASE begin_max <= end_min
  <2>1. /\ it_a' = ForwardTo(it_a, end_max) /\ it_b' = ForwardTo(it_b, end_max)
        /\ pos' = begin_min /\ length' = end_max - begin_min /\ pc' = "ready"
    BY <1>3 DEF Or, Emit, skip_to
  <2>2. /\ begin_min \in Nat /\ end_max \in Nat /\ end_max <= Len /\ begin_min < end_max
        /\ end_max >= it_a.pos /\ end_max >= it_b.pos
    BY <1>1, <1>2, Bounds, RunAhead
  <2>3. pos' \in Nat /\ length' \in Nat /\ length' > 0 /\ pos' + length' = end_max
    BY <2>1, <2>2
  <2>4. Types' /\ Result' = Result
    BY <1>1, <2>1, <2>2, <2>3, MovedTypes DEF IInv, Exact, Types, Moved
  <2>5. /\ AheadOf(it_a') = From(AheadOf(it_a), end_max)
        /\ AheadOf(it_b') = From(AheadOf(it_b), end_max)
    BY <1>1, <2>1, <2>2, MovedAhead
  <2>6. Left' = From(Left, end_max)
    BY <1>1, <2>5 DEF Left, Combined, From
  <2>7. \A i \in Left : i >= begin_min
    BY <1>1, RunAhead, Bounds DEF Left, Combined, Pos
  <2>8. \A i \in Pos : begin_min <= i /\ i < end_max => i \in Left
    BY <1>1, <1>3, RunAhead, Bounds DEF Left, Combined, Pos
  <2>9. Held'
    BY <1>1, <2>1, <2>2, <2>3, <2>4, <2>6, <2>7, <2>8, Gives DEF IInv, Exact
  <2> QED
    BY <1>1, <2>4, <2>9 DEF IInv, Exact, Implied
<1>4. CASE ~(begin_max <= end_min)
  <2>1. run_end(it_a) < it_b.pos \/ run_end(it_b) < it_a.pos
    BY <1>1, <1>4, RunAhead, Bounds
  <2>2. CASE run_end(it_a) < it_b.pos
    <3>1. EmitA /\ run_end(it_a) <= it_b.pos
      BY <1>1, <1>4, <2>2, RunAhead DEF Or
    <3> QED
      BY <1>1, <3>1, EmitAKeeps DEF IInv, Exact, Both
  <2>3. CASE ~(run_end(it_a) < it_b.pos)
    <3>1. EmitB /\ run_end(it_b) <= it_a.pos
      BY <1>1, <1>4, <2>1, <2>3, RunAhead DEF Or
    <3> QED
      BY <1>1, <3>1, EmitBKeeps DEF IInv, Exact, Both
  <2> QED
    BY <2>2, <2>3
<1> QED
  BY <1>3, <1>4

-----------------------------------------------------------------------------
\* Overlapping runs, for the exclusive disjunction: what lies before the
\* overlap is in one of them only, the overlap itself in both.
LEMMA XorOverlapKeeps ==
  ASSUME IInv, pc = "loop", operation = "xor", Both, begin_max < end_min, XorOverlap,
         UNCHANGED <<operation, seen>>
  PROVE  IInv'
<1>1. Iterator(it_a) /\ Iterator(it_b) /\ Len \in Nat
  BY RunOpsAssumption DEF IInv, Exact, Types
<1>2. /\ begin_min \in Nat /\ begin_max \in Nat /\ end_min \in Nat /\ end_min <= Len
      /\ end_min >= it_a.pos /\ end_min >= it_b.pos /\ begin_min <= begin_max
  BY <1>1, Bounds, RunAhead
<1>3. it_a' = ForwardTo(it_a, end_min) /\ it_b' = ForwardTo(it_b, end_min)
  BY <1>1, Bounds, RunAhead DEF XorOverlap, next, skip_to
<1>4. /\ pos' = begin_min /\ length' = begin_max - begin_min
      /\ pc' = IF begin_min < begin_max THEN "ready" ELSE "loop"
  BY DEF XorOverlap, Emit
<1>5. pos' \in Nat /\ length' \in Nat /\ pos' + length' = begin_max /\ begin_max <= Len
  BY <1>1, <1>2, <1>4
<1>6. Types' /\ Result' = Result
  BY <1>1, <1>2, <1>3, <1>4, <1>5, MovedTypes DEF IInv, Exact, Types, Moved
<1>7. /\ AheadOf(it_a') = From(AheadOf(it_a), end_min)
      /\ AheadOf(it_b') = From(AheadOf(it_b), end_min)
  BY <1>1, <1>2, <1>3, MovedAhead
<1>8. \A i \in Left : i >= begin_min /\ (i >= begin_max => i >= end_min)
  BY <1>1, RunAhead, Bounds DEF Left, Combined, Pos
<1>9. \A i \in Pos : begin_min <= i /\ i < begin_max => i \in Left
  BY <1>1, RunAhead, Bounds DEF Left, Combined, Pos
<1>10. Left \subseteq Pos
  BY <1>1, RunAhead DEF Left, Combined
<1>11. Left' = From(Left, begin_max)
  <2>1. Left' = From(Left, end_min)
    BY <1>7 DEF Left, Combined, From
  <2>2. \A i \in Left : i >= begin_max <=> i >= end_min
    BY <1>2, <1>8, <1>10 DEF Pos
  <2> QED
    BY <2>1, <2>2 DEF From
<1>12. CASE begin_min < begin_max
  <2>1. length' > 0 /\ pc' = "ready"
    BY <1>2, <1>4, <1>12
  <2>2. Held'
    BY <1>1, <1>4, <1>5, <1>6, <1>8, <1>9, <1>11, <2>1, Gives DEF IInv, Exact
  <2> QED
    BY <1>6, <2>2 DEF IInv, Exact, Implied
<1>13. CASE ~(begin_min < begin_max)
  <2>1. pc' = "loop"
    BY <1>4, <1>13
  <2>2. begin_min = begin_max
    BY <1>2, <1>13
  <2>3. Left' = Left
    BY <1>8, <1>11, <2>2 DEF From
  <2>4. Held'
    BY <1>6, <2>1, <2>3 DEF IInv, Exact, Held
  <2> QED
    BY <1>6, <2>4 DEF IInv, Exact, Implied
<1> QED
  BY <1>12, <1>13

\* The exclusive disjunction: overlap, or one run before the other
LEMMA XorKeeps ==
  ASSUME IInv, pc = "loop", Xor, UNCHANGED <<operation, seen>>
  PROVE  IInv'
<1>1. Iterator(it_a) /\ Iterator(it_b) /\ operation = "xor" /\ Both
  BY DEF IInv, Exact, Types, Xor
<1>2. CASE begin_max < end_min
  BY <1>1, <1>2, XorOverlapKeeps DEF Xor
<1>3. CASE ~(begin_max < end_min)
  <2>1. run_end(it_a) <= it_b.pos \/ run_end(it_b) <= it_a.pos
    BY <1>1, <1>3, RunAhead, Bounds DEF Both
  <2>2. CASE run_end(it_a) <= it_b.pos
    BY <1>1, <1>3, <2>2, EmitAKeeps DEF Xor, Exact, IInv, Both
  <2>3. CASE ~(run_end(it_a) <= it_b.pos)
    BY <1>1, <1>3, <2>1, <2>3, EmitBKeeps DEF Xor, Exact, IInv, Both
  <2> QED
    BY <2>2, <2>3
<1> QED
  BY <1>2, <1>3

-----------------------------------------------------------------------------
\* Range encoding: the first bitmap implies the second, so that a run of the
\* first never begins before the run of the second.
LEMMA XorReKeeps ==
  ASSUME IInv, pc = "loop", XorRe, UNCHANGED <<operation, seen>>
  PROVE  IInv'
<1>1. /\ Iterator(it_a) /\ Iterator(it_b) /\ Len \in Nat /\ operation = "xor_re" /\ Both
      /\ AheadOf(it_a) \subseteq AheadOf(it_b)
  BY RunOpsAssumption DEF IInv, Exact, Types, XorRe, Implied
<1>2. it_a.length > 0 /\ it_b.length > 0 /\ it_a.pos \in Pos
  BY <1>1, RunAhead DEF Both, Pos
<1>3. it_b.pos <= it_a.pos
  <2>1. it_a.pos \in AheadOf(it_b)
    BY <1>1, <1>2, RunAhead
  <2> QED
    BY <1>1, <2>1, RunAhead
<1>4. CASE it_b.pos < it_a.pos
  <2>1. ~(it_a.pos < it_b.pos)
    BY <1>1, <1>3, RunAhead
  <2>2. XorReSecond
    BY <1>1, <1>4, <2>1 DEF XorRe
  <2> DEFINE stop == IF run_end(it_b) < it_a.pos THEN run_end(it_b) ELSE it_a.pos
  <2>3. pos' = it_b.pos /\ length' = stop - it_b.pos /\ pc' = "ready"
    <3>1. Min({run_end(it_b), it_a.pos}) = stop
      BY <1>1, RunAhead, MinMaxOfPair
    <3> QED
      BY <2>2, <3>1 DEF XorReSecond, Emit
  <2>4. /\ pos' \in Nat /\ length' \in Nat /\ length' > 0 /\ pos' + length' = stop
        /\ stop \in Nat /\ stop <= Len
    BY <1>1, <1>2, <1>4, <2>3, RunAhead
  <2>5. \A i \in Left : i >= it_b.pos
    BY <1>1, <1>3, RunAhead DEF Left, Combined, Pos
  <2>6. \A i \in Pos : it_b.pos <= i /\ i < stop => i \in Left
    BY <1>1, RunAhead DEF Left, Combined, Pos
  <2>7. CASE run_end(it_b) < it_a.pos
    <3>1. it_b' = ForwardTo(it_b, run_end(it_b)) /\ it_a' = it_a
      BY <2>2, <2>7 DEF XorReSecond, next
    <3>2. run_end(it_b) \in Nat /\ run_end(it_b) >= it_b.pos
      BY <1>1, RunAhead
    <3>3. Types' /\ Result' = Result
      BY <2>3, <2>4, <3>1, <3>2, MovedTypes DEF IInv, Exact, Types, Moved
    <3>4. AheadOf(it_b') = From(AheadOf(it_b), run_end(it_b))
      BY <1>1, <3>1, <3>2, MovedAhead
    <3>5. AheadOf(it_a) = From(AheadOf(it_a), run_end(it_b))
      BY <1>1, <2>7, RunAhead DEF From, Pos
    <3>6. Implied'
      BY <1>1, <3>1, <3>4, <3>5 DEF Implied, From
    <3>7. Left' = From(Left, stop)
      BY <1>1, <2>7, <3>1, <3>4, <3>5 DEF Left, Combined, From
    <3>8. Held'
      BY <1>1, <2>3, <2>4, <2>5, <2>6, <3>3, <3>7, Gives DEF IInv, Exact
    <3> QED
      BY <3>3, <3>6, <3>8 DEF IInv, Exact
  <2>8. CASE ~(run_end(it_b) < it_a.pos)
    <3>1. it_b' = ForwardTo(it_b, run_end(it_a)) /\ it_a' = ForwardTo(it_a, run_end(it_a))
      BY <2>2, <2>8 DEF XorReSecond, next, skip_to
    <3>2. run_end(it_a) \in Nat /\ run_end(it_a) >= it_a.pos /\ run_end(it_a) >= it_b.pos
      BY <1>1, <1>3, RunAhead
    <3>3. Types' /\ Result' = Result
      BY <2>3, <2>4, <3>1, <3>2, MovedTypes DEF IInv, Exact, Types, Moved
    <3>4. /\ AheadOf(it_a') = From(AheadOf(it_a), run_end(it_a))
          /\ AheadOf(it_b') = From(AheadOf(it_b), run_end(it_a))
      BY <1>1, <3>1, <3>2, MovedAhead
    <3>5. Implied'
      BY <1>1, <3>4 DEF Implied, From
    <3>6. \A i \in Left : i >= it_a.pos <=> i >= run_end(it_a)
      BY <1>1, RunAhead DEF Left, Combined, Pos
    <3>7. Left' = From(Left, stop)
      <4>1. Left' = From(Left, run_end(it_a))
        BY <1>1, <3>4 DEF Left, Combined, From
      <4> QED
        BY <2>8, <3>6, <4>1 DEF From
    <3>8. Held'
      BY <1>1, <2>3, <2>4, <2>5, <2>6, <3>3, <3>7, Gives DEF IInv, Exact
    <3> QED
      BY <3>3, <3>5, <3>8 DEF IInv, Exact
  <2> QED
    BY <2>7, <2>8
<1>5. CASE it_b.pos = it_a.pos
  <2>1. /\ it_a' = ForwardTo(it_a, end_min) /\ it_b' = ForwardTo(it_b, end_min)
        /\ UNCHANGED <<pos, length, pc>>
    BY <1>1, <1>5, RunAhead DEF XorRe, skip_to
  <2>2. end_min \in Nat /\ end_min >= it_a.pos /\ end_min >= it_b.pos
    BY <1>1, <1>5, Bounds, RunAhead
  <2>3. Types' /\ Result' = Result
    BY <2>1, <2>2, MovedTypes DEF IInv, Exact, Types, Moved
  <2>4. /\ AheadOf(it_a') = From(AheadOf(it_a), end_min)
        /\ AheadOf(it_b') = From(AheadOf(it_b), end_min)
    BY <1>1, <2>1, <2>2, MovedAhead
  <2>5. Implied'
    BY <1>1, <2>4 DEF Implied, From
  <2>6. \A i \in Left : i >= end_min
    BY <1>1, <1>5, Bounds, RunAhead DEF Left, Combined, Pos
  <2>7. Left' = Left
    BY <1>1, <2>4, <2>6 DEF Left, Combined, From
  <2>8. Held'
    BY <1>1, <2>1, <2>3, <2>7 DEF IInv, Exact, Held
  <2> QED
    BY <2>3, <2>5, <2>8 DEF IInv, Exact
<1> QED
  BY <1>1, <1>3, <1>4, <1>5, RunAhead

-----------------------------------------------------------------------------
\* One iterator is at its end.
LEMMA RestKeeps ==
  ASSUME IInv, pc = "loop", Rest, UNCHANGED <<operation, seen>>
  PROVE  IInv'
<1>1. Iterator(it_a) /\ Iterator(it_b) /\ (end(it_a) \/ end(it_b)) /\ Len \in Nat
  BY RunOpsAssumption DEF IInv, Exact, Types, Rest, Both
<1>2. CASE operation # "and" /\ ~end(it_a)
  BY <1>1, <1>2, EmitAKeeps DEF Rest, IInv, Exact
<1>3. CASE operation # "and" /\ end(it_a) /\ ~end(it_b)
  BY <1>1, <1>3, EmitBKeeps DEF Rest, IInv, Exact
<1>4. CASE operation = "and" \/ (end(it_a) /\ end(it_b))
  <2>1. /\ pos' = 0 /\ length' = 0 /\ pc' = "ready" /\ it_a' = it_a /\ it_b' = it_b
    BY <1>4 DEF Rest, Emit
  <2>2. Types' /\ Result' = Result
    BY <1>1, <2>1, MovedTypes DEF IInv, Exact, Types, Moved
  <2>3. Left = {}
    BY <1>1, <1>4, RunAhead DEF end, Left, Combined
  <2>4. Held => From(Result, seen)' = {}
    BY <2>2, <2>3 DEF Held, From
  <2>5. Held => Held'
    BY <2>1, <2>4 DEF Held
  <2> QED
    BY <2>1, <2>2, <2>5 DEF IInv, Exact, Implied
<1> QED
  BY <1>2, <1>3, <1>4

\* Whichever operation it is
LEMMA RoundKeeps ==
  ASSUME IInv, Round
  PROVE  IInv'
BY AndKeeps, OrKeeps, XorKeeps, XorReKeeps, RestKeeps DEF Round

-----------------------------------------------------------------------------
\* A call of the client takes the conjunction off the run that ends first; the
\* others have left what they gave already.
LEMMA EnterKeeps ==
  ASSUME NEW a, NEW b, Iterator(a), Iterator(b), Enter(a, b)
  PROVE  /\ Iterator(it_a') /\ Iterator(it_b') /\ it_a'.bits = a.bits /\ it_b'.bits = b.bits
         /\ operation # "and" => it_a' = a /\ it_b' = b
<1>1. run_end(a) \in Nat /\ run_end(b) \in Nat
  BY RunAhead
<1>2. it_a' = a \/ it_a' = ForwardTo(a, run_end(a))
  BY DEF Enter, next
<1>3. it_b' = b \/ it_b' = ForwardTo(b, run_end(b))
  BY DEF Enter, next
<1> QED
  BY <1>1, <1>2, <1>3, MovedAhead DEF Enter

\* next(): what was given is behind the client.
LEMMA AdvanceKeeps ==
  ASSUME IInv, Advance
  PROVE  IInv'
<1>1. /\ Iterator(it_a) /\ Iterator(it_b) /\ Len \in Nat /\ pos \in Nat /\ length \in Nat
      /\ pos + length <= Len
  BY RunOpsAssumption DEF IInv, Types
<1>2. /\ Enter(it_a, it_b) /\ UNCHANGED <<operation, pos, length>> /\ pc' = "loop"
      /\ seen' = pos + length /\ pc = "ready" /\ length > 0
  BY DEF Advance, Enter
<1>3. /\ Iterator(it_a') /\ Iterator(it_b')
      /\ it_a'.bits = it_a.bits /\ it_b'.bits = it_b.bits
      /\ operation # "and" => it_a' = it_a /\ it_b' = it_b
  BY <1>1, <1>2, EnterKeeps
<1>4. Types' /\ Result' = Result /\ Exact' = Exact
  BY <1>1, <1>2, <1>3 DEF IInv, Types, Result, Combined, Exact
<1>5. Implied'
  BY <1>2, <1>3 DEF IInv, Implied
<1>6. CASE operation = "and" /\ Exact
  <2>1. /\ Left = From(Result, pos) /\ pos = begin_max /\ pos + length = end_min
    BY <1>2, <1>6 DEF IInv, Held
  <2>2. run_end(it_a) \in Nat /\ run_end(it_b) \in Nat
    BY <1>1, RunAhead
  <2>3. AheadOf(it_a') = IF run_end(it_a) <= run_end(it_b) THEN From(AheadOf(it_a), end_min)
                         ELSE AheadOf(it_a)
    <3>1. CASE run_end(it_a) <= run_end(it_b)
      <4>1. it_a' = ForwardTo(it_a, run_end(it_a)) /\ end_min = run_end(it_a)
        BY <1>1, <1>2, <1>6, <3>1, <2>2, Bounds DEF Enter, next
      <4>2. run_end(it_a) >= it_a.pos
        BY <1>1, RunAhead
      <4> QED
        BY <1>1, <2>2, <3>1, <4>1, <4>2, MovedAhead
    <3>2. CASE ~(run_end(it_a) <= run_end(it_b))
      BY <1>2, <3>2 DEF Enter
    <3> QED
      BY <3>1, <3>2
  <2>4. AheadOf(it_b') = IF run_end(it_b) <= run_end(it_a) THEN From(AheadOf(it_b), end_min)
                         ELSE AheadOf(it_b)
    <3>1. CASE run_end(it_b) <= run_end(it_a)
      <4>1. it_b' = ForwardTo(it_b, run_end(it_b)) /\ end_min = run_end(it_b)
        BY <1>1, <1>2, <1>6, <3>1, <2>2, Bounds DEF Enter, next
      <4>2. run_end(it_b) >= it_b.pos
        BY <1>1, RunAhead
      <4> QED
        BY <1>1, <2>2, <3>1, <4>1, <4>2, MovedAhead
    <3>2. CASE ~(run_end(it_b) <= run_end(it_a))
      BY <1>2, <3>2 DEF Enter
    <3> QED
      BY <3>1, <3>2
  <2>5. Left' = From(Left, end_min)
    BY <1>2, <1>6, <2>2, <2>3, <2>4 DEF Left, Combined, From
  <2>6. Result \subseteq Pos
    BY <1>1, RunAhead DEF Result, Combined
  <2>7. From(Left, pos + length) = From(Result, pos + length)
    <3>1. \A i \in Result : i >= pos + length => i >= pos
      BY <1>1, <2>6 DEF Pos
    <3> QED
      BY <2>1, <3>1 DEF From
  <2>8. Held'
    BY <1>2, <1>4, <2>1, <2>5, <2>7 DEF Held
  <2> QED
    BY <1>4, <1>5, <2>8 DEF IInv
<1>7. CASE operation # "and"
  <2>1. Left = From(Result, pos + length)
    BY <1>2, <1>7 DEF IInv, Held, Exact
  <2>2. Left' = Left
    BY <1>2, <1>3, <1>7 DEF Left, Combined
  <2>3. Held'
    BY <1>2, <1>4, <2>1, <2>2 DEF Held
  <2> QED
    BY <1>4, <1>5, <2>3 DEF IInv
<1>8. CASE ~Exact
  BY <1>4, <1>5, <1>8 DEF IInv
<1> QED
  BY <1>6, <1>7, <1>8 DEF Exact

\* skip_to(): within the run that was given it is shortened, beyond it the
\* iterators are moved first.
LEMMA SkipToKeeps ==
  ASSUME IInv, NEW to_pos \in Pos, SkipTo(to_pos)
  PROVE  IInv'
<1>1. /\ Iterator(it_a) /\ Iterator(it_b) /\ Len \in Nat /\ pos \in Nat /\ length \in Nat
      /\ pos + length <= Len /\ to_pos \in Nat /\ to_pos < Len /\ to_pos >= pos
  BY RunOpsAssumption DEF IInv, Types, SkipTo, Pos
<1>2. /\ operation \in Skipped /\ pc = "ready" /\ length > 0 /\ seen' = to_pos
      /\ UNCHANGED operation
  BY DEF SkipTo
<1>3. Exact => operation # "and"
  BY <1>2 DEF Exact
<1>4. Exact => /\ \A i \in Pos : pos <= i /\ i < pos + length => i \in Result
               /\ Left = From(Result, pos + length)
  BY <1>2, <1>3 DEF IInv, Held
<1>5. CASE to_pos < pos + length
  <2>1. /\ pos' = to_pos /\ length' = length - (to_pos - pos)
        /\ UNCHANGED <<it_a, it_b, pc>>
    BY <1>5 DEF SkipTo, SkipWithin, Emit
  <2>2. pos' \in Nat /\ length' \in Nat /\ length' > 0 /\ pos' + length' = pos + length
    BY <1>1, <1>5, <2>1
  <2>3. Types'
    BY <1>1, <1>2, <2>1, <2>2 DEF IInv, Types
  <2>4. Implied' /\ Result' = Result /\ Left' = Left /\ Exact' = Exact
    BY <1>2, <2>1 DEF IInv, Implied, Result, Left, Combined, AheadOf, Exact
  <2>5. Exact => Held'
    <3> SUFFICES ASSUME Exact PROVE Held'
      OBVIOUS
    <3>1. \A i \in Pos : pos' <= i /\ i < pos' + length' => i \in Result'
      BY <1>1, <1>4, <2>1, <2>2, <2>4 DEF Pos
    <3>2. Left' = From(Result, pos + length)'
      BY <1>4, <2>2, <2>4 DEF From
    <3> QED
      BY <1>1, <1>2, <1>3, <2>1, <2>2, <3>1, <3>2 DEF Held
  <2> QED
    BY <2>3, <2>4, <2>5 DEF IInv
<1>6. CASE ~(to_pos < pos + length)
  <2> DEFINE a == IF to_pos > it_a.pos THEN skip_to(it_a, to_pos) ELSE it_a
             b == IF to_pos > it_b.pos THEN skip_to(it_b, to_pos) ELSE it_b
  <2>1. Enter(a, b) /\ UNCHANGED <<pos, length>> /\ pc' = "loop"
    BY <1>6 DEF SkipTo, Enter
  <2>2. Iterator(a) /\ a.bits = it_a.bits /\ AheadOf(a) = From(AheadOf(it_a), to_pos)
    <3>1. CASE to_pos > it_a.pos
      BY <1>1, <3>1, MovedAhead, RunAhead DEF skip_to
    <3>2. CASE ~(to_pos > it_a.pos)
      BY <1>1, <3>2, RunAhead DEF From, Pos
    <3> QED
      BY <3>1, <3>2
  <2>3. Iterator(b) /\ b.bits = it_b.bits /\ AheadOf(b) = From(AheadOf(it_b), to_pos)
    <3>1. CASE to_pos > it_b.pos
      BY <1>1, <3>1, MovedAhead, RunAhead DEF skip_to
    <3>2. CASE ~(to_pos > it_b.pos)
      BY <1>1, <3>2, RunAhead DEF From, Pos
    <3> QED
      BY <3>1, <3>2
  <2> HIDE DEF a, b
  <2>4. /\ Iterator(it_a') /\ Iterator(it_b')
        /\ it_a'.bits = it_a.bits /\ it_b'.bits = it_b.bits
        /\ operation # "and" => it_a' = a /\ it_b' = b
    BY <2>1, <2>2, <2>3, EnterKeeps
  <2>5. Types' /\ Result' = Result /\ Exact' = Exact
    BY <1>1, <1>2, <2>1, <2>4 DEF IInv, Types, Result, Combined, Exact
  <2>6. Implied'
    BY <1>2, <2>2, <2>3, <2>4 DEF IInv, Implied, From
  <2>7. Exact => Held'
    <3> SUFFICES ASSUME Exact PROVE Held'
      OBVIOUS
    <3>1. Left' = From(Left, to_pos)
      BY <1>2, <1>3, <2>2, <2>3, <2>4 DEF Left, Combined, From
    <3>2. Result \subseteq Pos
      BY <1>1, RunAhead DEF Result, Combined
    <3>3. From(Left, to_pos) = From(Result, to_pos)
      <4>1. \A i \in Result : i >= to_pos => i >= pos + length
        BY <1>1, <1>6, <3>2 DEF Pos
      <4> QED
        BY <1>4, <4>1 DEF From
    <3> QED
      BY <1>2, <2>1, <2>5, <3>1, <3>3 DEF Held
  <2> QED
    BY <2>5, <2>6, <2>7 DEF IInv
<1> QED
  BY <1>5, <1>6

-----------------------------------------------------------------------------
\* The inductive invariant
LEMMA Invariant == Spec => []IInv
<1>1. IInv /\ [Next]_vars => IInv'
  <2> SUFFICES ASSUME IInv, [Next]_vars PROVE IInv'
    OBVIOUS
  <2>1. CASE UNCHANGED vars
    BY <2>1 DEF vars, IInv, Types, Implied, Exact, Held, Left, Result, Combined, AheadOf, From,
                begin_max, end_min, run_end
  <2> QED
    BY <2>1, RoundKeeps, AdvanceKeeps, SkipToKeeps DEF Next, Ended
<1> QED
  BY <1>1, InitIInv, PTL DEF Spec

\* Type correctness: the iterators and the run that was given stay inside the
\* bitmaps, whatever the client calls.
THEOREM TypeCorrect == Spec => []TypeOK
<1>1. IInv => TypeOK
  <2> SUFFICES ASSUME IInv PROVE TypeOK
    OBVIOUS
  <2>1. ASSUME NEW it \in {it_a, it_b}
        PROVE  /\ it.len = Len /\ it.bits \in SUBSET Pos /\ it.cuts \in CutsOf(it.bits)
               /\ it.pos \in 0 .. Len /\ it.length \in 0 .. Len - it.pos
    <3>1. it \in Iterators(Len) /\ Stands(it) /\ it.cuts \in CutsOf(it.bits)
      BY DEF IInv, Types, Iterator
    <3> QED
      BY <3>1, RunOpsAssumption DEF Iterators, Stands, Pos
  <2> QED
    BY <2>1, RunOpsAssumption DEF IInv, Types, TypeOK
<1> QED
  BY <1>1, Invariant, PTL

\* The operations lose nothing: when a call begins a round, the iterators hold
\* exactly what the client has not seen of the result.
THEOREM HoldsTheRest ==
  ASSUME "and" \notin Skipped
  PROVE  Spec => []NothingLost
<1>1. IInv => NothingLost
  BY DEF IInv, Exact, Held, NothingLost, Left, From
<1> QED
  BY <1>1, Invariant, PTL

\* The operations give the runs of their result, in order and without gaps,
\* and end when no 1-bit of it is left.
THEOREM GivesNextRun ==
  ASSUME "and" \notin Skipped
  PROVE  Spec => []RunIsNext
<1>1. IInv => RunIsNext
  <2> SUFFICES ASSUME IInv, pc = "ready" PROVE RunIsNext
    BY DEF RunIsNext
  <2>1. /\ Result \subseteq Pos /\ Len \in Nat /\ seen \in Nat /\ pos \in Nat /\ length \in Nat
        /\ pos + length <= Len
    BY RunAhead, RunOpsAssumption DEF IInv, Types, Result, Combined
  <2>2. CASE length = 0
    <3>1. \A i \in Result : i < seen
      BY <2>1, <2>2 DEF IInv, Exact, Held, From, Pos
    <3> QED
      BY <2>2, <3>1 DEF RunIsNext
  <2>3. CASE length # 0
    <3>1. /\ pos >= seen /\ From(Result, seen) = From(Result, pos)
          /\ \A i \in Pos : pos <= i /\ i < pos + length => i \in Result
      BY <2>3 DEF IInv, Exact, Held
    <3>2. pos .. pos + length - 1 \subseteq Result
      BY <2>1, <3>1 DEF Pos
    <3>3. \A i \in Result : ~(seen <= i /\ i < pos)
      BY <2>1, <3>1 DEF From, Pos
    <3> QED
      BY <2>3, <3>1, <3>2, <3>3 DEF RunIsNext
  <2> QED
    BY <2>2, <2>3
<1> QED
  BY <1>1, Invariant, PTL
=============================================================================
