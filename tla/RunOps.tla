------------------------------- MODULE RunOps -------------------------------
(***************************************************************************)
(* bitwise_iter: the conjunction, disjunction or exclusive disjunction of  *)
(* two bitmaps, computed lazily from their run iterators.  A call of       *)
(* next() or skip_to() runs the loop of the operation until it has a run   *)
(* of the result or one of the iterators ends; each round of the loop is a *)
(* step here.                                                              *)
(***************************************************************************)
EXTENDS RunIter

CONSTANTS
  Len,          \* the length of both bitmaps
  Operations,   \* the operations looked at
  Skipped       \* those whose iterator the client calls skip_to() of

AllOperations == {"and", "or", "xor", "xor_re"}

ASSUME RunOpsAssumption ==
  Len \in Nat \ {0} /\ Operations \subseteq AllOperations /\ Skipped \subseteq Operations

Pos == 0 .. Len - 1

VARIABLES
  operation,
  it_a, it_b,       \* the iterators read
  pos, length,      \* the current run of the result
  pc,               \* "loop" inside a call, "ready" between calls
  seen              \* how far the client has come

vars == <<operation, it_a, it_b, pos, length, pc, seen>>

-----------------------------------------------------------------------------
\* Range encoding, the only use of xor_re: the first bitmap implies the second.
Init ==
  /\ operation \in Operations
  /\ \E a, b \in SUBSET Pos :
       /\ operation = "xor_re" => a \subseteq b
       /\ \E cuts_a \in CutsOf(a), cuts_b \in CutsOf(b) :
            it_a = run_iter(Len, a, cuts_a) /\ it_b = run_iter(Len, b, cuts_b)
  /\ pos = 0 /\ length = 0
  /\ pc = "loop"
  /\ seen = 0

Both      == ~end(it_a) /\ ~end(it_b)
begin_min == Min({it_a.pos, it_b.pos})
begin_max == Max({it_a.pos, it_b.pos})
end_min   == Min({run_end(it_a), run_end(it_b)})
end_max   == Max({run_end(it_a), run_end(it_b)})

Emit(p, l) == pos' = p /\ length' = l

\* A run of one bitmap is the next run of the result.
EmitA ==
  /\ Emit(it_a.pos, it_a.length)
  /\ it_a' = next(it_a) /\ UNCHANGED it_b
  /\ pc' = "ready"

EmitB ==
  /\ Emit(it_b.pos, it_b.length)
  /\ it_b' = next(it_b) /\ UNCHANGED it_a
  /\ pc' = "ready"

\* Mutant of AndSkips: the run that ends last is skipped.
AndSkipsTheLast ==
  IF run_end(it_b) < run_end(it_a)
    THEN it_a' = skip_to(it_a, it_b.pos) /\ UNCHANGED it_b
    ELSE it_b' = skip_to(it_b, it_a.pos) /\ UNCHANGED it_a

AndSkips ==
  IF run_end(it_a) < run_end(it_b)
    THEN it_a' = skip_to(it_a, it_b.pos) /\ UNCHANGED it_b
    ELSE it_b' = skip_to(it_b, it_a.pos) /\ UNCHANGED it_a

\* The conjunction stays on the overlap it returns.
And ==
  /\ operation = "and" /\ Both
  /\ IF begin_max < end_min
       THEN /\ Emit(begin_max, end_min - begin_max)
            /\ pc' = "ready"
            /\ UNCHANGED <<it_a, it_b>>
       ELSE /\ AndSkips
            /\ UNCHANGED <<pos, length, pc>>

Or ==
  /\ operation = "or" /\ Both
  /\ IF begin_max <= end_min
       THEN /\ it_a' = skip_to(it_a, end_max)
            /\ it_b' = skip_to(it_b, end_max)
            /\ Emit(begin_min, end_max - begin_min)
            /\ pc' = "ready"
     ELSE IF run_end(it_a) < it_b.pos THEN EmitA
     ELSE EmitB

\* Mutant of XorOverlap: the longer of the two runs is left, not shortened.
XorOverlapLeavesBoth ==
  /\ it_a' = next(it_a) /\ it_b' = next(it_b)
  /\ Emit(begin_min, begin_max - begin_min)
  /\ pc' = IF begin_min < begin_max THEN "ready" ELSE "loop"

\* Overlapping runs yield what lies before the overlap, which may be nothing.
XorOverlap ==
  /\ it_a' = IF run_end(it_a) <= run_end(it_b) THEN next(it_a)
             ELSE skip_to(it_a, run_end(it_b))
  /\ it_b' = IF run_end(it_b) <= run_end(it_a) THEN next(it_b)
             ELSE skip_to(it_b, run_end(it_a))
  /\ Emit(begin_min, begin_max - begin_min)
  /\ pc' = IF begin_min < begin_max THEN "ready" ELSE "loop"

Xor ==
  /\ operation = "xor" /\ Both
  /\ IF begin_max < end_min THEN XorOverlap
     ELSE IF run_end(it_a) <= it_b.pos THEN EmitA
     ELSE EmitB

XorReFirst ==
  /\ IF run_end(it_a) < it_b.pos
       THEN it_a' = next(it_a) /\ UNCHANGED it_b
       ELSE it_a' = skip_to(it_a, run_end(it_b)) /\ it_b' = next(it_b)
  /\ Emit(it_a.pos, it_b.pos - it_a.pos)
  /\ pc' = "ready"

\* Mutant of XorReSecond: as in XorReFirst, the run reaches up to the other's.
XorReSecondUpToFirst ==
  /\ IF run_end(it_b) < it_a.pos
       THEN it_b' = next(it_b) /\ UNCHANGED it_a
       ELSE it_b' = skip_to(it_b, run_end(it_a)) /\ it_a' = next(it_a)
  /\ Emit(it_b.pos, it_a.pos - it_b.pos)
  /\ pc' = "ready"

XorReSecond ==
  /\ IF run_end(it_b) < it_a.pos
       THEN it_b' = next(it_b) /\ UNCHANGED it_a
       ELSE it_b' = skip_to(it_b, run_end(it_a)) /\ it_a' = next(it_a)
  /\ Emit(it_b.pos, Min({run_end(it_b), it_a.pos}) - it_b.pos)
  /\ pc' = "ready"

XorRe ==
  /\ operation = "xor_re" /\ Both
  /\ IF it_a.pos < it_b.pos THEN XorReFirst
     ELSE IF it_b.pos < it_a.pos THEN XorReSecond
     ELSE /\ it_a' = skip_to(it_a, end_min)
          /\ it_b' = skip_to(it_b, end_min)
          /\ UNCHANGED <<pos, length, pc>>

\* One of the iterators is at its end: the rest of the other is the rest of
\* the result, or there is none.
Rest ==
  /\ ~Both
  /\ IF operation # "and" /\ ~end(it_a) THEN EmitA
     ELSE IF operation # "and" /\ ~end(it_b) THEN EmitB
     ELSE /\ Emit(0, 0)
          /\ pc' = "ready"
          /\ UNCHANGED <<it_a, it_b>>

Round ==
  /\ pc = "loop"
  /\ And \/ Or \/ Xor \/ XorRe \/ Rest
  /\ UNCHANGED <<operation, seen>>

\* What a call does before the loop: the conjunction still stands on the
\* overlap it returned last and leaves the run that ends first.
Enter(a, b) ==
  /\ it_a' = IF operation = "and" /\ run_end(a) <= run_end(b) THEN next(a) ELSE a
  /\ it_b' = IF operation = "and" /\ run_end(b) <= run_end(a) THEN next(b) ELSE b
  /\ pc' = "loop"

\* Calls of the client, as long as there is a run.  It reads forward.
Advance ==
  /\ pc = "ready" /\ length > 0
  /\ Enter(it_a, it_b)
  /\ seen' = pos + length
  /\ UNCHANGED <<operation, pos, length>>

\* Mutant of SkipWithin: the run keeps its length.
SkipWithinKeepsLength(to_pos) == Emit(to_pos, length)

SkipWithin(to_pos) == Emit(to_pos, length - (to_pos - pos))

SkipTo(to_pos) ==
  /\ operation \in Skipped
  /\ pc = "ready" /\ length > 0 /\ to_pos >= pos
  /\ seen' = to_pos
  /\ IF to_pos < pos + length
       THEN /\ SkipWithin(to_pos)
            /\ UNCHANGED <<it_a, it_b, pc>>
       ELSE /\ Enter(IF to_pos > it_a.pos THEN skip_to(it_a, to_pos) ELSE it_a,
                     IF to_pos > it_b.pos THEN skip_to(it_b, to_pos) ELSE it_b)
            /\ UNCHANGED <<pos, length>>
  /\ UNCHANGED operation

Ended == pc = "ready" /\ length = 0 /\ UNCHANGED vars

Next == Round \/ Advance \/ (\E to_pos \in Pos : SkipTo(to_pos)) \/ Ended

Spec == Init /\ [][Next]_vars /\ WF_vars(Round)

-----------------------------------------------------------------------------
\* The iterators stay inside their bitmaps and the current run inside the
\* result's length: no subtraction of positions in next() or skip_to() wraps.
TypeOK ==
  /\ operation \in Operations
  /\ \A it \in {it_a, it_b} :
       /\ it.len = Len /\ it.bits \in SUBSET Pos /\ it.cuts \in CutsOf(it.bits)
       /\ it.pos \in 0 .. Len /\ it.length \in 0 .. Len - it.pos
  /\ pos \in 0 .. Len /\ length \in 0 .. Len - pos
  /\ pc \in {"loop", "ready"}
  /\ seen \in 0 .. Len

-----------------------------------------------------------------------------
\* The operation, bit by bit
Combined(a, b) == CASE operation = "and" -> a \cap b
                    [] operation = "or"  -> a \cup b
                    [] OTHER             -> (a \ b) \cup (b \ a)

Result == Combined(it_a.bits, it_b.bits)

\* What next() and skip_to() leave in pos() and length() is a run of the
\* result, and no 1-bit of the result lies between where the client was and
\* that run; end() is answered only when none is left.
RunIsNext ==
  pc = "ready" =>
    IF length = 0 THEN \A i \in Result : i < seen
    ELSE /\ pos >= seen
         /\ pos .. pos + length - 1 \subseteq Result
         /\ \A i \in Result : ~(seen <= i /\ i < pos)

\* The bits an iterator has still to give
AheadOf(it) == {i \in it.bits : i >= it.pos}
\* Whenever the loop of a call begins a round, the two iterators still hold
\* exactly the part of the result that the client has not seen, although each
\* was moved on its own by the rounds, calls and skips before.
NothingLost ==
  pc = "loop" => Combined(AheadOf(it_a), AheadOf(it_b)) = {i \in Result : i >= seen}

\* Every call returns: no pair of runs leaves both iterators where they are.
CallReturns == pc = "loop" ~> pc = "ready"
=============================================================================
