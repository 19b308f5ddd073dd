----------------------------- MODULE ScanMerge -----------------------------
(***************************************************************************)
(* The plain bitmap that merge_naive and merge_naive_iter make of a TEB    *)
(* and its diff, read with the scan iterator of the TEB: the first sets    *)
(* the bits of all runs of both and xors them, the second runs the         *)
(* bitwise_iter over both iterators.  The loops of bitwise_xor are those   *)
(* of RunOps; here they meet the runs that teb_scan_iter gives, which may  *)
(* be out of order, or empty before the end.                               *)
(***************************************************************************)
EXTENDS TebScan

\* The iterator of the diff
D == INSTANCE RunIter

scan_end(it) == it.pos = N

\* The two iterators and the current run of the exclusive or
XorStart(t, ones) ==
  [a |-> scan_it(t), b |-> D!run_iter(N, ones, {}), pos |-> 0, length |-> 0]

TakeA(t, x) == [x EXCEPT !.pos = x.a.pos, !.length = x.a.length, !.a = next(t, @)]
TakeB(x)    == [x EXCEPT !.pos = x.b.pos, !.length = x.b.length, !.b = D!next(@)]

Overlapping(a, b) ==
  Greater(a.pos, b.pos) < Lesser(D!run_end(a), D!run_end(b))

\* Mutant of TakeOverlap: the run that ends last is left with the other.
TakeOverlapLeavesBoth(t, x) ==
  [a |-> next(t, x.a), b |-> D!next(x.b),
   pos    |-> Lesser(x.a.pos, x.b.pos),
   length |-> Greater(x.a.pos, x.b.pos) - Lesser(x.a.pos, x.b.pos)]

\* What lies before the overlap is given, the overlap passed in both.
TakeOverlap(t, x) ==
  LET a_end == D!run_end(x.a)
      b_end == D!run_end(x.b)
  IN  [a |-> IF a_end <= b_end THEN next(t, x.a) ELSE skip_to(t, x.a, b_end),
       b |-> IF b_end <= a_end THEN D!next(x.b) ELSE D!skip_to(x.b, a_end),
       pos    |-> Lesser(x.a.pos, x.b.pos),
       length |-> Greater(x.a.pos, x.b.pos) - Lesser(x.a.pos, x.b.pos)]

\* next(): rounds until one gives a run.  A run that is given as it is read is
\* not asked for its length.
RECURSIVE xor_next(_, _)
xor_next(t, x) ==
  LET both == ~scan_end(x.a) /\ ~D!end(x.b)
      over == TakeOverlap(t, x)
  IN  CASE both /\ Overlapping(x.a, x.b) ->
             IF over.length > 0 THEN over ELSE xor_next(t, over)
        [] both /\ ~Overlapping(x.a, x.b) ->
             IF D!run_end(x.a) <= x.b.pos THEN TakeA(t, x) ELSE TakeB(x)
        [] ~both /\ ~scan_end(x.a) -> TakeA(t, x)
        [] ~both /\ scan_end(x.a) /\ ~D!end(x.b) -> TakeB(x)
        [] scan_end(x.a) /\ D!end(x.b) -> [x EXCEPT !.pos = 0, !.length = 0]

\* The first empty run ends the iterator, wherever its two inputs are.
RECURSIVE XorBits(_, _)
XorBits(t, x) ==
  IF x.length = 0 THEN {} ELSE x.pos .. x.pos + x.length - 1 \cup XorBits(t, xor_next(t, x))

merge_naive(t, ones)      == SymDiff(BitsOf(Runs(t)), ones)
merge_naive_iter(t, ones) == XorBits(t, xor_next(t, XorStart(t, ones)))

MergedBits(strategy, t, diff) ==
  LET ones == {i \in Pos : diff[i]} IN
  IF strategy = "naive" THEN merge_naive(t, ones) ELSE merge_naive_iter(t, ones)
=============================================================================
