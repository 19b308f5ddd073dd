------------------------------ MODULE RunIter ------------------------------
(***************************************************************************)
(* The 1-run iterators of the bitmaps: pos and length of the current run,  *)
(* no length at the end.  A plain bitmap has its maximal runs; in a tree   *)
(* or a partitioned bitmap a run of 1-bits may come in pieces, each        *)
(* beginning at one of the cuts.                                           *)
(***************************************************************************)
EXTENDS Integers, FiniteSets, FiniteSetsExt

end(it)     == it.length = 0
run_end(it) == it.pos + it.length

\* The first run at or after a position, without what lies before it
ForwardTo(it, to_pos) ==
  LET ones  == {i \in it.bits : i >= to_pos}
      first == Min(ones)
      ends  == {i \in first + 1 .. it.len : i \notin it.bits \/ i \in it.cuts}
  IN  IF ones = {} THEN [it EXCEPT !.pos = it.len, !.length = 0]
      ELSE [it EXCEPT !.pos = first, !.length = Min(ends) - first]

run_iter(len, bits, cuts) ==
  ForwardTo([len |-> len, bits |-> bits, cuts |-> cuts, pos |-> 0, length |-> 0], 0)

next(it)            == ForwardTo(it, run_end(it))
skip_to(it, to_pos) == ForwardTo(it, to_pos)

\* The places where a run may be cut
CutsOf(bits) == SUBSET {i \in bits : i - 1 \in bits}
=============================================================================
