------------------------------ MODULE TebLoops ------------------------------
(***************************************************************************)
(* Which loop of teb_scan_iter reads a TEB, and what two of the loops read *)
(* wrong.  TebScan has the loops themselves.                               *)
(***************************************************************************)
EXTENDS TebFlat

Imperfect(t) == h + 1 - t.perfect_level_cnt

\* A length that ends within a node is stepped over.
Overruns(t) == Imperfect(t) \in {1, 2} /\ N % 2 ^ Imperfect(t) # 0

\* An inner node with a pair of 1-bits, which only updates leave behind
HasPair(t) ==
  \E i \in Pos : i % 2 = 0 /\ i + 1 \in Pos /\ test(t, i) /\ test(t, i + 1) /\ Descend(t, i).level = h
CountsTwice(t) == Imperfect(t) = 2 /\ HasPair(t)
=============================================================================
