------------------------------- MODULE Codecs -------------------------------
(***************************************************************************)
(* The run-length codecs, and the tree-encoded bitmap beside them, as      *)
(* their readers use them: a tree is encoded, perhaps updated and pruned,  *)
(* and read with either of its iterators.                                  *)
(***************************************************************************)
EXTENDS WordCodecs

CONSTANT MaxRunsUpdated     \* bound: the number of 1-runs of a tree that is updated

\* A tree has two leaves or more.
ASSUME CodecsAssumption == N > 1 /\ MaxRunsUpdated \in Nat

Teb  == INSTANCE TebIter WITH W <- 4, UpCost <- 0
Scan == INSTANCE TebScan WITH W <- 4, BatchSize <- 6, Spare <- 4, Round <- <<3, 2, 1>>

\* Trees with one bit written in place, pruned or not
Updated(b, i) ==
  LET answer == Teb!update(Teb!Serialize(b), i, ~b[i], "hybrid", FALSE)
  IN  {t \in {answer.teb, Teb!prune(answer.teb)} : answer.res = 1 /\ t.faults = {}}

TreeView(e) == <<[size |-> N, ones |-> {i \in R!Pos : Teb!test(e, i)}]>>

tree_end == it.pos >= N

-----------------------------------------------------------------------------
InitTree ==
  /\ codec \in Trees
  /\ \/ /\ bits \in Bitmaps(MaxRuns)
        /\ encoded = Teb!Serialize(bits)
     \/ \E b \in Bitmaps(MaxRunsUpdated), i \in R!Pos :
          /\ bits = [b EXCEPT ![i] = ~@]
          /\ encoded \in Updated(b, i)
  /\ view = TreeView(encoded)
  /\ it = IF codec = "teb" THEN Teb!it(encoded) ELSE Scan!scan_it(encoded)
  /\ from = 0

AdvanceTree ==
  /\ codec \in Trees /\ ~tree_end
  /\ it' = IF codec = "teb" THEN Teb!next(encoded, it) ELSE Scan!next(encoded, it)
  /\ from' = it.pos + it.length
  /\ UNCHANGED <<codec, bits, encoded, view>>

SkipTree ==
  /\ codec \in Trees /\ ~tree_end
  /\ \E to \in it.pos .. N :
       /\ it' = IF codec = "teb" THEN Teb!skip_to(encoded, it, to) ELSE Scan!skip_to(encoded, it, to)
       /\ from' = to
  /\ UNCHANGED <<codec, bits, encoded, view>>

Init == InitWords \/ InitTree
Next == Advance \/ Skip \/ AdvanceTree \/ SkipTree

Spec == Init /\ [][Next]_vars

-----------------------------------------------------------------------------
\* What the scan iterator reads wrong: a tree with a run that it counts twice,
\* and lengths that its loops step over, at the end of which they go on
ScanLost ==
  codec = "teb_scan" /\ (Scan!CountsTwice(encoded) \/ (it.overrun /\ Scan!Overruns(encoded)))

\* The iterators over a tree, moved up and down it or by batches, give the next
\* run: none is lost or given twice where a node of the tree is left out of the
\* stack, or where a batch ends.
TreeRunIsNext ==
  codec \in Trees =>
    \/ ScanLost
    \/ NextRun(tree_end) /\ (codec = "teb_scan" /\ tree_end => ~it.overrun)
=============================================================================
