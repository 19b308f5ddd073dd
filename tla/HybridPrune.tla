---------------------------- MODULE HybridPrune ----------------------------
(***************************************************************************)
(* The client of HybridTeb that also prunes the tree below the diff, as    *)
(* the hybrid experiments with pruning do between their updates.  Its      *)
(* merges read the TEB with the scan iterator of ScanMerge.                *)
(***************************************************************************)
EXTENDS HybridTeb, TebPrune

CONSTANTS
  Contents,     \* the bitmaps a TEB is built from
  Touched       \* the positions that are written to

\* A value for Contents, of 16 bits.  The TEBs of these have from none to four levels
\* that are not perfect, so that each way to read one is taken.
EachLoop ==
  {[i \in Pos |-> i \in ones] :
     ones \in {{}, 0 .. 15, 0 .. 5, {3, 4}, {0, 5, 10, 15}, {1, 3, 5, 7, 9, 11, 13, 15},
               {1, 4, 7} \cup 8 .. 11, {0, 3, 5} \cup 8 .. 11}
              \cup {{i, j} \cup 8 .. 11 : i \in 0 .. 3, j \in 4 .. 7}}

\* The value of Scanned
ByIterators == INSTANCE ScanMerge WITH BatchSize <- 6, Spare <- 4, Round <- <<3, 2, 1>>
MergedBits(strategy, t, diff) == ByIterators!MergedBits(strategy, t, diff)

\* The client prunes the tree below the diff, full or not.
Prune ==
  /\ teb' = prune(teb)
  /\ content' = IF teb'.faults = {} THEN Decode(teb') ELSE content
  /\ call' = [op |-> "shrink"]
  /\ UNCHANGED <<diff_, has_pending_updates_>>

NextPrune ==
  \/ CallAt(Touched)
  \/ teb.faults = {} /\ Prune

SpecPrune == InitFrom(Contents) /\ [][NextPrune]_vars
=============================================================================
