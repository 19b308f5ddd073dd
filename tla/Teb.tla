-------------------------------- MODULE Teb --------------------------------
(***************************************************************************)
(* The life of one tree-encoded bitmap: built from a plain bitmap, then    *)
(* updated in place (TebAlone) and, where the client does so, pruned.      *)
(*                                                                         *)
(* A step that leaves faults behind (see TebFlat) is the last one: nothing *)
(* is claimed of what the program does after it.                           *)
(***************************************************************************)
EXTENDS TebAlone, TebPrune, Sequences

CONSTANTS
  Mode,         \* who calls update(): "direct", "hybrid" or "hybrid_plus"
  Contents      \* the bitmaps a TEB is built from

ASSUME ClientAssumption == Mode \in AllModes

\* Values for Contents: every bitmap; those whose TEB has a word of T and a
\* word of L.
AllContents    == [Pos -> BOOLEAN]
StoredContents ==
  {bits \in AllContents : DOMAIN Serialize(bits).T # {} /\ DOMAIN Serialize(bits).L # {}}

Init == InitAlone(Contents)

Prune ==
  /\ teb' = prune(teb)
  /\ content' = IF Sound(teb') THEN Decode(teb') ELSE content
  /\ call' = [op |-> "prune"]

Next ==
  /\ Sound(teb)
  /\ \/ \E i \in Pos, val \in BOOLEAN, diff_val \in BOOLEAN : UpdateAs(Mode, i, val, diff_val)
     \/ Prune

Spec == Init /\ [][Next]_varsAlone

-----------------------------------------------------------------------------
\* Whatever updates and prunes have done to the tree, the scan iterator gives
\* its 1-bits, each once and in order, whichever of its loops is taken and
\* wherever its batches end.  The loop for two imperfect levels does not where
\* an update has left two 1-bits below a node: it counts their run twice.
Scan == INSTANCE TebScan WITH BatchSize <- 6, Spare <- 4, Round <- <<3, 2, 1>>

InOrder(runs) == \A k \in 2 .. Len(runs) : runs[k - 1].pos + runs[k - 1].length <= runs[k].pos

ScanGivesBits ==
  HasOne =>
    LET runs == Scan!Runs(teb)
    IN  (InOrder(runs) /\ Scan!BitsOf(runs) = {i \in Pos : content[i]}) <=> ~Scan!CountsTwice(teb)

\* The TEB is a plain bitmap: an update that answers 1 writes one bit; one
\* that answers 0 or 2, and a prune, change nothing a reader can see.
AbstractCall ==
  IF call.op = "update" /\ call.res = 1 /\ Sound(teb)
    THEN [op |-> "write", pos |-> call.pos, val |-> call.val]
  ELSE IF call.op = "build" THEN [op |-> "none"]
  ELSE [op |-> "maintain"]

Abstract == INSTANCE Bitmap WITH content <- content, call <- AbstractCall
ImplementsBitmap == Abstract!Spec
=============================================================================
