----------------------------- MODULE TreePrune -----------------------------
(***************************************************************************)
(* The client of TreeMerge that also prunes the TEB while it is not opened *)
(* as a tree.                                                              *)
(***************************************************************************)
EXTENDS TreeMerge, TebPrune

Prune ==
  /\ teb' = prune(teb)
  /\ content' = IF teb'.faults = {} THEN Decode(teb') ELSE content
  /\ call' = [op |-> "maintain"]
  /\ UNCHANGED mbt

NextPrune ==
  \/ NextTree
  \/ mbt = NoTree /\ teb.faults = {} /\ Prune

SpecPrune == InitTree /\ [][NextPrune]_varsTree
=============================================================================
