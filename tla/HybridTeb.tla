----------------------------- MODULE HybridTeb -----------------------------
(***************************************************************************)
(* diff<teb_wrapper, D>, the bitmap the hybrid experiments run: Diff with  *)
(* the tree-encoded bitmap of TebUpdate below.  Diff leaves open whether   *)
(* the bitmap takes an update; here the shape of the tree and its free     *)
(* bits decide, and the diff keeps what the tree declines.  HybridPrune    *)
(* adds the clients that prune the tree below the diff.                    *)
(*                                                                         *)
(* What merge_naive and merge_naive_iter read of the TEB and of the diff   *)
(* is a parameter, given by the iterators in ScanMerge.                    *)
(***************************************************************************)
EXTENDS TebState, MutableTree, TebLoops

CONSTANTS
  Interfaces,       \* the write functions the client calls, as in Diff
  Strategies,       \* the merge strategies it instantiates, as in Diff
  Scanned(_, _, _)  \* the 1-bits of the bitmap that a strategy makes of a TEB and a diff

ScanStrategies == Strategies \ {"tree"}

\* A merge through the tree leaves a bitmap of the length rounded up.  Here the
\* length stays, so a client that reads the TEB by runs as well has one that is
\* not rounded.
ASSUME HybridAssumption ==
  /\ Strategies \subseteq {"naive", "naive_iter", "tree"}
  /\ "tree" \in Strategies /\ ScanStrategies # {} => N = n

VARIABLES
  diff_,                  \* the bits of *diff_
  has_pending_updates_

vars == <<teb, content, diff_, has_pending_updates_, call>>

EmptyDiff == [i \in Pos |-> FALSE]
Content   == [i \in Pos |-> content[i] # diff_[i]]

\* The bitmap is built anew from plain bits.
Rebuilt(bits) == teb' = Serialize(bits) /\ content' = Decode(teb')

InitFrom(contents) ==
  \E bits \in contents :
    /\ teb = Serialize(bits)
    /\ content = Decode(teb)
    /\ diff_ = EmptyDiff
    /\ has_pending_updates_ = FALSE
    /\ call = [op |-> "none"]

Init == InitFrom([Pos -> BOOLEAN])

Set(i, val) ==
  /\ "set" \in Interfaces
  /\ has_pending_updates_' = TRUE
  /\ diff_' = IF Content[i] # val THEN [diff_ EXCEPT ![i] = (content[i] # val)] ELSE diff_
  /\ call' = [op |-> "set", pos |-> i, val |-> val]
  /\ UNCHANGED <<teb, content>>

\* Mutant of Update: the tree is asked for the value itself, not told that
\* the diff flips it.
UpdateIgnoresDiff(i, val) ==
  /\ "update" \in Interfaces
  /\ \E answer \in {update(teb, i, val, "direct", diff_[i])} :
       /\ teb' = answer.teb
       /\ diff_' = IF answer.res = 2 THEN [diff_ EXCEPT ![i] = ~@] ELSE diff_
       /\ call' = [op |-> "update", pos |-> i, val |-> val, res |-> answer.res]
  /\ content' = Decode(teb')
  /\ UNCHANGED has_pending_updates_

Update(i, val) ==
  /\ "update" \in Interfaces
  /\ \E answer \in {update(teb, i, val, "hybrid", diff_[i])} :
       /\ teb' = answer.teb
       /\ diff_' = IF answer.res = 2 THEN [diff_ EXCEPT ![i] = ~@] ELSE diff_
       /\ call' = [op |-> "update", pos |-> i, val |-> val, res |-> answer.res]
  /\ content' = Decode(teb')
  /\ UNCHANGED has_pending_updates_

\* merge_tree: the bits of the diff are toggled in the tree made from the TEB,
\* in ascending order.  The tree cannot be made from a TEB that is one leaf.
MergedTree == ToggleAll(FromTeb(teb), diff_)

MergeByTree ==
  /\ teb.implicit_inner_node_cnt > 0
  /\ teb' = ToTeb(MergedTree)
  /\ content' = Decode(teb')

\* merge_naive and merge_naive_iter: the TEB is read with its scan iterator, which
\* does not come to the end of every length.
MergeByScan(strategy) ==
  /\ ~Overruns(teb)
  /\ \E ones \in {Scanned(strategy, teb, diff_)} : Rebuilt([i \in Pos |-> i \in ones])

\* merge<M>()
Merge(strategy) ==
  /\ \/ /\ has_pending_updates_
        /\ \/ strategy = "tree" /\ MergeByTree
           \/ strategy # "tree" /\ MergeByScan(strategy)
        /\ diff_' = EmptyDiff
     \/ /\ ~has_pending_updates_
        /\ UNCHANGED <<teb, content, diff_>>
  /\ call' = [op |-> "merge", applied |-> has_pending_updates_]
  /\ UNCHANGED has_pending_updates_

\* A step that leaves faults behind (see TebFlat) is the last step.
CallAt(positions) ==
  /\ teb.faults = {}
  /\ \/ \E i \in positions, val \in BOOLEAN : Set(i, val) \/ Update(i, val)
     \/ \E strategy \in Strategies : Merge(strategy)

Next == CallAt(Pos)

Spec == Init /\ [][Next]_vars

-----------------------------------------------------------------------------
\* A TEB in which no run is counted twice gives a merge the bits that the reader
\* sees, through either way to read it: the runs of the scan iterator, whichever
\* loop makes them, and their exclusive or with those of the diff.
ScanRight ==
  Sound(teb) /\ ~Overruns(teb) /\ ~CountsTwice(teb) =>
    \A strategy \in ScanStrategies : Scanned(strategy, teb, diff_) = {i \in Pos : content[i] # diff_[i]}

\* The tree with its diff behaves as Diff says of any bitmap: the tree takes
\* a change in place only where it then answers with that one bit flipped,
\* whatever the diff holds, however often the tree was rebuilt; and a merge gives
\* the bits that the reader saw.  The exception is a merge that reads a TEB in
\* which runs are counted twice (see TebLoops): it may set bits and lose bits.
Detailed == INSTANCE Diff WITH
  client <- Interfaces, bitmap_ <- content, size <- N,
  Interfaces <- Interfaces, Strategies <- {"naive", "naive_iter", "tree"}

MisreadMerge == CountsTwice(teb) /\ \E strategy \in ScanStrategies : Merge(strategy)

ImplementsDiff == Detailed!Init /\ [][Detailed!Next \/ MisreadMerge]_(Detailed!vars)
=============================================================================
