-------------------------------- MODULE Diff --------------------------------
(***************************************************************************)
(* diff<B,D>: a compressed bitmap B with a differential bitmap D in front  *)
(* of it.  A reader sees the XOR of the two.  set() writes to the diff;    *)
(* update() first asks B to change in place and falls back to the diff;    *)
(* merge<M>() pushes the diff into B with a merge strategy M.              *)
(*                                                                         *)
(* B and D are seen here through their bits only.  Which of two legal      *)
(* results B.update() gives for a bit that must change (1, changed in      *)
(* place, or 2, use the diff) is left open: HybridTeb closes it with the   *)
(* update algorithm of the tree-encoded bitmap.                            *)
(***************************************************************************)
EXTENDS Naturals

CONSTANTS
  N,            \* the length the bitmap is built with
  Interfaces,   \* the write functions a client may call: "set", "update"
  Strategies    \* the merge strategies the client instantiates

AllInterfaces == {"set", "update"}
AllStrategies == {"naive", "naive_iter", "inplace", "tree"}

ASSUME DiffAssumption ==
  /\ N \in Nat \ {0}
  /\ Interfaces \subseteq AllInterfaces
  /\ Strategies \subseteq AllStrategies

Pos == 0 .. N - 1

\* dtl::next_power_of_two: the length a tree-encoded bitmap rounds up to
EncodedLength ==
  CHOOSE p \in {2^k : k \in 0 .. N} : p >= N /\ \A k \in 0 .. N : 2^k >= N => p <= 2^k

VARIABLES
  client,                 \* the write functions this object's client calls
  bitmap_,                \* the bits of *bitmap_
  diff_,                  \* the bits of *diff_
  has_pending_updates_,
  size,                   \* bitmap_->size()
  call                    \* the last call the client made, with its outcome

vars == <<client, bitmap_, diff_, has_pending_updates_, size, call>>

EmptyDiff == [i \in Pos |-> FALSE]

Xor(a, b) == a # b
Test(i)   == Xor(bitmap_[i], diff_[i])
Content   == [i \in Pos |-> Test(i)]

Calls ==
  [op : {"none", "shrink"}]
    \cup [op : {"set"}, pos : Pos, val : BOOLEAN]
    \cup [op : {"update"}, pos : Pos, val : BOOLEAN, res : {0, 1, 2}]
    \cup [op : {"merge"}, applied : BOOLEAN]

\* The two bitmaps have a bit per position, and the length is that of the
\* bitmap the object was built from or that length rounded up.
TypeOK ==
  /\ client \in SUBSET Interfaces
  /\ bitmap_ \in [Pos -> BOOLEAN]
  /\ diff_ \in [Pos -> BOOLEAN]
  /\ has_pending_updates_ \in BOOLEAN
  /\ size \in {N, EncodedLength}
  /\ call \in Calls

-----------------------------------------------------------------------------
Init ==
  /\ client \in SUBSET Interfaces
  /\ bitmap_ \in [Pos -> BOOLEAN]
  /\ diff_ = EmptyDiff
  /\ has_pending_updates_ = FALSE
  /\ size = N
  /\ call = [op |-> "none"]

\* Mutant of Set: the flag is raised only by a write of TRUE.
SetFlagsOnlyTrue(i, val) ==
  /\ "set" \in client
  /\ has_pending_updates_' = (has_pending_updates_ \/ val)
  /\ diff_' = [diff_ EXCEPT ![i] = Xor(bitmap_[i], val)]
  /\ call' = [op |-> "set", pos |-> i, val |-> val]
  /\ UNCHANGED <<client, bitmap_, size>>

\* set(): the flag is raised before it is known whether the bit changes.
Set(i, val) ==
  /\ "set" \in client
  /\ has_pending_updates_' = TRUE
  /\ diff_' = IF Test(i) # val
                THEN [diff_ EXCEPT ![i] = Xor(bitmap_[i], val)]
                ELSE diff_
  /\ call' = [op |-> "set", pos |-> i, val |-> val]
  /\ UNCHANGED <<client, bitmap_, size>>

\* update(), result 0: the reader sees val at i already.
UpdateCancelled(i, val) ==
  /\ Test(i) = val
  /\ call' = [op |-> "update", pos |-> i, val |-> val, res |-> 0]
  /\ UNCHANGED <<client, bitmap_, diff_, has_pending_updates_, size>>

\* update(), result 1: the bitmap takes the change below the diff.
UpdateInPlace(i, val) ==
  /\ Test(i) # val
  /\ bitmap_' = [bitmap_ EXCEPT ![i] = ~@]
  /\ call' = [op |-> "update", pos |-> i, val |-> val, res |-> 1]
  /\ UNCHANGED <<client, diff_, has_pending_updates_, size>>

\* Mutant of UpdateDiff: the diff takes the value instead of being flipped.
UpdateDiffStoresValue(i, val) ==
  /\ Test(i) # val
  /\ diff_' = [diff_ EXCEPT ![i] = val]
  /\ call' = [op |-> "update", pos |-> i, val |-> val, res |-> 2]
  /\ UNCHANGED <<client, bitmap_, has_pending_updates_, size>>

\* update(), result 2: the bitmap declines and the diff bit is flipped.
UpdateDiff(i, val) ==
  /\ Test(i) # val
  /\ diff_' = [diff_ EXCEPT ![i] = ~@]
  /\ call' = [op |-> "update", pos |-> i, val |-> val, res |-> 2]
  /\ UNCHANGED <<client, bitmap_, has_pending_updates_, size>>

Update(i, val) ==
  /\ "update" \in client
  /\ \/ UpdateCancelled(i, val)
     \/ UpdateInPlace(i, val)
     \/ UpdateDiff(i, val)

\* Mutant of ApplyDiff: the length is rounded up past the next power of two.
ApplyDiffRoundsTwice(strategy) ==
  /\ bitmap_' = Content
  /\ size' = IF strategy = "tree" THEN 2 * EncodedLength ELSE size

\* merge_naive, merge_naive_iter and merge_inplace rebuild or XOR the bitmap
\* at its own length; merge_tree rebuilds it from a tree over the rounded
\* length, which becomes the length of the result.
ApplyDiff(strategy) ==
  /\ bitmap_' = Content
  /\ size' = IF strategy = "tree" THEN EncodedLength ELSE size

\* Mutant of Merge: the diff is applied and not cleared.
MergeKeepsDiff(strategy) ==
  /\ \/ /\ has_pending_updates_
        /\ ApplyDiff(strategy)
        /\ UNCHANGED diff_
     \/ /\ ~has_pending_updates_
        /\ UNCHANGED <<bitmap_, diff_, size>>
  /\ call' = [op |-> "merge", applied |-> has_pending_updates_]
  /\ UNCHANGED <<client, has_pending_updates_>>

\* merge<M>(): nothing at all unless an update is pending; the flag stays.
Merge(strategy) ==
  /\ \/ /\ has_pending_updates_
        /\ ApplyDiff(strategy)
        /\ diff_' = EmptyDiff
     \/ /\ ~has_pending_updates_
        /\ UNCHANGED <<bitmap_, diff_, size>>
  /\ call' = [op |-> "merge", applied |-> has_pending_updates_]
  /\ UNCHANGED <<client, has_pending_updates_>>

\* shrink(): the diff is recoded, its bits stay.
Shrink ==
  /\ call' = [op |-> "shrink"]
  /\ UNCHANGED <<client, bitmap_, diff_, has_pending_updates_, size>>

Next ==
  \/ \E i \in Pos, val \in BOOLEAN : Set(i, val) \/ Update(i, val)
  \/ \E strategy \in Strategies : Merge(strategy)
  \/ Shrink

Spec == Init /\ [][Next]_vars

-----------------------------------------------------------------------------
\* For a client that does not call update(), a set diff bit is never out of
\* merge's sight: as long as the diff is not empty the flag that merge() looks
\* at is raised.
PendingCoversDiff == "update" \notin client /\ diff_ # EmptyDiff => has_pending_updates_

\* For a client that does not call update(), merge() leaves an empty diff behind
\* ("Apply the pending updates and clear the diff"), also when it returns early.
\* update() does not raise the flag, and with it merge() may return early with
\* bits left in the diff.
MergeClearsSetDiff ==
  [][call'.op = "merge" /\ "update" \notin client => diff_' = EmptyDiff]_<<diff_, call>>

\* Writes and merges are those of a plain bitmap whose bits are the XOR view:
\* a write changes the bit it names and no other, a merge or shrink changes
\* no bit, whichever of bitmap and diff holds it.
AbstractCall ==
  IF call.op \in {"set", "update"} THEN [op |-> "write", pos |-> call.pos, val |-> call.val]
  ELSE IF call.op \in {"merge", "shrink"} THEN [op |-> "maintain"]
  ELSE [op |-> "none"]

Abstract == INSTANCE Bitmap WITH content <- Content, call <- AbstractCall
ImplementsBitmap == Abstract!Spec
=============================================================================
