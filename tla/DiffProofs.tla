----------------------------- MODULE DiffProofs -----------------------------
(***************************************************************************)
(* Theorems about Diff, for every length, every set of strategies and      *)
(* every set of write interfaces.                                          *)
(***************************************************************************)
EXTENDS Diff, TLAPS

\* Test returns a Boolean and Content is a bitmap.
LEMMA ContentType ==
  ASSUME TypeOK
  PROVE  /\ Content \in [Pos -> BOOLEAN]
         /\ \A i \in Pos : Test(i) \in BOOLEAN
  BY DEF TypeOK, Content, Test, Xor

-----------------------------------------------------------------------------
\* Type correctness: the two bitmaps keep one bit per position and size()
\* is the original or the rounded length, over set, update, merge and shrink.
THEOREM TypeCorrect == Spec => []TypeOK
<1>1. Init => TypeOK
  <2>1. EmptyDiff \in [Pos -> BOOLEAN]
    BY DEF EmptyDiff
  <2>2. [op |-> "none"] \in Calls
    BY DEF Calls
  <2> QED
    BY <2>1, <2>2 DEF Init, TypeOK
<1>2. TypeOK /\ [Next]_vars => TypeOK'
  <2> SUFFICES ASSUME TypeOK, [Next]_vars PROVE TypeOK'
    OBVIOUS
  <2>1. ASSUME NEW i \in Pos, NEW val \in BOOLEAN, Set(i, val) PROVE TypeOK'
    <3>1. Xor(bitmap_[i], val) \in BOOLEAN
      BY DEF Xor
    <3>2. diff_' \in [Pos -> BOOLEAN]
      BY <2>1, <3>1 DEF Set, TypeOK
    <3>3. call' \in Calls
      BY <2>1 DEF Set, Calls
    <3> QED
      BY <2>1, <3>2, <3>3 DEF Set, TypeOK
  <2>2. ASSUME NEW i \in Pos, NEW val \in BOOLEAN, Update(i, val) PROVE TypeOK'
    <3>1. CASE UpdateCancelled(i, val)
      BY <3>1 DEF UpdateCancelled, TypeOK, Calls
    <3>2. CASE UpdateInPlace(i, val)
      <4>1. bitmap_' \in [Pos -> BOOLEAN]
        BY <3>2 DEF UpdateInPlace, TypeOK
      <4> QED
        BY <3>2, <4>1 DEF UpdateInPlace, TypeOK, Calls
    <3>3. CASE UpdateDiff(i, val)
      <4>1. diff_' \in [Pos -> BOOLEAN]
        BY <3>3 DEF UpdateDiff, TypeOK
      <4> QED
        BY <3>3, <4>1 DEF UpdateDiff, TypeOK, Calls
    <3> QED
      BY <2>2, <3>1, <3>2, <3>3 DEF Update
  <2>3. ASSUME NEW strategy \in Strategies, Merge(strategy) PROVE TypeOK'
    <3>1. call' \in Calls
      BY <2>3 DEF Merge, Calls, TypeOK
    <3>2. bitmap_' \in [Pos -> BOOLEAN] /\ diff_' \in [Pos -> BOOLEAN]
      BY <2>3, ContentType DEF Merge, ApplyDiff, TypeOK, EmptyDiff
    <3>3. size' \in {N, EncodedLength}
      BY <2>3 DEF Merge, ApplyDiff, TypeOK
    <3> QED
      BY <2>3, <3>1, <3>2, <3>3 DEF Merge, TypeOK
  <2>4. CASE Shrink
    BY <2>4 DEF Shrink, TypeOK, Calls
  <2>5. CASE UNCHANGED vars
    BY <2>5 DEF vars, TypeOK
  <2> QED
    BY <2>1, <2>2, <2>3, <2>4, <2>5 DEF Next
<1> QED
  BY <1>1, <1>2, PTL DEF Spec

-----------------------------------------------------------------------------
\* A client that only calls set() never has a set diff bit that merge() would
\* skip.  The flag is raised before any diff bit is, and never lowered.
THEOREM PendingCovers == Spec => []PendingCoversDiff
<1>1. Init => PendingCoversDiff
  BY DEF Init, PendingCoversDiff
<1>2. PendingCoversDiff /\ [Next]_vars => PendingCoversDiff'
  <2> SUFFICES ASSUME PendingCoversDiff, [Next]_vars PROVE PendingCoversDiff'
    OBVIOUS
  <2> USE DEF PendingCoversDiff
  <2>1. ASSUME NEW i \in Pos, NEW val \in BOOLEAN, Set(i, val)
        PROVE PendingCoversDiff'
    BY <2>1 DEF Set
  <2>2. ASSUME NEW i \in Pos, NEW val \in BOOLEAN, Update(i, val)
        PROVE PendingCoversDiff'
    BY <2>2 DEF Update, UpdateCancelled, UpdateInPlace, UpdateDiff
  <2>3. ASSUME NEW strategy \in Strategies, Merge(strategy)
        PROVE PendingCoversDiff'
    BY <2>3 DEF Merge, EmptyDiff
  <2>4. CASE Shrink
    BY <2>4 DEF Shrink, EmptyDiff
  <2>5. CASE UNCHANGED vars
    BY <2>5 DEF vars, EmptyDiff
  <2> QED
    BY <2>1, <2>2, <2>3, <2>4, <2>5 DEF Next
<1> QED
  BY <1>1, <1>2, PTL DEF Spec

\* For such a client merge() does clear the diff, whether or not it finds an
\* update pending: the invariant says there is nothing to clear when it skips.
THEOREM MergeClears == Spec => MergeClearsSetDiff
<1>1. TypeOK /\ PendingCoversDiff /\ [Next]_vars
        => [call'.op = "merge" /\ "update" \notin client => diff_' = EmptyDiff]_<<diff_, call>>
  <2> SUFFICES ASSUME TypeOK, PendingCoversDiff, [Next]_vars,
                      call'.op = "merge", "update" \notin client, <<diff_, call>>' # <<diff_, call>>
               PROVE  diff_' = EmptyDiff
    OBVIOUS
  <2>1. ASSUME NEW i \in Pos, NEW val \in BOOLEAN, Set(i, val) PROVE FALSE
    BY <2>1 DEF Set
  <2>2. ASSUME NEW i \in Pos, NEW val \in BOOLEAN, Update(i, val) PROVE FALSE
    BY <2>2 DEF Update
  <2>3. ASSUME NEW strategy \in Strategies, Merge(strategy)
        PROVE diff_' = EmptyDiff
    BY <2>3 DEF Merge, PendingCoversDiff
  <2>4. CASE Shrink
    BY <2>4 DEF Shrink
  <2>5. CASE UNCHANGED vars
    BY <2>5 DEF vars
  <2> QED
    BY <2>1, <2>2, <2>3, <2>4, <2>5 DEF Next
<1> QED
  BY <1>1, TypeCorrect, PendingCovers, PTL DEF MergeClearsSetDiff, Spec

-----------------------------------------------------------------------------
\* The diff in front of a bitmap is a plain bitmap to its client, whichever
\* of set() and update() it calls, in whatever order, around any merges.
THEOREM Refinement == Spec => ImplementsBitmap
<1>1. Init => Abstract!Init
  <2> SUFFICES ASSUME Init PROVE Abstract!Init
    OBVIOUS
  <2>1. TypeOK
    BY DEF Init, TypeOK, EmptyDiff, Calls
  <2>2. AbstractCall = [op |-> "none"]
    BY DEF Init, AbstractCall
  <2> QED
    BY <2>1, <2>2, ContentType
    DEF Abstract!Init, Abstract!NoCall, Abstract!Pos, Pos
<1>2. TypeOK /\ TypeOK' /\ [Next]_vars => [Abstract!Next]_Abstract!vars
  <2> SUFFICES ASSUME TypeOK, TypeOK', [Next]_vars
               PROVE  [Abstract!Next]_Abstract!vars
    OBVIOUS
  <2>1. ASSUME NEW i \in Pos, NEW val \in BOOLEAN,
               Content' = [Content EXCEPT ![i] = val],
               call'.op \in {"set", "update"}, call'.pos = i, call'.val = val
        PROVE  Abstract!Next
    <3>1. AbstractCall' = [op |-> "write", pos |-> i, val |-> val]
      BY <2>1 DEF AbstractCall
    <3>2. Abstract!Put(i, val)
      BY <2>1, <3>1 DEF Abstract!Put, Abstract!Write
    <3> QED
      BY <3>2 DEF Abstract!Next, Abstract!Pos, Pos
  <2>2. ASSUME Content' = Content, call'.op \in {"merge", "shrink"}
        PROVE  Abstract!Next
    <3>1. AbstractCall' = [op |-> "maintain"]
      BY <2>2 DEF AbstractCall
    <3> QED
      BY <2>2, <3>1 DEF Abstract!Maintain, Abstract!Maintenance, Abstract!Next
  <2>3. ASSUME NEW i \in Pos, NEW val \in BOOLEAN, Set(i, val)
        PROVE  Abstract!Next
    <3>1. \A j \in Pos : Test(j)' = IF j = i THEN val ELSE Test(j)
      BY <2>3 DEF Set, Test, Xor, TypeOK
    <3>2. Content' = [Content EXCEPT ![i] = val]
      BY <3>1 DEF Content
    <3> QED
      BY <2>1, <2>3, <3>2 DEF Set
  <2>4. ASSUME NEW i \in Pos, NEW val \in BOOLEAN, Update(i, val)
        PROVE  Abstract!Next
    <3>1. \A j \in Pos : Test(j)' = IF j = i THEN val ELSE Test(j)
      BY <2>4 DEF Update, UpdateCancelled, UpdateInPlace, UpdateDiff,
                  Test, Xor, TypeOK
    <3>2. Content' = [Content EXCEPT ![i] = val]
      BY <3>1 DEF Content
    <3>3. call'.op = "update" /\ call'.pos = i /\ call'.val = val
      BY <2>4 DEF Update, UpdateCancelled, UpdateInPlace, UpdateDiff
    <3> QED
      BY <2>1, <3>2, <3>3
  <2>5. ASSUME NEW strategy \in Strategies, Merge(strategy)
        PROVE  Abstract!Next
    <3>1. CASE has_pending_updates_
      <4>1. \A j \in Pos : Test(j)' = Test(j)
        BY <2>5, <3>1, ContentType
        DEF Merge, ApplyDiff, Test, Xor, EmptyDiff, Content, TypeOK
      <4> QED
        BY <2>2, <2>5, <4>1 DEF Merge, Content
    <3>2. CASE ~has_pending_updates_
      <4>1. Content' = Content
        BY <2>5, <3>2 DEF Merge, Content, Test, Xor
      <4> QED
        BY <2>2, <2>5, <4>1 DEF Merge
    <3> QED
      BY <3>1, <3>2
  <2>6. CASE Shrink
    <3>1. Content' = Content
      BY <2>6 DEF Shrink, Content, Test, Xor
    <3> QED
      BY <2>2, <2>6, <3>1 DEF Shrink
  <2>7. CASE UNCHANGED vars
    <3>1. UNCHANGED Content
      BY <2>7 DEF vars, Content, Test, Xor
    <3>2. UNCHANGED AbstractCall
      BY <2>7 DEF vars, AbstractCall
    <3> QED
      BY <3>1, <3>2 DEF Abstract!vars
  <2> QED
    BY <2>3, <2>4, <2>5, <2>6, <2>7 DEF Next
<1> QED
  BY <1>1, <1>2, TypeCorrect, PTL DEF Spec, Abstract!Spec, ImplementsBitmap
=============================================================================
