--------------------------- MODULE DispatchProofs ---------------------------
(***************************************************************************)
(* No task is lost or run twice, and the counter passes the last task by   *)
(* no more than a batch for each thread, for every number of tasks and     *)
(* threads.                                                                *)
(***************************************************************************)
EXTENDS Dispatch, FiniteSetTheorems, TLAPS

\* Batches have a size: the cap is a number and not below zero.
LEMMA BatchSize == max_batch_size \in Nat
<1> DEFINE share == 10 * thread_cnt
<1>1. thread_cnt \in Nat /\ thread_cnt # 0
  BY DispatchAssumption, FS_CardinalityType, FS_EmptySet DEF thread_cnt
<1>2. share \in Nat /\ share > 0
  BY <1>1
<1>3. ASSUME NEW d \in Nat, d > 0 PROVE task_cnt \div d \in Nat
  BY <1>3, DispatchAssumption, Z3
<1>4. task_cnt \div share \in Nat
  BY <1>2, <1>3
<1> QED
  BY <1>4 DEF max_batch_size, Lesser

\* What the steps need of the types, without the bound on the counter.
Types ==
  /\ cntr \in Nat
  /\ inc \in [Threads -> Nat]
  /\ pc \in [Threads -> {"size", "claim", "run", "done"}]
  /\ batch \in [Threads -> SUBSET Tasks]
  /\ runs \in [Tasks -> Nat]
  /\ \A th \in Threads : pc[th] # "run" => batch[th] = {}

\* The types hold in every reachable state.
LEMMA TypesHold == Spec => []Types
<1>1. Init => Types
  BY DEF Init, Types
<1>2. Types /\ [Next]_vars => Types'
  <2> SUFFICES ASSUME Types, [Next]_vars PROVE Types'
    OBVIOUS
  <2> USE DEF Types
  <2>1. ASSUME NEW th \in Threads, Size(th) PROVE Types'
    <3>1. Lesser(Greater(1, (task_cnt - cntr) \div thread_cnt), max_batch_size) \in Nat
      <4>1. thread_cnt \in Nat /\ thread_cnt # 0
        BY DispatchAssumption, FS_CardinalityType, FS_EmptySet DEF thread_cnt
      <4>2. (task_cnt - cntr) \div thread_cnt \in Int
        BY <4>1, DispatchAssumption
      <4> QED
        BY <4>2, BatchSize DEF Lesser, Greater
    <3>2. inc' \in [Threads -> Nat]
      BY <2>1, <3>1 DEF Size
    <3> QED
      BY <2>1, <3>2 DEF Size
  <2>2. ASSUME NEW th \in Threads, Claim(th) PROVE Types'
    <3>1. cntr' \in Nat
      BY <2>2 DEF Claim
    <3>2. cntr .. Lesser(cntr + inc[th], task_cnt) - 1 \subseteq Tasks
      BY DispatchAssumption DEF Lesser, Tasks
    <3>3. batch' \in [Threads -> SUBSET Tasks]
      BY <2>2, <3>2 DEF Claim
    <3> QED
      BY <2>2, <3>1, <3>3 DEF Claim
  <2>3. ASSUME NEW th \in Threads, Run(th) PROVE Types'
    <3>1. PICK task \in batch[th] :
            /\ runs' = [runs EXCEPT ![task] = @ + 1]
            /\ batch' = [batch EXCEPT ![th] = @ \ {task}]
            /\ pc' = [pc EXCEPT ![th] = IF batch[th] = {task} THEN "size" ELSE "run"]
      BY <2>3 DEF Run
    <3>2. task \in Tasks
      BY <3>1
    <3>3. runs' \in [Tasks -> Nat]
      BY <3>1, <3>2
    <3> QED
      BY <2>3, <3>1, <3>3 DEF Run
  <2>4. CASE UNCHANGED vars
    BY <2>4 DEF vars
  <2> QED
    BY <2>1, <2>2, <2>3, <2>4 DEF Next, Thread, Joined
<1> QED
  BY <1>1, <1>2, PTL DEF Spec

-----------------------------------------------------------------------------
\* No task is lost, shared or run twice: a claim takes the tasks from the
\* counter on, which no batch holds, and moves the counter past all of them,
\* even when the batch was sized by an older value of it.
THEOREM TasksOnce == Spec => []EachTaskOnce
<1>1. Init => EachTaskOnce
  BY DEF Init, EachTaskOnce, Unclaimed, Tasks
<1>2. Types /\ EachTaskOnce /\ [Next]_vars => EachTaskOnce'
  <2> SUFFICES ASSUME Types, EachTaskOnce, [Next]_vars, NEW task \in Tasks
               PROVE  (IF task < cntr
                         THEN \/ runs[task] = 1 /\ Unclaimed(task)
                              \/ runs[task] = 0 /\ Waiting(task)
                         ELSE runs[task] = 0 /\ Unclaimed(task))'
    BY DEF EachTaskOnce
  <2> DEFINE Once == IF task < cntr
                       THEN \/ runs[task] = 1 /\ Unclaimed(task)
                            \/ runs[task] = 0 /\ Waiting(task)
                       ELSE runs[task] = 0 /\ Unclaimed(task)
  <2>0. Once
    BY DEF EachTaskOnce
  <2>1. ASSUME NEW th \in Threads, Size(th) PROVE Once'
    BY <2>0, <2>1 DEF Size, Unclaimed, Waiting
  <2>2. ASSUME NEW th \in Threads, Claim(th) PROVE Once'
    <3>1. CASE cntr >= task_cnt
      <4>1. task < cntr /\ task < cntr'
        BY <2>2, <3>1, DispatchAssumption DEF Claim, Types, Tasks
      <4> QED
        BY <2>0, <2>2, <3>1, <4>1 DEF Claim, Unclaimed, Waiting
    <3>2. CASE ~(cntr >= task_cnt)
      <4> DEFINE claimed == cntr .. Lesser(cntr + inc[th], task_cnt) - 1
      <4>1. batch' = [batch EXCEPT ![th] = claimed] /\ batch[th] = {} /\ runs' = runs
        BY <2>2, <3>2 DEF Claim, Types
      <4>2. /\ task \in claimed <=> cntr <= task /\ task < cntr + inc[th]
            /\ cntr' = cntr + inc[th] /\ inc[th] \in Nat
        BY <2>2, DispatchAssumption DEF Claim, Types, Lesser, Tasks
      <4>3. CASE task < cntr
        <5>1. task \notin claimed /\ task < cntr'
          BY <4>2, <4>3 DEF Types, Tasks
        <5>2. \A other \in Threads : task \in batch'[other] <=> task \in batch[other]
          BY <4>1, <5>1 DEF Types
        <5> QED
          BY <2>0, <4>1, <4>3, <5>1, <5>2 DEF Unclaimed, Waiting
      <4>4. CASE task \in claimed
        <5>1. ~(task < cntr) /\ task < cntr'
          BY <4>2, <4>4 DEF Types, Tasks
        <5>2. runs[task] = 0 /\ Unclaimed(task)
          BY <2>0, <5>1
        <5>3. task \in batch'[th] /\ \A other \in Threads \ {th} : task \notin batch'[other]
          BY <4>1, <4>4, <5>2 DEF Unclaimed, Types
        <5> QED
          BY <4>1, <5>1, <5>2, <5>3 DEF Waiting
      <4>5. CASE ~(task < cntr) /\ task \notin claimed
        <5>1. ~(task < cntr')
          BY <4>2, <4>5 DEF Types, Tasks
        <5>2. \A other \in Threads : task \in batch'[other] <=> task \in batch[other]
          BY <4>1, <4>5 DEF Types
        <5> QED
          BY <2>0, <4>1, <4>5, <5>1, <5>2 DEF Unclaimed
      <4> QED
        BY <4>3, <4>4, <4>5
    <3> QED
      BY <3>1, <3>2
  <2>3. ASSUME NEW th \in Threads, Run(th) PROVE Once'
    <3>1. PICK ran \in batch[th] :
            /\ runs' = [runs EXCEPT ![ran] = @ + 1]
            /\ batch' = [batch EXCEPT ![th] = @ \ {ran}]
            /\ cntr' = cntr
      BY <2>3 DEF Run
    <3>2. ran \in Tasks
      BY DEF Types
    <3>3. CASE task = ran
      <4>1. ~Unclaimed(task)
        BY <3>3 DEF Unclaimed
      <4>2. task < cntr /\ runs[task] = 0 /\ Waiting(task)
        BY <2>0, <4>1
      <4>3. \A other \in Threads \ {th} : task \notin batch[other]
        BY <3>3, <4>2 DEF Waiting
      <4>4. Unclaimed(task)'
        BY <3>1, <3>3, <4>3 DEF Unclaimed, Types
      <4>5. runs'[task] = 1
        BY <3>1, <3>3, <4>2 DEF Types
      <4> QED
        BY <3>1, <4>2, <4>4, <4>5
    <3>4. CASE task # ran
      <4>1. runs'[task] = runs[task]
        BY <3>1, <3>2, <3>4 DEF Types
      <4>2. \A other \in Threads : task \in batch'[other] <=> task \in batch[other]
        BY <3>1, <3>4 DEF Types
      <4> QED
        BY <2>0, <3>1, <4>1, <4>2 DEF Unclaimed, Waiting
    <3> QED
      BY <3>3, <3>4
  <2>4. CASE UNCHANGED vars
    BY <2>0, <2>4 DEF vars, Unclaimed, Waiting
  <2> QED
    BY <2>1, <2>2, <2>3, <2>4 DEF Next, Thread, Joined
<1> QED
  BY <1>1, <1>2, TypesHold, PTL DEF Spec

-----------------------------------------------------------------------------
\* The threads that have met the end
Finished == {th \in Threads : pc[th] = "done"}

\* The counter goes past the end with the batch of one thread, last; every
\* other thread then claims once more, with a batch that it may have sized
\* before, and is done.  The last one sizes its batch after, and takes one.
Overshoot ==
  IF cntr < task_cnt THEN Finished = {}
  ELSE \/ cntr <= task_cnt + Cardinality(Finished) * max_batch_size
       \/ \E last \in Threads \ Finished :
            /\ pc[last] = "claim" => inc[last] <= 1
            /\ cntr < task_cnt + (Cardinality(Finished) + 1) * max_batch_size

Batches == \A th \in Threads : inc[th] <= max_batch_size

\* Multiples of the batch size
LEMMA Multiples ==
  ASSUME NEW k \in Nat, NEW m \in Nat
  PROVE  /\ k * max_batch_size \in Nat
         /\ (k + 1) * max_batch_size = k * max_batch_size + max_batch_size
         /\ k <= m => k * max_batch_size <= m * max_batch_size
<1>1. max_batch_size \in Nat
  BY BatchSize
<1>2. \A a, b \in Nat : a * b \in Nat
  OBVIOUS
<1>3. \A a \in Nat : (k + 1) * a = k * a + a
  OBVIOUS
<1>4. ASSUME k <= m PROVE k * max_batch_size <= m * max_batch_size
  <2>1. \A a, b, c \in Nat : (a + b) * c = a * c + b * c
    OBVIOUS
  <2>2. PICK d \in Nat : m = k + d
    <3>1. m - k \in Nat /\ m = k + (m - k)
      BY <1>4
    <3> QED
      BY <3>1
  <2>3. m * max_batch_size = k * max_batch_size + d * max_batch_size
    BY <1>1, <2>1, <2>2
  <2>4. k * max_batch_size \in Nat /\ d * max_batch_size \in Nat
    BY <1>1, <1>2
  <2> QED
    BY <2>3, <2>4
<1> QED
  BY <1>1, <1>2, <1>3, <1>4

\* Every batch is at least one task and at most the cap; behind the end of the
\* tasks it is one.
LEMMA SizedBatch ==
  ASSUME Types
  PROVE  LET size == Lesser(Greater(1, (task_cnt - cntr) \div thread_cnt), max_batch_size)
         IN  size \in Nat /\ size <= max_batch_size /\ (cntr >= task_cnt => size <= 1)
<1>1. thread_cnt \in Nat /\ thread_cnt > 0 /\ task_cnt \in Nat /\ cntr \in Nat
  BY DispatchAssumption, FS_CardinalityType, FS_EmptySet DEF thread_cnt, Types
<1>2. \A a \in Int, b \in Nat : b > 0 /\ a <= 0 => a \div b \in Int /\ a \div b <= 0
  BY Z3
<1>3. (task_cnt - cntr) \div thread_cnt \in Int
  BY <1>1
<1>4. cntr >= task_cnt => (task_cnt - cntr) \div thread_cnt <= 0
  BY <1>1, <1>2
<1> QED
  BY <1>3, <1>4, BatchSize DEF Lesser, Greater

\* The facts about batches hold in every reachable state.
LEMMA BatchesHold == Spec => []Batches
<1>1. Init => Batches
  BY BatchSize DEF Init, Batches
<1>2. Types /\ Batches /\ [Next]_vars => Batches'
  <2> SUFFICES ASSUME Types, Batches, [Next]_vars PROVE Batches'
    OBVIOUS
  <2> USE DEF Batches, Types
  <2>1. ASSUME NEW th \in Threads, Size(th) PROVE Batches'
    BY <2>1, SizedBatch DEF Size
  <2>2. ASSUME NEW th \in Threads, Claim(th) \/ Run(th) PROVE Batches'
    BY <2>2 DEF Claim, Run
  <2>3. CASE UNCHANGED vars
    BY <2>3 DEF vars
  <2> QED
    BY <2>1, <2>2, <2>3 DEF Next, Thread, Joined
<1> QED
  BY <1>1, <1>2, TypesHold, PTL DEF Spec

\* The number of finished threads is a number, and grows by one with each.
LEMMA FinishedCount ==
  ASSUME Types
  PROVE  /\ IsFiniteSet(Finished) /\ Cardinality(Finished) \in Nat
         /\ Cardinality(Finished) <= thread_cnt
         /\ \A th \in Threads \ Finished :
              Cardinality(Finished \cup {th}) = Cardinality(Finished) + 1
         /\ Threads \ Finished # {} => Cardinality(Finished) + 1 <= thread_cnt
<1>1. IsFiniteSet(Threads) /\ thread_cnt \in Nat
  BY DispatchAssumption, FS_CardinalityType DEF thread_cnt
<1>2. Finished \in SUBSET Threads
  BY DEF Finished
<1>3. /\ IsFiniteSet(Finished) /\ Cardinality(Finished) \in Nat
      /\ Cardinality(Finished) <= thread_cnt
  BY <1>1, <1>2, FS_Subset, FS_CardinalityType DEF thread_cnt
<1>4. ASSUME NEW th \in Threads \ Finished
      PROVE  /\ Cardinality(Finished \cup {th}) = Cardinality(Finished) + 1
             /\ Cardinality(Finished) + 1 <= thread_cnt
  <2>1. Cardinality(Finished \cup {th}) = Cardinality(Finished) + 1
    BY <1>3, FS_AddElement
  <2>2. Finished \cup {th} \in SUBSET Threads
    BY <1>2
  <2>3. Cardinality(Finished \cup {th}) <= thread_cnt
    BY <1>1, <2>2, FS_Subset DEF thread_cnt
  <2> QED
    BY <2>1, <2>3
<1> QED
  BY <1>3, <1>4

\* The bound on how far the counter passes the last task holds in every
\* reachable state.
LEMMA OvershootHolds == Spec => []Overshoot
<1>1. Init => Overshoot
  <2> SUFFICES ASSUME Init PROVE Overshoot
    OBVIOUS
  <2>1. Finished = {} /\ cntr = 0
    BY DEF Init, Finished
  <2>2. Cardinality(Finished) = 0 /\ 0 * max_batch_size \in Nat
    BY <2>1, FS_EmptySet, Multiples
  <2> QED
    BY <2>1, <2>2, DispatchAssumption DEF Overshoot
<1>2. Types /\ Batches /\ Overshoot /\ [Next]_vars => Overshoot'
  <2> SUFFICES ASSUME Types, Batches, Overshoot, [Next]_vars PROVE Overshoot'
    OBVIOUS
  <2> DEFINE done_cnt == Cardinality(Finished)
             over == done_cnt * max_batch_size
  <2>0. /\ task_cnt \in Nat /\ cntr \in Nat /\ max_batch_size \in Nat
        /\ done_cnt \in Nat /\ over \in Nat
        /\ (done_cnt + 1) * max_batch_size = over + max_batch_size
    BY DispatchAssumption, BatchSize, FinishedCount, Multiples DEF Types
  <2>1. ASSUME NEW th \in Threads, Size(th) PROVE Overshoot'
    <3>1. /\ Finished' = Finished /\ cntr' = cntr
      BY <2>1 DEF Size, Types, Finished
    <3>2. CASE cntr < task_cnt
      BY <2>0, <3>1, <3>2 DEF Overshoot
    <3>3. CASE ~(cntr < task_cnt)
      <4>1. inc'[th] <= 1 /\ \A other \in Threads \ {th} : pc'[other] = pc[other] /\ inc'[other] = inc[other]
        BY <2>0, <2>1, <3>3, SizedBatch DEF Size, Types
      <4>2. \A last \in Threads : (pc[last] = "claim" => inc[last] <= 1)
                                    => (pc'[last] = "claim" => inc'[last] <= 1)
        BY <4>1
      <4> QED
        BY <2>0, <3>1, <3>3, <4>2 DEF Overshoot
    <3> QED
      BY <3>2, <3>3
  <2>2. ASSUME NEW th \in Threads, Claim(th), cntr >= task_cnt PROVE Overshoot'
    <3>1. /\ Finished' = Finished \cup {th} /\ th \notin Finished
          /\ cntr' = cntr + inc[th] /\ inc' = inc
          /\ inc[th] \in Nat /\ inc[th] <= max_batch_size
          /\ \A other \in Threads \ {th} : pc'[other] = pc[other]
          /\ pc[th] = "claim"
      BY <2>2 DEF Claim, Types, Finished, Batches
    <3>2. Cardinality(Finished') = done_cnt + 1
      BY <3>1, FinishedCount
    <3>3. (done_cnt + 1 + 1) * max_batch_size = over + max_batch_size + max_batch_size
      BY <2>0, Multiples
    <3>4. CASE cntr <= task_cnt + over
      <4>1. cntr' <= task_cnt + (done_cnt + 1) * max_batch_size
        BY <2>0, <3>1, <3>4
      <4>2. ~(cntr' < task_cnt)
        BY <2>0, <2>2, <3>1
      <4> QED
        BY <3>2, <4>1, <4>2 DEF Overshoot
    <3>5. ASSUME NEW last \in Threads \ Finished,
                 pc[last] = "claim" => inc[last] <= 1,
                 cntr < task_cnt + (done_cnt + 1) * max_batch_size
          PROVE  Overshoot'
      <4>1. ~(cntr' < task_cnt)
        BY <2>0, <2>2, <3>1
      <4>2. CASE last = th
        <5>1. cntr' <= task_cnt + (done_cnt + 1) * max_batch_size
          BY <2>0, <3>1, <3>5, <4>2
        <5> QED
          BY <3>2, <4>1, <5>1 DEF Overshoot
      <4>3. CASE last # th
        <5>1. cntr' < task_cnt + (done_cnt + 1 + 1) * max_batch_size
          BY <2>0, <3>1, <3>3, <3>5
        <5>2. last \in Threads \ Finished' /\ (pc'[last] = "claim" => inc'[last] <= 1)
          BY <3>1, <3>5, <4>3
        <5> QED
          BY <3>2, <4>1, <5>1, <5>2 DEF Overshoot
      <4> QED
        BY <4>2, <4>3
    <3> QED
      BY <2>0, <2>2, <3>4, <3>5 DEF Overshoot
  <2>3. ASSUME NEW th \in Threads, Claim(th), ~(cntr >= task_cnt) PROVE Overshoot'
    <3>1. /\ Finished' = Finished /\ cntr' = cntr + inc[th]
          /\ inc[th] \in Nat /\ inc[th] <= max_batch_size /\ pc'[th] = "run"
      BY <2>3 DEF Claim, Types, Finished, Batches
    <3>2. Finished = {}
      BY <2>0, <2>3 DEF Overshoot
    <3>3. cntr' < task_cnt + (done_cnt + 1) * max_batch_size
      BY <2>0, <2>3, <3>1
    <3> QED
      BY <3>1, <3>2, <3>3 DEF Overshoot
  <2>4. ASSUME NEW th \in Threads, Run(th) PROVE Overshoot'
    <3>1. /\ Finished' = Finished /\ cntr' = cntr /\ inc' = inc
          /\ \A last \in Threads : pc'[last] = "claim" => pc[last] = "claim"
      BY <2>4 DEF Run, Types, Finished
    <3> QED
      BY <3>1 DEF Overshoot
  <2>5. CASE UNCHANGED vars
    BY <2>5 DEF vars, Overshoot, Finished
  <2> QED
    BY <2>1, <2>2, <2>3, <2>4, <2>5 DEF Next, Thread, Joined
<1> QED
  BY <1>1, <1>2, TypesHold, BatchesHold, PTL DEF Spec

\* Type correctness, and with it the bound on the counter: however the threads
\* race past the last task, the counter overshoots by a batch per thread at
\* most, and no task is run twice.
THEOREM TypeCorrect == Spec => []TypeOK
<1>1. Types /\ Batches /\ Overshoot /\ EachTaskOnce => TypeOK
  <2> SUFFICES ASSUME Types, Batches, Overshoot, EachTaskOnce PROVE TypeOK
    OBVIOUS
  <2>1. /\ task_cnt \in Nat /\ cntr \in Nat /\ max_batch_size \in Nat
        /\ thread_cnt \in Nat /\ thread_cnt * max_batch_size \in Nat
    BY DispatchAssumption, BatchSize, FS_CardinalityType DEF Types, thread_cnt
  <2>2. cntr <= task_cnt + thread_cnt * max_batch_size
    <3>1. \A k \in Nat : k <= thread_cnt => k * max_batch_size <= thread_cnt * max_batch_size
      BY <2>1, Multiples
    <3>2. Cardinality(Finished) * max_batch_size <= thread_cnt * max_batch_size
      BY <3>1, FinishedCount
    <3>3. ASSUME NEW last \in Threads \ Finished
          PROVE  (Cardinality(Finished) + 1) * max_batch_size <= thread_cnt * max_batch_size
      <4>1. PICK k \in Nat : k = Cardinality(Finished) + 1 /\ k <= thread_cnt
        BY FinishedCount
      <4> QED
        BY <3>1, <4>1
    <3>4. /\ Cardinality(Finished) * max_batch_size \in Nat
          /\ (Cardinality(Finished) + 1) * max_batch_size \in Nat
      BY FinishedCount, Multiples
    <3> QED
      BY <2>1, <3>2, <3>3, <3>4 DEF Overshoot
  <2>3. inc \in [Threads -> 0 .. max_batch_size]
    BY <2>1 DEF Types, Batches
  <2>4. \A task \in Tasks : runs[task] \in 0 .. 1
    BY DEF EachTaskOnce
  <2> QED
    BY <2>1, <2>2, <2>3, <2>4 DEF Types, TypeOK
<1> QED
  BY <1>1, TypesHold, BatchesHold, OvershootHolds, TasksOnce, PTL
=============================================================================
