------------------------------ MODULE Dispatch ------------------------------
(***************************************************************************)
(* dispatch(): the experiments' tasks are run by a few threads that grab   *)
(* them in batches from one atomic counter.  The size of a batch is taken  *)
(* from the counter before the batch is claimed by fetch_add, so it may be *)
(* computed from a value other threads have overtaken.                     *)
(***************************************************************************)
EXTENDS Integers, FiniteSets

CONSTANTS
  task_cnt,
  Threads         \* as many as thread_cnt

ASSUME DispatchAssumption ==
  task_cnt \in Nat /\ IsFiniteSet(Threads) /\ Threads # {}

Tasks      == 0 .. task_cnt - 1
thread_cnt == Cardinality(Threads)

Lesser(a, b)  == IF a < b THEN a ELSE b
Greater(a, b) == IF a < b THEN b ELSE a

\* t > 1 holds in floating point before the cast to an integer.
max_batch_size ==
  IF task_cnt > 10 * thread_cnt THEN Lesser(10, task_cnt \div (10 * thread_cnt)) ELSE 1

VARIABLES
  cntr,           \* the atomic counter
  pc,             \* per thread: "size", "claim", "run" or "done"
  inc,            \* per thread: the size of the batch it is about to claim
  batch,          \* per thread: the tasks it has claimed and not yet run
  runs            \* how often each task was run

vars == <<cntr, pc, inc, batch, runs>>

Init ==
  /\ cntr = 0
  /\ pc = [th \in Threads |-> "size"]
  /\ inc = [th \in Threads |-> 0]
  /\ batch = [th \in Threads |-> {}]
  /\ runs = [task \in Tasks |-> 0]

\* Mutant of Size: the batch is as large as a thread's share of the rest.
SizeUncapped(th) ==
  /\ pc[th] = "size"
  /\ inc' = [inc EXCEPT ![th] = Greater(1, (task_cnt - cntr) \div thread_cnt)]
  /\ pc' = [pc EXCEPT ![th] = "claim"]
  /\ UNCHANGED <<cntr, batch, runs>>

\* The division is that of C++; where it differs from \div the result is
\* below the least batch size, 1, either way.
Size(th) ==
  /\ pc[th] = "size"
  /\ inc' = [inc EXCEPT ![th] =
               Lesser(Greater(1, (task_cnt - cntr) \div thread_cnt), max_batch_size)]
  /\ pc' = [pc EXCEPT ![th] = "claim"]
  /\ UNCHANGED <<cntr, batch, runs>>

\* Mutant of Claim: the counter goes up by one whatever the batch.
ClaimCountsOne(th) ==
  /\ pc[th] = "claim"
  /\ cntr' = cntr + 1
  /\ IF cntr >= task_cnt
       THEN pc' = [pc EXCEPT ![th] = "done"] /\ UNCHANGED batch
       ELSE /\ batch' = [batch EXCEPT ![th] = cntr .. Lesser(cntr + inc[th], task_cnt) - 1]
            /\ pc' = [pc EXCEPT ![th] = "run"]
  /\ UNCHANGED <<inc, runs>>

Claim(th) ==
  /\ pc[th] = "claim"
  /\ cntr' = cntr + inc[th]
  /\ IF cntr >= task_cnt
       THEN pc' = [pc EXCEPT ![th] = "done"] /\ UNCHANGED batch
       ELSE /\ batch' = [batch EXCEPT ![th] = cntr .. Lesser(cntr + inc[th], task_cnt) - 1]
            /\ pc' = [pc EXCEPT ![th] = "run"]
  /\ UNCHANGED <<inc, runs>>

\* Mutant of Run: a thread takes one batch, as if the loop were a branch.
RunOneBatch(th) ==
  /\ pc[th] = "run"
  /\ \E task \in batch[th] :
       /\ \A other \in batch[th] : task <= other
       /\ runs' = [runs EXCEPT ![task] = @ + 1]
       /\ batch' = [batch EXCEPT ![th] = @ \ {task}]
       /\ pc' = [pc EXCEPT ![th] = IF batch[th] = {task} THEN "done" ELSE "run"]
  /\ UNCHANGED <<cntr, inc>>

\* The tasks of a batch, in their order
Run(th) ==
  /\ pc[th] = "run"
  /\ \E task \in batch[th] :
       /\ \A other \in batch[th] : task <= other
       /\ runs' = [runs EXCEPT ![task] = @ + 1]
       /\ batch' = [batch EXCEPT ![th] = @ \ {task}]
       /\ pc' = [pc EXCEPT ![th] = IF batch[th] = {task} THEN "size" ELSE "run"]
  /\ UNCHANGED <<cntr, inc>>

Thread(th) == Size(th) \/ Claim(th) \/ Run(th)

\* run_in_parallel joins the threads.
Joined == (\A th \in Threads : pc[th] = "done") /\ UNCHANGED vars

Next == (\E th \in Threads : Thread(th)) \/ Joined

\* The operating system runs every thread, and every task returns.
Fairness == \A th \in Threads : WF_vars(Thread(th))

Spec == Init /\ [][Next]_vars /\ Fairness

-----------------------------------------------------------------------------
\* The counter overshoots by no more than a batch per thread.
TypeOK ==
  /\ cntr \in 0 .. task_cnt + thread_cnt * max_batch_size
  /\ pc \in [Threads -> {"size", "claim", "run", "done"}]
  /\ inc \in [Threads -> 0 .. max_batch_size]
  /\ batch \in [Threads -> SUBSET Tasks]
  /\ runs \in [Tasks -> 0 .. 1]

Waiting(task)   == \E th \in Threads : /\ task \in batch[th]
                                       /\ \A other \in Threads \ {th} : task \notin batch[other]
Unclaimed(task) == \A th \in Threads : task \notin batch[th]

\* A task below the counter was run once or is in the batch of one thread, and
\* no other task was touched: the threads lose and repeat nothing, whatever
\* became of the counter since they computed the size of their batch.
EachTaskOnce ==
  \A task \in Tasks :
    IF task < cntr
      THEN \/ runs[task] = 1 /\ Unclaimed(task)
           \/ runs[task] = 0 /\ Waiting(task)
      ELSE runs[task] = 0 /\ Unclaimed(task)

\* The threads finish, with every task run.
AllTasksRun ==
  <>(/\ \A th \in Threads : pc[th] = "done"
     /\ \A task \in Tasks : runs[task] = 1)
=============================================================================
