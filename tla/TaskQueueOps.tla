---------------------------- MODULE TaskQueueOps ----------------------------
(***************************************************************************)
(* The operations of TaskRunner on its queue (src/src/task_runner.rs),     *)
(* as operators on values.  The queue is a sequence of task identifiers:   *)
(* nothing the runner decides about a queued task depends on its name,     *)
(* arguments or secret, so a task is its id.                               *)
(*                                                                         *)
(* VecDeque::retain is written by positions, which is what the proofs      *)
(* reason about; DeletePass and DedupPass walk the queue as the code does, *)
(* and TaskQueueOpsProofs shows that both forms return the same queue.     *)
(***************************************************************************)
EXTENDS Naturals, Sequences, FiniteSets

(* The number of positions of K up to i: i is the Rank(K, i)-th of K.      *)
Rank(K, i) == Cardinality({j \in K : j <= i})

(* What VecDeque::retain leaves of q: its elements at the positions K, in  *)
(* their order.                                                            *)
Retain(q, K) ==
  [k \in 1..Cardinality(K) |-> q[CHOOSE i \in K : Rank(K, i) = k]]

(* The ids that are in the queue.                                          *)
Queued(q) == {q[i] : i \in DOMAIN q}

(* TaskRunner::delete_task: every task with this id leaves the queue.      *)
DeleteTask(q, id) == Retain(q, {i \in DOMAIN q : q[i] # id})

(* TaskRunner::dedup: of the tasks with one id, the first stays.           *)
Dedup(q) ==
  IF q = <<>> THEN q
  ELSE Retain(q, {i \in DOMAIN q : \A j \in 1..(i - 1) : q[j] # q[i]})

(* The walk of delete_task over the queue, element by element.             *)
DeletePass(q, id) ==
  LET left[n \in 0..Len(q)] ==
        IF n = 0 THEN <<>>
        ELSE IF q[n] # id THEN Append(left[n - 1], q[n])
        ELSE left[n - 1]
  IN  left[Len(q)]

(* The walk of dedup: an element is kept if inserting its id into the set  *)
(* uniques was new.                                                        *)
DedupPass(q) ==
  LET step[n \in 0..Len(q)] ==
        IF n = 0 THEN [uniques |-> {}, left |-> <<>>]
        ELSE [uniques |-> step[n - 1].uniques \cup {q[n]},
              left |-> IF q[n] \in step[n - 1].uniques THEN step[n - 1].left
                       ELSE Append(step[n - 1].left, q[n])]
  IN  step[Len(q)].left

(* TaskRunner::can_add_task.  CanAddEqual is a faulty variant,             *)
(* an off-by-one that lets the last id in again.                           *)
CanAddEqual(last, id) == id >= last
CanAddTask(last, id) == id > last

(* TaskRunner::add_task, the queue and last_added_task_id it leaves.       *)
(* AddTaskBlind is a faulty variant that checks and deletes nothing.       *)
AddTaskBlind(q, last, id) == Append(q, id)
AddTask(q, last, id) ==
  IF CanAddTask(last, id) THEN Append(DeleteTask(q, id), id) ELSE q
LastAdded(last, id) == IF CanAddTask(last, id) THEN id ELSE last

(* The ids of the queue rise strictly from front to back.                  *)
Ascending(q) == \A i, j \in DOMAIN q : i < j => q[i] < q[j]
=============================================================================
