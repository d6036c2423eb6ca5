----------------------------- MODULE TaskQueue -----------------------------
(***************************************************************************)
(* The queue of the task runner (src/src/task_runner.rs) as a state        *)
(* machine of its own: whoever holds the runner's mutex may call any of    *)
(* its operations, with any id, in any order.                              *)
(*                                                                         *)
(* The module states what the queue promises to the agent, whatever the    *)
(* order of the calls.  Module Agent implements it: its processor and      *)
(* its listener are the callers, and the properties stated here are        *)
(* checked and proved of the agent's queue through that implementation.    *)
(***************************************************************************)
EXTENDS TaskQueueOps

CONSTANT MaxId              \* the largest task id considered, a natural number

VARIABLES
  queue,                    \* TaskRunner.queue, the ids from front to back
  lastAdded,                \* TaskRunner.last_added_task_id
  popped                    \* history: the ids run() took, oldest first

queueVars == <<queue, lastAdded, popped>>

Ids == 1..MaxId

(* TaskRunner::new.                                                        *)
Init == queue = <<>> /\ lastAdded = 0 /\ popped = <<>>

(* TaskRunner::add_task.                                                   *)
Add(id) ==
  /\ queue' = AddTask(queue, lastAdded, id)
  /\ lastAdded' = LastAdded(lastAdded, id)
  /\ UNCHANGED popped

(* TaskRunner::delete_task.                                                *)
Delete(id) ==
  /\ queue' = DeleteTask(queue, id)
  /\ UNCHANGED <<lastAdded, popped>>

(* TaskRunner::dedup.                                                      *)
DedupQueue ==
  /\ queue' = Dedup(queue)
  /\ UNCHANGED <<lastAdded, popped>>

(* TaskRunner::clear.                                                      *)
Clear == queue' = <<>> /\ UNCHANGED <<lastAdded, popped>>

(* TaskRunner::run takes the task at the front.                            *)
Pop ==
  /\ queue # <<>>
  /\ popped' = Append(popped, Head(queue))
  /\ queue' = Tail(queue)
  /\ UNCHANGED lastAdded

(* The agent's process starts again: the queue is not persisted.           *)
Restart == queue' = <<>> /\ lastAdded' = 0 /\ popped' = <<>>

Next ==
  \/ \E id \in Ids : Add(id) \/ Delete(id)
  \/ DedupQueue
  \/ Clear
  \/ Pop
  \/ Restart

Spec == Init /\ [][Next]_queueVars

-----------------------------------------------------------------------------
(* The variables have their types.                                         *)
TypeOK ==
  /\ queue \in Seq(Ids)
  /\ lastAdded \in 0..MaxId
  /\ popped \in Seq(Ids)

(* Between two restarts the runner takes tasks in the order of their ids,  *)
(* each at most once: what it took, followed by what still waits, rises    *)
(* strictly and does not pass last_added_task_id, which is the only thing  *)
(* add_task looks at to prevent a task from being added twice.             *)
TakenInOrder ==
  /\ Ascending(popped)
  /\ Ascending(queue)
  /\ \A x \in Queued(popped), y \in Queued(queue) : x < y
  /\ \A x \in Queued(popped) \cup Queued(queue) : x <= lastAdded

(* The dedup at the end of load_tasks never has a duplicate to remove:     *)
(* add_task has kept them out.                                             *)
DedupRemovesNothing == Dedup(queue) = queue

(* A task that left the queue, whether it ran, was deleted or was cleared, *)
(* does not come back before a restart; nor does one that add_task passed  *)
(* over because a later id was added first.                                *)
NeverReadmitted ==
  [][ \/ lastAdded' = 0 /\ popped' = <<>>
      \/ \A x \in Ids :
           x <= lastAdded /\ x \notin Queued(queue)
             => x <= lastAdded' /\ x \notin Queued(queue') ]_queueVars
=============================================================================
