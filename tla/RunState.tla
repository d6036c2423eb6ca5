------------------------------ MODULE RunState ------------------------------
(***************************************************************************)
(* RunState of src/src/task_runner.rs: what the runner holds of the task   *)
(* it last worked on.  A task is its id; none is 0.                        *)
(***************************************************************************)
EXTENDS Naturals

Pending == [st |-> "pending", task |-> 0]
Processing(t) == [st |-> "processing", task |-> t]
Complete(t) == [st |-> "complete", task |-> t]
Failed(t) == [st |-> "error", task |-> t]

StatesOf(tasks) ==
  {Pending} \cup [st : {"processing", "complete", "error"}, task : tasks]
=============================================================================
