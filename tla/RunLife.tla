------------------------------- MODULE RunLife -------------------------------
(***************************************************************************)
(* What TaskRunner promises of its RunState to whoever looks at it: a task *)
(* is taken, it starts, it ends well or not, and only then is it settled,  *)
(* by its confirmation or by the user.  While a task is worked on, nothing *)
(* but the work itself changes the state; work that is not killed leaves   *)
(* its outcome behind; a kill leaves the state as it was.                  *)
(*                                                                         *)
(* Agent implements this with its three tokio tasks, Process with every    *)
(* call that a run makes.                                                  *)
(***************************************************************************)
EXTENDS RunState

CONSTANT Tasks      \* none of them is 0

VARIABLES
  state,            \* TaskRunner.state
  work,             \* the task that TaskRunner::run works on, or 0
  lives             \* how many times the process was killed

vars == <<state, work, lives>>

Init == state = Pending /\ work = 0 /\ lives = 0

(* run takes the front task from the queue.                                *)
Take ==
  /\ state = Pending /\ work = 0
  /\ work' \in Tasks
  /\ UNCHANGED <<state, lives>>

(* Its container runs.                                                     *)
Start ==
  /\ work # 0 /\ state = Pending
  /\ state' = Processing(work)
  /\ UNCHANGED <<work, lives>>

(* Its container has exited.                                               *)
Exit ==
  /\ work # 0 /\ state = Processing(work)
  /\ state' \in {Complete(work), Failed(work)}
  /\ UNCHANGED <<work, lives>>

(* It could not be started, or docker lost it.                             *)
Fail ==
  /\ work # 0 /\ state \in {Pending, Processing(work)}
  /\ state' = Failed(work)
  /\ work' \in {0, work}
  /\ UNCHANGED lives

(* run returns, with the outcome in the state.                             *)
End ==
  /\ work # 0 /\ state \in {Complete(work), Failed(work)}
  /\ work' = 0
  /\ UNCHANGED <<state, lives>>

(* The task is confirmed, or the user has skipped or deleted it.           *)
Settle ==
  /\ work = 0 /\ state # Pending
  /\ state' = Pending
  /\ UNCHANGED <<work, lives>>

Kill ==
  /\ lives' = lives + 1
  /\ work' = 0
  /\ UNCHANGED state

Next ==
  \/ Take \/ Start \/ Exit \/ Fail \/ End \/ Settle \/ Kill

Spec == Init /\ [][Next]_vars
=============================================================================
