------------------------------- MODULE TaskRun -------------------------------
(***************************************************************************)
(* TaskRunner::run, run_task and TaskMonitor, call by call: the task's     *)
(* container, the monitor's container, the timer that races the exit, the  *)
(* notifications and the state.  Docker may fail any call, before or after *)
(* its effect where the code can tell the difference later.                *)
(*                                                                         *)
(* The queue is a set: that tasks leave it in the order of their ids is    *)
(* what TaskQueue and Agent are about.                                     *)
(***************************************************************************)
EXTENDS Notifier, RunState

CONSTANT MaxTask    \* tasks 1..MaxTask

ASSUME TaskRunAssumption == MaxTask \in Nat \ {0}

VARIABLES
  pc,               \* where the runner is; the startup's positions are in Process
  rtask,            \* the task of the run, or 0
  failed,           \* internal_error is set by container.wait()
  queue,            \* TaskRunner.queue
  state,            \* TaskRunner.state, written through to the database
  box,              \* the container svt-agent-task
  mon,              \* the container svt-agent-monitor
  timer,            \* monitor_start_timeout
  watching          \* TaskMonitor.container is set

runVars == <<pc, rtask, failed>>
monVars == <<mon, timer, watching>>
taskVars == <<notifyVars, runVars, queue, state, box, monVars>>

Tasks == 1..MaxTask
NoBox == [task |-> 0, st |-> "none"]
Boxes == {NoBox} \cup [task : Tasks, st : {"created", "running", "ok", "failed"}]

(* The current state is a task that waits for the user.                    *)
AwaitsManual == state.st \in {"processing", "error"}

(* The runner's mutex is free; the runner is alive to take it, and looks   *)
(* at the state.                                                           *)
Unlocked == pc \in {"loop", "dead"} /\ note = NoNote
AtLoop == pc = "loop" /\ note = NoNote

-----------------------------------------------------------------------------
(* TaskRunner::run up to the start of the container.                       *)

(* The front of the queue.  IsBack is a faulty variant, for a stack.       *)
IsBack(t) == t \in queue /\ \A other \in queue : t >= other
IsFront(t) == t \in queue /\ \A other \in queue : t <= other

(* The ping succeeds and the queue is not empty.                           *)
Take(t) ==
  /\ AtLoop /\ state = Pending /\ IsFront(t)
  /\ pc' = "delete" /\ rtask' = t /\ failed' = FALSE
  /\ queue' = queue \ {t}
  /\ UNCHANGED <<notifyVars, state, box, monVars>>

(* What delete does to a container: not forced, it leaves one that runs.   *)
AfterDelete == IF box.st = "running" THEN {box} ELSE {box, NoBox}

(* run_task: an old container is deleted, the result ignored.              *)
DeleteOld ==
  /\ pc = "delete"
  /\ box' \in AfterDelete
  /\ pc' = "pull"
  /\ UNCHANGED <<notifyVars, rtask, failed, queue, state, monVars>>

PullImage ==
  /\ pc = "pull"
  /\ pc' = "create"
  /\ UNCHANGED <<notifyVars, rtask, failed, queue, state, box, monVars>>

(* The name must be free.  AdoptBox is a faulty variant that goes on with  *)
(* the container that has the name already.                                *)
AdoptBox == box' = IF box = NoBox THEN [task |-> rtask, st |-> "created"] ELSE box
MakeBox == box = NoBox /\ box' = [task |-> rtask, st |-> "created"]
CreateBox ==
  /\ pc = "create"
  /\ MakeBox
  /\ pc' = "start"
  /\ UNCHANGED <<notifyVars, rtask, failed, queue, state, monVars>>

StartBox ==
  /\ pc = "start"
  /\ box' = [box EXCEPT !.st = "running"]
  /\ pc' = "started"
  /\ Notify("task:start", rtask)
  /\ UNCHANGED <<kept, rtask, failed, queue, state, monVars>>

(* run_task fails; the container may have been created, or started, all    *)
(* the same.                                                               *)
RunTaskFails ==
  /\ pc \in {"pull", "create", "start"}
  /\ box' \in {box} \cup
       (IF pc = "create" /\ box = NoBox THEN {[task |-> rtask, st |-> "created"]}
        ELSE IF pc = "start" THEN {[box EXCEPT !.st = "running"]}
        ELSE {})
  /\ state' = Failed(rtask)
  /\ pc' = "failing"
  /\ Notify("task:error", rtask)
  /\ UNCHANGED <<kept, rtask, failed, queue, monVars>>

(* The start was notified; the state is Processing.                        *)
Mark ==
  /\ pc = "started" /\ NoteReturned
  /\ pc' = "wait" /\ note' = NoNote
  /\ state' = Processing(rtask)
  /\ UNCHANGED <<told, kept, rtask, failed, queue, box, monVars>>

-----------------------------------------------------------------------------
(* select!: the exit of the container, or the monitor after two seconds.   *)

BoxExits(st) ==
  /\ box.st = "running"
  /\ box' = [box EXCEPT !.st = st]
  /\ UNCHANGED <<notifyVars, runVars, queue, state, monVars>>

SeesExit ==
  /\ pc = "wait" /\ box.st \in {"ok", "failed"}
  /\ pc' = "logs"
  /\ state' = IF box.st = "ok" THEN Complete(rtask) ELSE Failed(rtask)
  /\ UNCHANGED <<notifyVars, rtask, failed, queue, box, monVars>>

WaitFails ==
  /\ pc = "wait"
  /\ pc' = "remove" /\ failed' = TRUE
  /\ UNCHANGED <<notifyVars, rtask, queue, state, box, monVars>>

(* What stop does to the monitor: it exits, and docker removes it a little *)
(* later (auto_remove); or stop fails.                                     *)
AfterStop == IF mon = "running" THEN {"exited", "running"} ELSE {mon}

(* The guard of the timer's branch.  FiresAgain is a faulty variant        *)
(* without it: a timer that has fired is ready at every turn.              *)
FiresAgain == TRUE
TimerMayFire == timer = "armed"

(* The timer fires: TaskMonitor::start stops an old monitor.  The future   *)
(* of container.wait() is dropped; the loop makes a new one.               *)
StartMonitor ==
  /\ pc = "wait" /\ TimerMayFire
  /\ pc' = "monCreate" /\ timer' = "fired"
  /\ mon' \in AfterStop
  /\ UNCHANGED <<notifyVars, rtask, failed, queue, state, box, watching>>

CreateMonitor ==
  /\ pc = "monCreate" /\ mon = "none"
  /\ pc' = "monStart" /\ mon' = "created"
  /\ UNCHANGED <<notifyVars, rtask, failed, queue, state, box, timer, watching>>

(* The loop of select! goes on after the monitor.  MonitorEndsWait is a    *)
(* faulty variant that leaves it.                                          *)
MonitorEndsWait == "remove"
AfterMonitor == "wait"

RunMonitor ==
  /\ pc = "monStart"
  /\ pc' = AfterMonitor /\ mon' = "running" /\ watching' = TRUE
  /\ UNCHANGED <<notifyVars, rtask, failed, queue, state, box, timer>>

(* The creation fails, because the name is taken for example; or the start *)
(* does, and docker removes the container if it was asked to start it.     *)
MonitorFails ==
  /\ pc \in {"monCreate", "monStart"}
  /\ pc' = AfterMonitor
  /\ mon' \in IF pc = "monStart" THEN {"created", "none"} ELSE {mon}
  /\ UNCHANGED <<notifyVars, rtask, failed, queue, state, box, timer, watching>>

MonitorRemoved ==
  /\ mon = "exited"
  /\ mon' = "none"
  /\ UNCHANGED <<notifyVars, runVars, queue, state, box, timer, watching>>

-----------------------------------------------------------------------------
(* After the exit.                                                         *)

(* run returns, its tokio task panics, or the process ends: what the run   *)
(* held is gone.                                                           *)
RunEnds ==
  /\ rtask' = 0 /\ failed' = FALSE /\ timer' = "armed" /\ watching' = FALSE
  /\ note' = NoNote /\ told' = <<>> /\ kept' = "untried"

(* The output is read, and the result is notified with it.  An error of    *)
(* the stream is logged, and what came before it is taken for the output.  *)
ReadLogs ==
  /\ pc = "logs"
  /\ pc' = "telling"
  /\ Notify(IF box.st = "ok" THEN "task:finish" ELSE "task:error", rtask)
  /\ UNCHANGED <<kept, rtask, failed, queue, state, box, monVars>>

(* The output, or a chunk of it, is not UTF-8: the tokio task of the       *)
(* runner panics, and its mutex is released.  The process lives on.        *)
LogsPanic ==
  /\ pc = "logs"
  /\ RunEnds
  /\ pc' = "dead"
  /\ UNCHANGED <<queue, state, box, mon>>

ResultTold ==
  /\ pc = "telling" /\ NoteReturned
  /\ pc' = "remove" /\ note' = NoNote
  /\ UNCHANGED <<told, kept, rtask, failed, queue, state, box, monVars>>

(* container.delete(), the result only logged.                             *)
RemoveBox ==
  /\ pc = "remove"
  /\ box' \in AfterDelete
  /\ pc' = "monStop"
  /\ UNCHANGED <<notifyVars, rtask, failed, queue, state, monVars>>

(* The monitor is stopped if it is known to be started.                    *)
StopMonitor ==
  /\ pc = "monStop"
  /\ mon' \in IF watching THEN AfterStop ELSE {mon}
  /\ pc' = "end"
  /\ UNCHANGED <<notifyVars, rtask, failed, queue, state, box, timer, watching>>

(* internal_error becomes the state Error.  AlwaysOk is a faulty variant   *)
(* that forgets it.                                                        *)
AlwaysOk == FALSE
InternalError == failed

EndRun ==
  /\ pc = "end" /\ ~InternalError
  /\ RunEnds
  /\ pc' = "loop"
  /\ UNCHANGED <<queue, state, box, mon>>

FailRun ==
  /\ pc = "end" /\ InternalError
  /\ state' = Failed(rtask)
  /\ pc' = "failing"
  /\ Notify("task:error", rtask)
  /\ UNCHANGED <<kept, rtask, failed, queue, box, monVars>>

FailureTold ==
  /\ pc = "failing" /\ NoteReturned
  /\ RunEnds
  /\ pc' = "loop"
  /\ UNCHANGED <<queue, state, box, mon>>

RunNext ==
  \/ \E t \in Tasks : Take(t)
  \/ DeleteOld \/ PullImage \/ CreateBox \/ StartBox \/ RunTaskFails
  \/ Mark \/ SeesExit \/ WaitFails \/ StartMonitor \/ CreateMonitor
  \/ RunMonitor \/ MonitorFails \/ ReadLogs \/ LogsPanic \/ ResultTold
  \/ RemoveBox \/ StopMonitor \/ EndRun \/ FailRun \/ FailureTold

DockerNext == MonitorRemoved \/ \E st \in {"ok", "failed"} : BoxExits(st)

TaskRunType ==
  /\ NotifierType
  /\ rtask \in Tasks \cup {0} /\ failed \in BOOLEAN
  /\ queue \subseteq Tasks
  /\ state \in StatesOf(Tasks)
  /\ box \in Boxes
  /\ mon \in {"none", "created", "running", "exited"}
  /\ timer \in {"armed", "fired"} /\ watching \in BOOLEAN
=============================================================================
