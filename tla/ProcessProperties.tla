------------------------- MODULE ProcessProperties -------------------------
(***************************************************************************)
(* What the process must do and may never do, whatever docker, influx, the *)
(* cluster, the user and kills do meanwhile.                               *)
(***************************************************************************)
EXTENDS Process

(* The variables have their types.                                         *)
TypeOK ==
  /\ TaskRunType
  /\ pc \in Startup \cup
       {"loop", "dead", "delete", "pull", "create", "start", "started", "wait",
        "logs", "telling", "remove", "monCreate", "monStart", "monStop", "end",
        "failing"}
  /\ membership \in {"absent", "pending", "authorized"} /\ device \in Devices
  /\ {posted, lastRead, lastTask, lastAdded, seen} \subseteq Tasks \cup {0}
  /\ {cleared, settled, mail, missed} \subseteq SUBSET Tasks
  /\ cek \in {0, 31, 32} /\ link \in {"down", "loaded", "up", "dead"}
  /\ crashes \in 0..MaxCrashes

(* Whatever the device, and however often authorize fails half-way, no     *)
(* task is taken or looked at before the agent has the key that the user   *)
(* gave it.                                                                *)
KeyBeforeTasks ==
  pc \notin Startup => membership = "authorized" /\ cek = device.key

(* What was done with when the process started is not run again, neither a *)
(* confirmed task nor a skipped one, as long as no message was missed: a   *)
(* missed one that a restart brings back is confirmed after later ones,    *)
(* and takes last_task_id back below them.                                 *)
SettledOut == rtask \notin settled /\ queue \cap settled = {}
SettledStaysSettled == missed = {} => SettledOut

(* A confirmation passes over a task, which the cluster then takes for     *)
(* read, only if the task is complete or skipped, or if its message was    *)
(* missed between a load and a subscription.                               *)
NothingPassedOver ==
  [][ \A u \in Tasks : u > lastRead /\ u <= lastRead'
        => u \in cleared \/ state = Complete(u) \/ u \in missed ]_vars

(* A run that is not killed ends in one of two ways.  It reports its       *)
(* outcome, once, as its last event, and leaves it in the state, whatever  *)
(* of docker's and influx's answers failed on the way.  Or the runner      *)
(* panics on the output: then the outcome is in the state, but was told to *)
(* nobody.                                                                 *)
ToldOutcome ==
  [][ rtask # 0 /\ rtask' = 0 /\ crashes' = crashes =>
        \/ told = <<"task:start", "task:finish">> /\ state' = Complete(rtask)
        \/ told \in {<<"task:error">>, <<"task:start", "task:error">>}
             /\ state' = Failed(rtask)
        \/ /\ pc' = "dead" /\ told = <<"task:start">>
           /\ state' \in {Complete(rtask), Failed(rtask)} ]_vars

(* The container of a run that saw it exit is deleted only after the       *)
(* attempt to save its output has ended, for good or bad: if that failed,  *)
(* the output is lost.                                                     *)
SaveComesFirst ==
  [][ pc = "remove" /\ ~failed /\ box' # box => kept # "untried" ]_vars

(* A task becomes complete by the exit of its own container with status 0, *)
(* and not by that of a container which an earlier run, or an earlier      *)
(* process, has left under the same name.                                  *)
OutcomeIsOwn ==
  [][ state' # state /\ state'.st = "complete"
        => box = [task |-> state'.task, st |-> "ok"] ]_vars

(* How far a run is from its end: the calls of TaskRunner::run that are    *)
(* ahead, with the monitor's start, which interrupts the wait once, and    *)
(* the writes and attempts that are left of the notification under way.    *)
CallsAhead ==
  CASE pc = "delete" -> 14
    [] pc = "pull" -> 13
    [] pc = "create" -> 12
    [] pc = "start" -> 11
    [] pc = "started" -> 10
    [] pc = "wait" -> IF timer = "armed" THEN 9 ELSE 6
    [] pc = "monCreate" -> 8
    [] pc = "monStart" -> 7
    [] pc = "logs" -> 5
    [] pc = "telling" -> 4
    [] pc = "remove" -> 3
    [] pc = "monStop" -> 2
    [] pc = "end" -> 1
    [] OTHER -> 0
NoteAhead == (IF note.file = "todo" THEN 1 ELSE 0) + MaxAttempts - note.attempts
Ahead == CallsAhead * (MaxAttempts + 2) + NoteAhead
RunLength == 14 * (MaxAttempts + 2)

(* Whatever docker, the monitor and influx answer, or if they never do     *)
(* anything but fail, each step of a run brings its end nearer: nothing in *)
(* it is tried without limit, and at most RunLength steps of the runner    *)
(* and the notifier lead from its first step to its last.                  *)
RunNearsEnd ==
  [][ /\ rtask # 0 /\ rtask' = rtask
      /\ <<runVars, notifyVars, state, timer, watching>>'
           # <<runVars, notifyVars, state, timer, watching>>
      => Ahead <= RunLength /\ Ahead' < Ahead /\ Ahead' >= 0 ]_vars

(* The state is what TaskRunner promises to its readers, whatever docker,  *)
(* the monitor and the notifier do meanwhile.                              *)
Life == INSTANCE RunLife WITH work <- rtask, lives <- crashes
RunLifeImplemented == Life!Spec

-----------------------------------------------------------------------------
(* The inductive invariant of the proofs, part by part.                    *)

(* A run has a task, and what it has seen is in the state.                 *)
Before == {"delete", "pull", "create", "start", "started"}
Waiting == {"wait", "monCreate", "monStart"}
After == {"remove", "monStop", "end"}
InRun == Before \cup Waiting \cup After \cup {"logs", "telling", "failing"}

StateFollows ==
  /\ rtask # 0 <=> pc \in InRun
  /\ pc \in Before => state = Pending
  /\ pc \in Waiting => state = Processing(rtask)
  /\ pc \in {"logs", "telling"} =>
       IF box.st = "ok" THEN state = Complete(rtask)
       ELSE box.st = "failed" /\ state = Failed(rtask)
  /\ pc \in After =>
       IF failed THEN state = Processing(rtask)
                 ELSE state \in {Complete(rtask), Failed(rtask)}
  /\ pc = "failing" => state = Failed(rtask)
  /\ failed => pc \in After \cup {"failing"}

(* What has been told is where the run is.                                 *)
Outcome == IF state.st = "complete" THEN "task:finish" ELSE "task:error"
ToldFollows ==
  /\ pc \in Startup \cup {"loop", "dead"} \cup (Before \ {"started"}) =>
       told = <<>>
  /\ pc \in Waiting \cup {"started", "logs"} => told = <<"task:start">>
  /\ pc \in After \cup {"telling"} =>
       told = IF failed THEN <<"task:start">> ELSE <<"task:start", Outcome>>
  /\ pc = "failing" => told \in {<<"task:error">>, <<"task:start", "task:error">>}

(* From its creation to its deletion the container is the run's own.       *)
BoxFollows ==
  /\ pc = "start" => box = [task |-> rtask, st |-> "created"]
  /\ pc \in Waiting \cup {"started", "logs", "telling"} =>
       box.task = rtask /\ box.st \in {"running", "ok", "failed"}

(* The monitor is started when the timer has fired.                        *)
TimerFollows == pc \in {"monCreate", "monStart"} => timer = "fired"

(* A run has a notification under way only where it waits for its end.     *)
NoteFollows == pc \in InRun \ {"started", "telling", "failing"} => note = NoNote

(* Saving was tried when the notification of the outcome returns.          *)
SaveFollows ==
  /\ pc = "telling" => (note.file = "done" => kept # "untried")
  /\ pc = "remove" /\ ~failed => kept # "untried"

(* The key was loaded when the membership was authorized, and neither      *)
(* changes after that.                                                     *)
KeyFollows ==
  /\ pc = "cek" => membership = "authorized"
  /\ pc = "welcome" => membership = "authorized" /\ cek = device.key
  /\ KeyBeforeTasks

(* Nothing is ahead of the channel, and what waits in the mail is ahead of *)
(* everything that is worked on or done with, unless a load has added it.  *)
PostedFollows ==
  /\ lastAdded <= seen /\ seen <= posted /\ lastRead <= posted
  /\ rtask <= posted /\ state.task <= posted
  /\ \A t \in cleared \cup settled : t <= posted
  /\ \A q \in queue : q <= lastAdded
  /\ \A t \in mail : t <= seen /\ t \notin settled
  /\ \A t \in mail : t > lastAdded => t > lastRead /\ t > rtask /\ t > state.task

(* What was seen is in the mail, in the queue, or worked on, or it needs   *)
(* no run.                                                                 *)
NeedsNoRun(t) == t <= lastRead \/ t \in cleared \/ t \in missed
ListenFollows ==
  /\ pc \in Startup => link = "down"
  /\ link = "up" => seen = posted
  /\ \A u \in Tasks : u <= lastAdded =>
       u \in queue \cup {rtask, state.task} \/ NeedsNoRun(u)
  /\ \A u \in Tasks : lastAdded < u /\ u <= seen => u \in mail \/ NeedsNoRun(u)

(* Tasks are done with in the order of their ids: all below the one that   *)
(* is worked on, or was last, are confirmed, skipped or missed.            *)
DoneBelow(t) == \A u \in Tasks : u < t => NeedsNoRun(u)
OrderFollows ==
  /\ DoneBelow(rtask) /\ DoneBelow(state.task)
  /\ missed = {} =>
       /\ rtask # 0 => rtask >= lastRead
       /\ state.st = "complete" => state.task >= lastRead
       /\ \A q \in queue : /\ q >= lastRead /\ q >= rtask
                           /\ state.st = "complete" => q >= state.task

(* last_task_id is last_read_message_id, or is behind it by the complete   *)
(* task alone, whose confirmation has landed unnoticed.                    *)
Known == pc \notin {"down", "hello", "auth", "join"}
LastFollows ==
  /\ Known => lastTask <= lastRead
  /\ \A t \in settled : t <= lastRead \/ t \in cleared
  /\ missed = {} =>
       /\ Known => \A u \in Tasks :
            lastTask < u /\ u <= lastRead =>
              u \in cleared \/ (u = lastRead /\ state = Complete(u))
       /\ Known => \A t \in settled : t <= lastTask \/ t \in cleared
  /\ SettledStaysSettled

Inductive ==
  /\ TypeOK /\ StateFollows /\ BoxFollows /\ TimerFollows /\ NoteFollows
  /\ ToldFollows /\ SaveFollows /\ KeyFollows
  /\ PostedFollows /\ ListenFollows /\ OrderFollows /\ LastFollows

-----------------------------------------------------------------------------
(* The agent joins, gets authorized, and comes up, unless the device that  *)
(* the user has authorized is of no use to it.                             *)
Useless == membership = "authorized" /\ ~GoodDevice
ComesUp == <>[](membership = "authorized" /\ (pc \notin Startup \/ Useless))

(* Every message that was loaded or came by the stream gets confirmed or   *)
(* skipped, unless its task was missed before, a task waits for the user   *)
(* for good, the device is of no use, or the runner has panicked.          *)
Settled(t) == t <= lastRead \/ t \in cleared
EverythingSettles ==
  \/ <>[](\A t \in 1..seen : Settled(t) \/ t \in missed)
  \/ <>[]AwaitsManual
  \/ <>[]Useless
  \/ <>[](pc = "dead")
=============================================================================
