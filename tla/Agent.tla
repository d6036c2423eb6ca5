------------------------------- MODULE Agent -------------------------------
(***************************************************************************)
(* The agent of src/src/agent.rs: the three tokio tasks that run() joins,  *)
(* the two mutexes they share, and what they talk to.                      *)
(*                                                                         *)
(*   runner     command_runner: locks the runner for a whole iteration;    *)
(*              confirms a complete task, waits on a failed one, or runs   *)
(*              the task at the front of the queue (TaskRunner::run);      *)
(*   listener   command_listener: connects, loads the channel (load_tasks) *)
(*              and forwards the events of the log stream;                 *)
(*   processor  command_processor: applies the forwarded events.           *)
(*                                                                         *)
(* Outside the process: the messenger program and its channel account, the *)
(* log stream, the task's container and the runner_state record of the     *)
(* database, which outlive a crash.                                        *)
(*                                                                         *)
(* A step is what a task does between two awaits at which another task can *)
(* see a difference.  A mutex is a variable that holds its owner, and a    *)
(* task that waits for one has a step that is enabled when it is free.     *)
(***************************************************************************)
EXTENDS TaskQueueOps, RunState

CONSTANTS
  MaxMessages,      \* messages the user posts to the channel
  MaxStored,        \* Channel.max_messages: older ones are evicted
  MaxEdits,         \* updates, deletes and failed posts, in all
  MaxDrops,         \* times the log stream breaks
  MaxCrashes,       \* times the process is killed and starts again
  Kinds,            \* what the content of a message may be
  LossyDb,          \* TRUE: a write of runner_state may be lost in a crash
  LogsMayPanic      \* TRUE: the output of a task may not be UTF-8

(* What convert_message_to_task and is_skipped say of a message's content: *)
(* a task, a task the user skips, an error, or a panic.                    *)
AllKinds == {"run", "skip", "bad", "panics"}

ASSUME AgentAssumption ==
  /\ MaxMessages \in Nat /\ MaxStored \in Nat \ {0}
  /\ MaxEdits \in Nat /\ MaxDrops \in Nat /\ MaxCrashes \in Nat
  /\ Kinds \subseteq AllKinds
  /\ LossyDb \in BOOLEAN /\ LogsMayPanic \in BOOLEAN

VARIABLES
  posted,           \* Channel.message_count: ids 1..posted were used
  channel,          \* Channel.messages: the kind of each id, or "absent"
  lastRead,         \* ChannelMembership.last_read_message_id
  late,             \* read_message transactions given up that may yet land
  edits,            \* updates, deletes and failed posts so far
  link,             \* the log subscription is up
  drops, crashes,   \* stream breaks and crashes so far
  newQ, updQ, delQ, \* the three mpsc channels
  cekLock,          \* owner of ctx.cek
  runnerLock,       \* owner of ctx.runner
  lastTask,         \* ctx.last_task_id
  queue, lastAdded, \* TaskRunner.queue, TaskRunner.last_added_task_id
  state, db,        \* TaskRunner.state and its copy in the database
  box,              \* the container svt-agent-task
  rpc, rtask, tx, waitFailed,       \* the runner's position and locals
  ppc, pevt,                        \* the processor's
  lpc, snapshot, idFrom, toAdd,     \* the listener's
  popped,           \* history: ids taken since the process started, in order
  added,            \* history: ids accepted by add_task since then
  succeeded,        \* history: ids whose container exited with status 0
  manual,           \* history: ids the user ever asked to skip or delete
  deleted           \* history: ids whose delete event was applied since start

chainVars    == <<posted, channel, lastRead, late, edits>>
mailVars     == <<newQ, updQ, delQ>>
queueVars    == <<queue, lastAdded, popped, added>>
stateVars    == <<state, db>>
runnerVars   == <<rpc, rtask, tx, waitFailed>>
procVars     == <<ppc, pevt>>
listenerVars == <<lpc, snapshot, idFrom, toAdd>>
worldVars    == <<link, drops, crashes>>
vars == <<chainVars, mailVars, queueVars, stateVars, runnerVars, procVars,
          listenerVars, worldVars, cekLock, runnerLock, lastTask, box,
          succeeded, manual, deleted>>

(* What the steps of the user, of the world, and of each tokio task leave  *)
(* alone.                                                                  *)
userFrame == <<lastRead, late, queueVars, stateVars, runnerVars, procVars,
               listenerVars, worldVars, cekLock, runnerLock, lastTask, box,
               succeeded, deleted>>
worldFrame == <<posted, channel, edits, mailVars, queueVars, stateVars,
                procVars, listenerVars, crashes, cekLock, runnerLock,
                lastTask, manual, deleted>>
runnerFrame == <<posted, channel, lastRead, edits, mailVars, lastAdded,
                 added, procVars, listenerVars, worldVars, cekLock,
                 succeeded, manual, deleted>>
procFrame == <<chainVars, popped, runnerVars, listenerVars, worldVars,
               lastTask, box, succeeded, manual>>
listenerFrame == <<chainVars, mailVars, popped, runnerVars, procVars,
                   drops, crashes, lastTask, box, succeeded, manual,
                   deleted>>

Ids == 1..MaxMessages
Contents == Kinds \cup {"absent"}
Events == [id : Ids, kind : Contents]
NoEvent == [id |-> 0, kind |-> "absent"]
NoChannel == [id \in Ids |-> "absent"]

RunStates == StatesOf(Ids)

(* The task container: none, created but not started, running, or exited   *)
(* with status 0 or with another.                                          *)
NoBox == [task |-> 0, st |-> "none"]
Boxes == {NoBox} \cup [task : Ids, st : {"created", "running", "ok", "failed"}]

(* set_state: the state, then its copy in the database.  The result of the *)
(* write is dropped by every caller, and sled flushes it some time later.  *)
SetState(s) == state' = s /\ db' \in (IF LossyDb THEN {db, s} ELSE {s})

(* The current state is a task that waits for the user.                    *)
AwaitsManual == state.st \in {"processing", "error"}

Init ==
  /\ posted = 0 /\ channel = NoChannel /\ lastRead = 0 /\ late = {} /\ edits = 0
  /\ link = FALSE /\ drops = 0 /\ crashes = 0
  /\ newQ = <<>> /\ updQ = <<>> /\ delQ = <<>>
  /\ cekLock = "free" /\ runnerLock = "free"
  /\ lastTask = 0 /\ queue = <<>> /\ lastAdded = 0
  /\ state = Pending /\ db = Pending /\ box = NoBox
  /\ rpc = "loop" /\ rtask = 0 /\ tx = "none" /\ waitFailed = FALSE
  /\ ppc = "idle" /\ pevt = NoEvent
  /\ lpc = "connect" /\ snapshot = NoChannel /\ idFrom = 0 /\ toAdd = {}
  /\ popped = <<>> /\ added = {} /\ succeeded = {} /\ manual = {} /\ deleted = {}

-----------------------------------------------------------------------------
(* The channel and the log stream.                                         *)

Stored == {id \in Ids : channel[id] # "absent"}
Oldest(S) == CHOOSE id \in S : \A other \in S : id <= other

(* An event reaches its mpsc channel if the listener is subscribed and the *)
(* processor still holds the receiving end.                                *)
Forward(q, e) == IF link /\ ppc # "dead" THEN Append(q, e) ELSE q

(* A transaction of the user's changes the channel; or it fails after it   *)
(* emitted its event, and the log is delivered all the same: the listener  *)
(* does not look at its err.                                               *)
Stores(newPosted, newChannel) ==
  \/ posted' = newPosted /\ channel' = newChannel
  \/ UNCHANGED <<posted, channel>>

(* The channel with a new message; a full one drops its oldest.            *)
WithMessage(kind) ==
  LET gone == IF Cardinality(Stored) < MaxStored THEN {} ELSE {Oldest(Stored)}
  IN  [id \in Ids |-> IF id = posted + 1 THEN kind
                      ELSE IF id \in gone THEN "absent" ELSE channel[id]]

(* The user posts a message.  A post that fails counts as an edit.         *)
Post(kind) ==
  /\ posted < MaxMessages
  /\ Stores(posted + 1, WithMessage(kind))
  /\ IF posted' = posted THEN edits < MaxEdits /\ edits' = edits + 1
     ELSE UNCHANGED edits
  /\ newQ' = Forward(newQ, [id |-> posted + 1, kind |-> kind])
  /\ manual' = IF kind = "skip" THEN manual \cup {posted + 1} ELSE manual
  /\ UNCHANGED <<userFrame, updQ, delQ>>

(* The user updates a message, to skip a failed task for example.          *)
Update(id, kind) ==
  /\ edits < MaxEdits /\ id \in Stored
  /\ edits' = edits + 1
  /\ Stores(posted, [channel EXCEPT ![id] = kind])
  /\ updQ' = Forward(updQ, [id |-> id, kind |-> kind])
  /\ manual' = IF kind = "skip" THEN manual \cup {id} ELSE manual
  /\ UNCHANGED <<userFrame, newQ, delQ>>

(* The user deletes a message.                                             *)
Delete(id) ==
  /\ edits < MaxEdits /\ id \in Stored
  /\ edits' = edits + 1
  /\ Stores(posted, [channel EXCEPT ![id] = "absent"])
  /\ delQ' = Forward(delQ, id)
  /\ manual' = manual \cup {id}
  /\ UNCHANGED <<userFrame, newQ, updQ>>

(* A read_message transaction lands.  Whether the program lets an older id *)
(* overwrite a newer one is not in the repository: both are possible.      *)
Lands(id) == lastRead' \in {id, IF id > lastRead THEN id ELSE lastRead}

TxLands ==
  /\ tx = "sent"
  /\ tx' = "landed"
  /\ Lands(rtask)
  /\ UNCHANGED <<worldFrame, late, rpc, rtask, waitFailed, link, drops, box,
                 succeeded>>

LateTxLands(id) ==
  /\ id \in late
  /\ late' = late \ {id}
  /\ Lands(id)
  /\ UNCHANGED <<worldFrame, runnerVars, link, drops, box, succeeded>>

(* The stream breaks; the listener has yet to see its end.                 *)
LinkDrops ==
  /\ link /\ drops < MaxDrops
  /\ link' = FALSE
  /\ drops' = drops + 1
  /\ UNCHANGED <<worldFrame, runnerVars, lastRead, late, box, succeeded>>

-----------------------------------------------------------------------------
(* The runner: command_runner, and TaskRunner::run under its lock.         *)

(* The end of an iteration: the guard is dropped, the locals are gone.     *)
RunnerReleases ==
  /\ rpc' = "loop" /\ rtask' = 0 /\ tx' = "none" /\ waitFailed' = FALSE
  /\ runnerLock' = "free"

(* The balance is sufficient and the mutex is free.                        *)
RunnerLocks ==
  /\ rpc = "loop" /\ runnerLock = "free"
  /\ rpc' = "match" /\ runnerLock' = "runner"
  /\ UNCHANGED <<runnerFrame, stateVars, late, queue, popped, rtask, tx,
                 waitFailed, lastTask, box>>

(* Processing or Error: it sleeps, holding the lock, and tries again.      *)
RunnerAwaitsManual ==
  /\ rpc = "match" /\ AwaitsManual
  /\ RunnerReleases
  /\ UNCHANGED <<runnerFrame, stateVars, late, queue, popped, lastTask, box>>

(* Complete: it sends read_message for the task.                           *)
RunnerConfirms ==
  /\ rpc = "match" /\ state.st = "complete"
  /\ rpc' = "confirm" /\ rtask' = state.task /\ tx' = "sent"
  /\ UNCHANGED <<runnerFrame, stateVars, late, queue, popped, waitFailed,
                 runnerLock, lastTask, box>>

(* The transaction is confirmed.  ConfirmForgetsReset is a faulty variant  *)
(* that leaves the state Complete.                                         *)
ConfirmForgetsReset == UNCHANGED stateVars
ConfirmResets == SetState(Pending)
RunnerConfirmed ==
  /\ rpc = "confirm" /\ tx = "landed"
  /\ lastTask' = rtask
  /\ ConfirmResets
  /\ RunnerReleases
  /\ UNCHANGED <<runnerFrame, late, queue, popped, box>>

(* An error comes back, or the answer is lost.  The transaction may never  *)
(* have been sent, may have landed, or may land later.                     *)
RunnerConfirmFails ==
  /\ rpc = "confirm"
  /\ late' \in {late, IF tx = "sent" THEN late \cup {rtask} ELSE late}
  /\ RunnerReleases
  /\ UNCHANGED <<runnerFrame, stateVars, queue, popped, lastTask, box>>

(* Pending, and docker does not answer the ping or the queue is empty.     *)
RunnerFindsNothing ==
  /\ rpc = "match" /\ state.st = "pending"
  /\ RunnerReleases
  /\ UNCHANGED <<runnerFrame, stateVars, late, queue, popped, lastTask, box>>

(* Pending: the task at the front leaves the queue.  PeekFront is a faulty *)
(* variant that reads it and leaves it there.                              *)
PeekFront(q) == q
PopFront(q) == Tail(q)
RunnerPops ==
  /\ rpc = "match" /\ state.st = "pending" /\ queue # <<>>
  /\ rpc' = "create" /\ rtask' = Head(queue)
  /\ queue' = PopFront(queue)
  /\ popped' = Append(popped, Head(queue))
  /\ UNCHANGED <<runnerFrame, stateVars, late, tx, waitFailed, runnerLock,
                 lastTask, box>>

(* run_task fails: the image, the creation (a running container keeps its  *)
(* name, delete is not forced) or the start, which may have had its effect *)
(* all the same.                                                           *)
RunnerCreateFails ==
  /\ rpc = "create"
  /\ box' \in IF box.st = "running" THEN {box}
              ELSE {box, NoBox} \cup [task : {rtask}, st : {"created", "running"}]
  /\ SetState(Failed(rtask))
  /\ RunnerReleases
  /\ UNCHANGED <<runnerFrame, late, queue, popped, lastTask>>

(* run_task: a container that does not run is deleted, a new one starts.   *)
RunnerStarts ==
  /\ rpc = "create" /\ box.st # "running"
  /\ box' = [task |-> rtask, st |-> "running"]
  /\ rpc' = "mark"
  /\ UNCHANGED <<runnerFrame, stateVars, late, queue, popped, rtask, tx,
                 waitFailed, runnerLock, lastTask>>

(* The start is notified, then the state is Processing.                    *)
RunnerMarks ==
  /\ rpc = "mark"
  /\ rpc' = "wait"
  /\ SetState(Processing(rtask))
  /\ UNCHANGED <<runnerFrame, late, queue, popped, rtask, tx, waitFailed,
                 runnerLock, lastTask, box>>

(* The container exits.                                                    *)
BoxExits(st) ==
  /\ box.st = "running"
  /\ box' = [task |-> box.task, st |-> st]
  /\ succeeded' = IF st = "ok" THEN succeeded \cup {box.task} ELSE succeeded
  /\ UNCHANGED <<worldFrame, runnerVars, lastRead, late, link, drops>>

(* The state after a status code.  AnyCodeCompletes is a faulty variant    *)
(* that takes every exit for a success.                                    *)
AnyCodeCompletes(st, t) == Complete(t)
StateAfterExit(st, t) == IF st = "ok" THEN Complete(t) ELSE Failed(t)
RunnerSeesExit ==
  /\ rpc = "wait" /\ box.st \in {"ok", "failed"}
  /\ rpc' = "logs"
  /\ SetState(StateAfterExit(box.st, rtask))
  /\ UNCHANGED <<runnerFrame, late, queue, popped, rtask, tx, waitFailed,
                 runnerLock, lastTask, box>>

(* container.wait() fails: the internal error is handled after cleaning up.*)
RunnerWaitFails ==
  /\ rpc = "wait"
  /\ rpc' = "cleanup" /\ waitFailed' = TRUE
  /\ UNCHANGED <<runnerFrame, stateVars, late, queue, popped, rtask, tx,
                 runnerLock, lastTask, box>>

(* get_container_logs, and the notification of the result.                 *)
RunnerReadsLogs ==
  /\ rpc = "logs"
  /\ rpc' = "cleanup"
  /\ UNCHANGED <<runnerFrame, stateVars, late, queue, popped, rtask, tx,
                 waitFailed, runnerLock, lastTask, box>>

(* get_container_logs unwraps from_utf8: the tokio task ends, and its lock *)
(* is released with it.                                                    *)
RunnerPanics ==
  /\ LogsMayPanic /\ rpc = "logs"
  /\ rpc' = "dead" /\ rtask' = 0 /\ runnerLock' = "free"
  /\ UNCHANGED <<runnerFrame, stateVars, late, queue, popped, tx,
                 waitFailed, lastTask, box>>

(* The container is deleted, unless it still runs or docker fails; then an *)
(* internal error becomes the state Error.                                 *)
RunnerCleansUp ==
  /\ rpc = "cleanup"
  /\ box' \in IF box.st = "running" THEN {box} ELSE {box, NoBox}
  /\ IF waitFailed THEN SetState(Failed(rtask)) ELSE UNCHANGED stateVars
  /\ RunnerReleases
  /\ UNCHANGED <<runnerFrame, late, queue, popped, lastTask>>

RunnerNext ==
  \/ RunnerLocks \/ RunnerAwaitsManual \/ RunnerConfirms \/ RunnerConfirmed
  \/ RunnerConfirmFails \/ RunnerFindsNothing \/ RunnerPops
  \/ RunnerCreateFails \/ RunnerStarts \/ RunnerMarks \/ RunnerSeesExit
  \/ RunnerWaitFails \/ RunnerReadsLogs \/ RunnerPanics \/ RunnerCleansUp

-----------------------------------------------------------------------------
(* The processor: command_processor.                                       *)

(* The branch of select! is chosen among the non-empty channels.           *)
ProcTakesNew ==
  /\ ppc = "idle" /\ newQ # <<>>
  /\ pevt' = Head(newQ) /\ newQ' = Tail(newQ) /\ ppc' = "newCek"
  /\ UNCHANGED <<procFrame, stateVars, updQ, delQ, queue, lastAdded, added,
                 cekLock, runnerLock, deleted>>

ProcTakesUpdate ==
  /\ ppc = "idle" /\ updQ # <<>>
  /\ pevt' = Head(updQ) /\ updQ' = Tail(updQ) /\ ppc' = "updRunner"
  /\ UNCHANGED <<procFrame, stateVars, newQ, delQ, queue, lastAdded, added,
                 cekLock, runnerLock, deleted>>

ProcTakesDelete ==
  /\ ppc = "idle" /\ delQ # <<>>
  /\ pevt' = [id |-> Head(delQ), kind |-> "absent"]
  /\ delQ' = Tail(delQ) /\ ppc' = "delRunner"
  /\ UNCHANGED <<procFrame, stateVars, newQ, updQ, queue, lastAdded, added,
                 cekLock, runnerLock, deleted>>

(* New: first the cek, then the runner.                                    *)
ProcLocksCek ==
  /\ ppc = "newCek" /\ cekLock = "free"
  /\ cekLock' = "processor" /\ ppc' = "newRunner"
  /\ UNCHANGED <<procFrame, mailVars, stateVars, queue, lastAdded, added,
                 pevt, runnerLock, deleted>>

(* Where the processor is after an event, and its channels: a panic while  *)
(* it converts a message ends it and drops its receivers.                  *)
ProcDone(kind) ==
  /\ pevt' = NoEvent
  /\ IF kind = "panics"
     THEN ppc' = "dead" /\ newQ' = <<>> /\ updQ' = <<>> /\ delQ' = <<>>
     ELSE ppc' = "idle" /\ UNCHANGED mailVars

(* New: both mutexes are held; a task that is not skipped is added.        *)
ProcAdds ==
  /\ ppc = "newRunner" /\ runnerLock = "free"
  /\ IF pevt.kind = "run"
     THEN /\ queue' = AddTask(queue, lastAdded, pevt.id)
          /\ lastAdded' = LastAdded(lastAdded, pevt.id)
          /\ added' = IF CanAddTask(lastAdded, pevt.id)
                       THEN added \cup {pevt.id} ELSE added
     ELSE UNCHANGED <<queue, lastAdded, added>>
  /\ cekLock' = "free"
  /\ ProcDone(pevt.kind)
  /\ UNCHANGED <<procFrame, stateVars, runnerLock, deleted>>

(* Update: nothing waits for the user, the event is dropped.               *)
ProcIgnoresUpdate ==
  /\ ppc = "updRunner" /\ runnerLock = "free" /\ ~AwaitsManual
  /\ ProcDone("absent")
  /\ UNCHANGED <<procFrame, stateVars, queue, lastAdded, added, cekLock,
                 runnerLock, deleted>>

(* Update: a task waits for the user; the runner is held, then the cek.    *)
ProcLocksRunner ==
  /\ ppc = "updRunner" /\ runnerLock = "free" /\ AwaitsManual
  /\ runnerLock' = "processor" /\ ppc' = "updCek"
  /\ UNCHANGED <<procFrame, mailVars, stateVars, queue, lastAdded, added,
                 pevt, cekLock, deleted>>

(* The user's action is meant for the current task.  AnyTaskMatches is a   *)
(* faulty variant that does not compare the ids.                           *)
AnyTaskMatches(id) == TRUE
IsCurrent(id) == state.task = id

(* Update: if the message now skips the current task, its state is reset.  *)
ProcSkips ==
  /\ ppc = "updCek" /\ cekLock = "free"
  /\ IF pevt.kind = "skip" /\ IsCurrent(pevt.id)
     THEN SetState(Pending) ELSE UNCHANGED stateVars
  /\ runnerLock' = "free"
  /\ ProcDone(pevt.kind)
  /\ UNCHANGED <<procFrame, queue, lastAdded, added, cekLock, deleted>>

(* The runner's mutex is free for a delete event.  DeleteNeedsNoLock is a  *)
(* faulty variant that does not wait for it.                               *)
DeleteNeedsNoLock == TRUE
DeleteMayRun == runnerLock = "free"

(* Delete: the state is reset if the task waits for the user, and the task *)
(* leaves the queue.                                                       *)
ProcDeletes ==
  /\ ppc = "delRunner" /\ DeleteMayRun
  /\ IF AwaitsManual /\ IsCurrent(pevt.id)
     THEN SetState(Pending) ELSE UNCHANGED stateVars
  /\ queue' = DeleteTask(queue, pevt.id)
  /\ deleted' = deleted \cup {pevt.id}
  /\ ProcDone("absent")
  /\ UNCHANGED <<procFrame, lastAdded, added, cekLock, runnerLock>>

(* The listener is gone and with it the senders: once the channels are     *)
(* drained, no branch of select! is left, and it panics.                   *)
ProcStops ==
  /\ ppc = "idle" /\ lpc = "dead" /\ newQ = <<>> /\ updQ = <<>> /\ delQ = <<>>
  /\ ppc' = "dead"
  /\ UNCHANGED <<procFrame, mailVars, stateVars, queue, lastAdded, added,
                 pevt, cekLock, runnerLock, deleted>>

ProcessorNext ==
  \/ ProcTakesNew \/ ProcTakesUpdate \/ ProcTakesDelete \/ ProcLocksCek
  \/ ProcAdds \/ ProcIgnoresUpdate \/ ProcLocksRunner \/ ProcSkips
  \/ ProcDeletes \/ ProcStops

-----------------------------------------------------------------------------
(* The listener: command_listener and load_tasks.                          *)

ListenerConnects ==
  /\ lpc = "connect"
  /\ lpc' = "load"
  /\ UNCHANGED <<listenerFrame, stateVars, queue, lastAdded, added,
                 snapshot, idFrom, toAdd, link, cekLock, runnerLock>>

(* load_channel: the account as it is now.                                 *)
ListenerLoadsChannel ==
  /\ lpc = "load"
  /\ lpc' = "cek" /\ snapshot' = channel
  /\ UNCHANGED <<listenerFrame, stateVars, queue, lastAdded, added, idFrom,
                 toAdd, link, cekLock, runnerLock>>

(* load_channel fails: load_tasks returns, and its result is dropped.      *)
ListenerLoadFails ==
  /\ lpc = "load"
  /\ lpc' = "subscribe"
  /\ UNCHANGED <<listenerFrame, stateVars, queue, lastAdded, added,
                 snapshot, idFrom, toAdd, link, cekLock, runnerLock>>

(* The cek is locked, and last_task_id is read before the runner is.       *)
ListenerLocksCek ==
  /\ lpc = "cek" /\ cekLock = "free"
  /\ lpc' = "runner" /\ cekLock' = "listener" /\ idFrom' = lastTask
  /\ UNCHANGED <<listenerFrame, stateVars, queue, lastAdded, added,
                 snapshot, toAdd, link, runnerLock>>

(* The messages above idFrom; the ones to run; whether the current task    *)
(* (of any state but Pending) is now to be skipped.  LoadAnySkip is a      *)
(* faulty variant that resets on any skipped message.                      *)
Unread == {id \in Ids : id > idFrom /\ snapshot[id] # "absent"}
LoadAnySkip == \E id \in Unread : snapshot[id] = "skip"
LoadNeedsReset == \E id \in Unread : snapshot[id] = "skip" /\ IsCurrent(id)

(* The runner is locked; the messages are converted, and the state reset   *)
(* if needed.                                                              *)
ListenerConverts ==
  /\ lpc = "runner" /\ runnerLock = "free"
  /\ \A id \in Unread : snapshot[id] # "panics"
  /\ lpc' = "add" /\ runnerLock' = "listener"
  /\ toAdd' = {id \in Unread : snapshot[id] = "run"}
  /\ IF LoadNeedsReset THEN SetState(Pending) ELSE UNCHANGED stateVars
  /\ snapshot' = NoChannel /\ idFrom' = 0
  /\ UNCHANGED <<listenerFrame, queue, lastAdded, added, link, cekLock>>

(* A message makes the conversion panic: the tokio task ends.              *)
ListenerPanics ==
  /\ lpc = "runner" /\ runnerLock = "free"
  /\ \E id \in Unread : snapshot[id] = "panics"
  /\ lpc' = "dead" /\ cekLock' = "free"
  /\ snapshot' = NoChannel /\ idFrom' = 0
  /\ UNCHANGED <<listenerFrame, stateVars, queue, lastAdded, added, toAdd,
                 link, runnerLock>>

(* The tasks are added in the order of the messages.                       *)
ListenerAdds ==
  /\ lpc = "add" /\ toAdd # {}
  /\ LET id == Oldest(toAdd)
     IN  /\ queue' = AddTask(queue, lastAdded, id)
         /\ lastAdded' = LastAdded(lastAdded, id)
         /\ added' = IF CanAddTask(lastAdded, id) THEN added \cup {id} ELSE added
         /\ toAdd' = toAdd \ {id}
  /\ UNCHANGED <<listenerFrame, stateVars, lpc, snapshot, idFrom, link,
                 cekLock, runnerLock>>

(* The guards dropped at the end of load_tasks.  KeepsCek and KeepsRunner  *)
(* are faulty variants that keep one of them while the listener listens.   *)
KeepsCek == runnerLock' = "free" /\ UNCHANGED cekLock
KeepsRunner == cekLock' = "free" /\ UNCHANGED runnerLock
LoadReleases == runnerLock' = "free" /\ cekLock' = "free"

(* Dedup, and the end of load_tasks.                                       *)
ListenerEndsLoad ==
  /\ lpc = "add" /\ toAdd = {}
  /\ lpc' = "subscribe"
  /\ queue' = Dedup(queue)
  /\ LoadReleases
  /\ UNCHANGED <<listenerFrame, stateVars, lastAdded, added, snapshot,
                 idFrom, toAdd, link>>

(* logs_subscribe: events are received from here on, and not before.       *)
ListenerSubscribes ==
  /\ lpc = "subscribe"
  /\ lpc' = "listen" /\ link' = TRUE
  /\ UNCHANGED <<listenerFrame, stateVars, queue, lastAdded, added,
                 snapshot, idFrom, toAdd, cekLock, runnerLock>>

(* logs_subscribe fails or times out; or the stream has ended.             *)
ListenerRetries ==
  /\ lpc = "subscribe" \/ (lpc = "listen" /\ ~link)
  /\ lpc' = "connect"
  /\ UNCHANGED <<listenerFrame, stateVars, queue, lastAdded, added,
                 snapshot, idFrom, toAdd, link, cekLock, runnerLock>>

ListenerNext ==
  \/ ListenerConnects \/ ListenerLoadsChannel \/ ListenerLoadFails
  \/ ListenerLocksCek \/ ListenerConverts \/ ListenerPanics \/ ListenerAdds
  \/ ListenerEndsLoad \/ ListenerSubscribes \/ ListenerRetries

-----------------------------------------------------------------------------
(* The process is killed and starts again: AgentContext::init loads the    *)
(* state, authorize reads last_read_message_id.  The container, the        *)
(* database and a transaction in flight survive.                           *)
Crash ==
  /\ crashes < MaxCrashes
  /\ crashes' = crashes + 1
  /\ late' \in {late, IF tx = "sent" THEN late \cup {rtask} ELSE late}
  /\ link' = FALSE
  /\ newQ' = <<>> /\ updQ' = <<>> /\ delQ' = <<>>
  /\ cekLock' = "free" /\ runnerLock' = "free"
  /\ lastTask' = lastRead
  /\ queue' = <<>> /\ lastAdded' = 0 /\ popped' = <<>> /\ added' = {}
  /\ deleted' = {}
  /\ state' = db
  /\ rpc' = "loop" /\ rtask' = 0 /\ tx' = "none" /\ waitFailed' = FALSE
  /\ ppc' = "idle" /\ pevt' = NoEvent
  /\ lpc' = "connect" /\ snapshot' = NoChannel /\ idFrom' = 0 /\ toAdd' = {}
  /\ UNCHANGED <<posted, channel, lastRead, edits, db, drops, box,
                 succeeded, manual>>

UserNext ==
  \/ \E kind \in Kinds : Post(kind) \/ \E id \in Ids : Update(id, kind)
  \/ \E id \in Ids : Delete(id)

WorldNext ==
  \/ TxLands
  \/ \E id \in Ids : LateTxLands(id)
  \/ LinkDrops
  \/ \E st \in {"ok", "failed"} : BoxExits(st)
  \/ Crash

Next == UserNext \/ WorldNext \/ RunnerNext \/ ProcessorNext \/ ListenerNext

Spec == Init /\ [][Next]_vars

-----------------------------------------------------------------------------
(* Fairness.  tokio runs every task that can run, and its mutex serves the *)
(* waiting tasks in turn: a task that waits for one gets it if it is free  *)
(* again and again.  Of the outside: a playbook ends, a transaction that   *)
(* is sent again and again is confirmed, and docker answers the ping again *)
(* and again.  That the cluster lets the listener load the channel or      *)
(* subscribe is not assumed.                                               *)
ProcGetsMutex ==
  \/ ProcLocksCek \/ ProcAdds \/ ProcIgnoresUpdate \/ ProcLocksRunner
  \/ ProcSkips \/ ProcDeletes
ListenerGetsMutex == ListenerLocksCek \/ ListenerConverts \/ ListenerPanics

Fairness ==
  /\ SF_vars(RunnerLocks) /\ SF_vars(ProcGetsMutex) /\ SF_vars(ListenerGetsMutex)
  /\ SF_vars(RunnerPops) /\ SF_vars(TxLands) /\ SF_vars(RunnerConfirmed)
  /\ WF_vars(RunnerNext /\ rpc # "loop")
  /\ WF_vars(ProcTakesNew \/ ProcTakesUpdate \/ ProcTakesDelete)
  /\ WF_vars(ListenerConnects \/ ListenerLoadsChannel \/ ListenerLoadFails)
  /\ WF_vars(ListenerAdds \/ ListenerEndsLoad)
  /\ WF_vars(ListenerSubscribes \/ ListenerRetries)
  /\ WF_vars(\E st \in {"ok", "failed"} : BoxExits(st))

FairSpec == Spec /\ Fairness
=============================================================================
