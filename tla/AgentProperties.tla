-------------------------- MODULE AgentProperties --------------------------
(***************************************************************************)
(* What the agent must do and may never do, whatever the interleaving of   *)
(* its three tasks, the user, the cluster and docker.                      *)
(***************************************************************************)
EXTENDS Agent

(* The variables have their types, part by part.                           *)
WorldType ==
  /\ posted \in 0..MaxMessages /\ channel \in [Ids -> Contents]
  /\ lastRead \in 0..MaxMessages /\ late \subseteq Ids
  /\ edits \in Nat /\ drops \in Nat /\ crashes \in Nat /\ link \in BOOLEAN
  /\ box \in Boxes
MailType == newQ \in Seq(Events) /\ updQ \in Seq(Events) /\ delQ \in Seq(Ids)
SharedType ==
  /\ cekLock \in {"free", "processor", "listener"}
  /\ runnerLock \in {"free", "runner", "processor", "listener"}
  /\ lastTask \in 0..MaxMessages
  /\ state \in RunStates /\ db \in RunStates
QueueType ==
  /\ queue \in Seq(Ids) /\ lastAdded \in 0..MaxMessages
  /\ popped \in Seq(Ids) /\ added \subseteq Ids
RunnerType ==
  /\ rpc \in {"loop", "match", "confirm", "create", "mark", "wait", "logs",
              "cleanup", "dead"}
  /\ rtask \in IF rpc \in {"loop", "match", "dead"} THEN {0} ELSE Ids
  /\ tx \in IF rpc = "confirm" THEN {"sent", "landed"} ELSE {"none"}
  /\ waitFailed \in BOOLEAN
ProcType ==
  /\ ppc \in {"idle", "newCek", "newRunner", "updRunner", "updCek",
              "delRunner", "dead"}
  /\ pevt \in IF ppc \in {"idle", "dead"} THEN {NoEvent} ELSE Events
ListenerType ==
  /\ lpc \in {"connect", "load", "cek", "runner", "add", "subscribe",
              "listen", "dead"}
  /\ snapshot \in [Ids -> Contents] /\ idFrom \in 0..MaxMessages
  /\ toAdd \subseteq Ids
HistoryType ==
  succeeded \subseteq Ids /\ manual \subseteq Ids /\ deleted \subseteq Ids

TypeOK ==
  /\ WorldType /\ MailType /\ SharedType /\ QueueType
  /\ RunnerType /\ ProcType /\ ListenerType /\ HistoryType

-----------------------------------------------------------------------------
(* The agent's queue is the queue of module TaskQueue, its two callers and *)
(* the crash included: what is proved there holds here.                    *)
QueueSpec == INSTANCE TaskQueue WITH MaxId <- MaxMessages
QueueImplemented == QueueSpec!Spec

(* Since the process started, tasks are taken in the order of their ids,   *)
(* each at most once, although the listener and the processor both add     *)
(* the same messages, from a snapshot and from the stream.                 *)
TakenInOrder == QueueSpec!TakenInOrder

(* The dedup at the end of load_tasks never has a duplicate to remove,     *)
(* although the snapshot and the stream bring the same messages: add_task  *)
(* has kept them out.                                                      *)
DedupRemovesNothing == QueueSpec!DedupRemovesNothing

(* A task that left the queue, whether it ran or was deleted, does not     *)
(* come back before a restart, nor does one that add_task passed over      *)
(* because a later id was added first: not by the next load, not by the    *)
(* stream, not by an event that waited while the other was added.          *)
NeverReadmitted == QueueSpec!NeverReadmitted

(* The cluster is told that a task was done, and the state says so, only   *)
(* for a task whose container exited with status 0: through crashes, late  *)
(* transactions, lost answers and containers that outlive the process.     *)
ConfirmedSucceeded ==
  /\ {lastRead, lastTask} \subseteq succeeded \cup {0}
  /\ late \subseteq succeeded
  /\ \A t \in Ids : Complete(t) \in {state, db} => t \in succeeded

(* While command_runner holds the runner, nothing else changes what it     *)
(* works on: the state is its own from the match that chose the branch to  *)
(* the end of the iteration, and the container is the one it started.      *)
RunIsUndisturbed ==
  /\ rpc \in {"create", "mark"} => state = Pending
  /\ rpc = "confirm" => state = Complete(rtask)
  /\ rpc \in {"mark", "wait", "logs"} =>
       box.task = rtask /\ box.st \in {"running", "ok", "failed"}
  /\ rpc = "wait" => state = Processing(rtask)
  /\ rpc = "logs" =>
       box.st # "running" /\ state = StateAfterExit(box.st, rtask)
  /\ rpc = "cleanup" => state \in IF waitFailed THEN {Processing(rtask)}
                                  ELSE {Complete(rtask), Failed(rtask)}
  /\ waitFailed => rpc = "cleanup"

(* What the state says of a task is not lost.  A run that was started      *)
(* becomes its own outcome; a success stays until it is confirmed; and a   *)
(* task that failed, or whose run a crash interrupted, keeps the agent     *)
(* from going on ("waiting for manual action").  Only the user's word ends *)
(* that sooner, or a crash where a write of the database may be lost.      *)
OutcomeIsKept ==
  [][ state # Pending /\ state' # state
        => \/ /\ state = Processing(rtask) /\ rpc \in {"wait", "cleanup"}
              /\ state' \in {Complete(rtask), Failed(rtask)}
           \/ state.st = "complete" /\ lastTask' = state.task
           \/ state.task \in manual
           \/ LossyDb /\ crashes' # crashes ]_vars

(* What the runner holds of its task is what module RunLife promises, with *)
(* the processor, the listener and the crash around it: nothing but the    *)
(* run changes the state during a run, and a run that is not killed leaves *)
(* its outcome.                                                            *)
Work == IF rpc = "confirm" THEN 0 ELSE rtask
Life == INSTANCE RunLife WITH Tasks <- Ids, work <- Work, lives <- crashes
RunLifeImplemented == Life!Spec

(* A mutex is held by the task that is between its lock and the end of its *)
(* guard, and by no other.                                                 *)
LockInv ==
  /\ runnerLock = "runner" <=> rpc \notin {"loop", "dead"}
  /\ runnerLock = "processor" <=> ppc = "updCek"
  /\ runnerLock = "listener" <=> lpc = "add"
  /\ cekLock = "processor" <=> ppc = "newRunner"
  /\ cekLock = "listener" <=> lpc \in {"runner", "add"}

(* A process that has not restarted runs nothing twice, and offers nothing *)
(* twice: a task that succeeded, that was confirmed, that has the          *)
(* container or that the state is about (it failed, say, or was skipped    *)
(* this moment) is neither in the queue nor about to start.                *)
Settled == succeeded \cup {state.task, box.task, lastTask}
OnlyRestartsRepeat ==
  crashes = 0 =>
    /\ Settled \cap Queued(queue) = {}
    /\ rpc = "create" => rtask \notin Settled

(* Why: all of that was taken from the queue; a task that is about to run  *)
(* was taken last.                                                         *)
TakenFollows ==
  /\ rpc \in {"create", "mark", "wait", "logs", "cleanup"} => rtask \in Queued(popped)
  /\ crashes = 0 =>
       /\ Settled \subseteq Queued(popped) \cup {0}
       /\ rpc = "create" => rtask \notin Settled

(* Wherever the content of a message has got to, what it says of the user  *)
(* is what the user did; and the database holds the state, if no write is  *)
(* lost.                                                                   *)
AsUserDid(e) == e.kind = "skip" => e.id \in manual
ManualInv ==
  /\ \A id \in Ids : "skip" \in {channel[id], snapshot[id]} => id \in manual
  /\ \A i \in DOMAIN newQ : AsUserDid(newQ[i])
  /\ \A i \in DOMAIN updQ : AsUserDid(updQ[i])
  /\ \A i \in DOMAIN delQ : delQ[i] \in manual
  /\ AsUserDid(pevt)
  /\ ppc = "delRunner" => pevt.id \in manual
  /\ ~LossyDb => db = state

(* The processor holds the runner's mutex only to apply an update of the   *)
(* user's while a task waits for the user; nothing ends that waiting       *)
(* before the processor does.                                              *)
UpdateInv ==
  /\ ppc = "updCek" => AwaitsManual
  /\ ppc \in {"updRunner", "updCek"} \/ updQ # <<>> => edits > 0

(* The inductive invariant of the proofs.                                  *)
Inductive ==
  /\ TypeOK /\ LockInv /\ RunIsUndisturbed /\ ConfirmedSucceeded /\ ManualInv
  /\ UpdateInv
  /\ box.st = "ok" => box.task \in succeeded

(* The owner of the mutex that a task waits for ("free" if it may have it  *)
(* now); and a set of blocked tasks none of which can go on, because each  *)
(* waits for a mutex that one of the set holds.                            *)
TokioTasks == {"runner", "processor", "listener"}
WantsRunner(a) ==
  \/ a = "runner" /\ rpc = "loop"
  \/ a = "processor" /\ ppc \in {"newRunner", "updRunner", "delRunner"}
  \/ a = "listener" /\ lpc = "runner"
WantsCek(a) ==
  \/ a = "processor" /\ ppc \in {"newCek", "updCek"}
  \/ a = "listener" /\ lpc = "cek"
Blocker(a) ==
  IF WantsRunner(a) THEN runnerLock ELSE IF WantsCek(a) THEN cekLock ELSE "free"
Blocked == {a \in TokioTasks : Blocker(a) # "free"}
Stuck(S) == S # {} /\ \A a \in S : Blocker(a) \in S

(* The mutexes are taken in both orders, but there is one way only to lock *)
(* the tasks out of each other for good: an update is applied while a task *)
(* waits for the user, and the channel is loaded at that moment.  New and  *)
(* deleted messages, runs and crashes never do it.                         *)
OnlyUpdateBlocks ==
  \A S \in SUBSET Blocked :
    Stuck(S) => ppc = "updCek" /\ lpc = "runner" /\ AwaitsManual /\ edits > 0

(* A deleted task is gone: "Task #{} was deleted...".                      *)
DeletedIsGone == deleted \cap Queued(queue) = {}

(* A task that the user has skipped does not wait in the queue any more:   *)
(* "Task #{} was skipped...".                                              *)
SkipIsFinalStep ==
  ppc = "updCek" /\ state # Pending /\ state' = Pending
    => state.task \notin Queued(queue')
SkipIsFinal == [][SkipIsFinalStep]_vars

(* A task that add_task rejects as "already added earlier" was added.      *)
RejectedWasAdded ==
  /\ \A id \in Ids : lpc = "add" /\ id \in toAdd /\ ~CanAddTask(lastAdded, id)
                       => id \in added
  /\ ppc = "newRunner" /\ pevt.kind = "run" /\ ~CanAddTask(lastAdded, pevt.id)
       => pevt.id \in added

(* "prevent task duplication": the task that command_runner starts is not  *)
(* one whose success it has confirmed to the cluster.                      *)
ConfirmedNotRerun == rpc = "create" => rtask # lastTask

-----------------------------------------------------------------------------
(* command_runner "waits and runs commands from the runner queue at some   *)
(* interval": it looks at the state again and again, unless it waits for a *)
(* container.                                                              *)
RunnerKeepsPolling == []<>(rpc \in {"match", "wait"})

(* A queued task is run, unless a task before it waits for the user for    *)
(* good.                                                                   *)
QueuedIsTaken ==
  <>[]AwaitsManual
    \/ \A id \in Ids : id \in Queued(queue) ~> id \notin Queued(queue)

(* A complete task is confirmed.                                           *)
CompleteIsConfirmed == \A t \in Ids : state = Complete(t) ~> lastTask = t

(* load_tasks ends, and the events that wait are processed.                *)
LoadEnds == lpc = "cek" ~> lpc = "subscribe"
EventsAreProcessed == []<>(newQ = <<>> /\ updQ = <<>> /\ delQ = <<>>)
=============================================================================
