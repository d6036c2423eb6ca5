------------------------------ MODULE Process ------------------------------
(***************************************************************************)
(* The life of the process: AgentContext::init and authorize, what is read *)
(* from the membership and the device, the tasks loaded from the channel,  *)
(* each run of module TaskRun call by call, its confirmation or the user's *)
(* skip, and kills anywhere in between, after which docker starts the      *)
(* agent again.                                                            *)
(*                                                                         *)
(* Agent has the concurrency of the three tokio tasks; here each thing     *)
(* that the listener and the processor do when the runner's mutex is free  *)
(* is one step: a load reads the channel and adds to the queue at once.    *)
(* Messages are posted at any time, are tasks at first, and are not        *)
(* deleted.  A write of the state to the database is not lost, and the     *)
(* program keeps the highest last_read_message_id.  Agent does without     *)
(* these assumptions.                                                      *)
(***************************************************************************)
EXTENDS TaskRun, Conversion, TaskQueueOps

CONSTANTS
  MaxCrashes,       \* times the process is killed
  UserDevices       \* the devices that the user may authorize

ASSUME ProcessAssumption ==
  /\ MaxCrashes \in Nat
  /\ UserDevices \subseteq Devices /\ UserDevices # {}

VARIABLES
  posted,           \* Channel.message_count
  membership,       \* the ChannelMembership account, or "absent"
  device,           \* the agent's ChannelDevice account
  lastRead,         \* ChannelMembership.last_read_message_id
  cleared,          \* tasks whose message says "skip"
  cek,              \* the length of ctx.cek
  lastTask,         \* ctx.last_task_id
  link,             \* the listener: not connected, past load_tasks, subscribed
  mail,             \* the new messages that wait for the processor
  lastAdded,        \* TaskRunner.last_added_task_id
  seen,             \* history: 1..seen were loaded or came by the stream, or are
  missed,           \*   missed: what a subscription began without
  crashes,          \* kills so far
  settled           \* history: tasks done with when the process last started

chainVars == <<posted, membership, device, lastRead, cleared>>
ctxVars == <<cek, lastTask>>
listenVars == <<link, mail, lastAdded, seen, missed>>
lifeVars == <<crashes, settled>>
vars == <<taskVars, chainVars, ctxVars, listenVars, lifeVars>>

(* What the steps between two runs leave alone.                            *)
runFrame == <<rtask, failed, box, monVars>>
startFrame ==
  <<runFrame, queue, state, posted, lastRead, cleared, listenVars, lifeVars>>

Startup == {"down", "hello", "auth", "cek", "join", "welcome"}
MaxId(a, b) == IF a > b THEN a ELSE b
NoDevice == [base64 |-> FALSE, header |-> 39, key |-> 0, sealed |-> FALSE]
GoodDevice == DecryptCek(device) = "ok" /\ device.key = KeyLength

Init ==
  /\ pc = "down" /\ rtask = 0 /\ failed = FALSE
  /\ note = NoNote /\ told = <<>> /\ kept = "untried"
  /\ queue = {} /\ state = Pending /\ box = NoBox
  /\ mon = "none" /\ timer = "armed" /\ watching = FALSE
  /\ posted = 0 /\ membership = "absent" /\ device = NoDevice
  /\ lastRead = 0 /\ cleared = {}
  /\ cek = 0 /\ lastTask = 0
  /\ link = "down" /\ mail = {} /\ lastAdded = 0 /\ seen = 0 /\ missed = {}
  /\ crashes = 0 /\ settled = {}

-----------------------------------------------------------------------------
(* AgentContext::init.                                                     *)

(* TaskRunner::init: the directory is there, the database opens, the state *)
(* is loaded (it is the one that was saved), the monitor's image is        *)
(* pulled.  If it fails the process ends, and is started again.            *)
Starts ==
  /\ pc = "down"
  /\ pc' = "hello"
  /\ Notify("start", 0)
  /\ UNCHANGED <<kept, startFrame, membership, device, cek, lastTask>>

Hello ==
  /\ pc = "hello" /\ NoteReturned
  /\ pc' = "auth" /\ note' = NoNote
  /\ UNCHANGED <<told, kept, startFrame, membership, device, cek, lastTask>>

(* authorize: the membership is authorized.  Without balance, or while it  *)
(* is not, nothing changes.  ReadsKeyOnly is a faulty variant that does    *)
(* not take last_read_message_id over.                                     *)
ReadsKeyOnly == UNCHANGED lastTask
ReadsLastTask == lastTask' = lastRead
LoadsMembership ==
  /\ pc = "auth" /\ membership = "authorized"
  /\ pc' = "cek"
  /\ ReadsLastTask
  /\ UNCHANGED <<notifyVars, startFrame, membership, device, cek>>

(* It cannot be loaded, because there is none or for another reason.       *)
(* NeverJoins is a faulty variant that tries to load it again.             *)
NeverJoins == "auth"
AfterLoadError == "join"
MembershipFails ==
  /\ pc = "auth"
  /\ pc' = AfterLoadError
  /\ UNCHANGED <<notifyVars, startFrame, membership, device, cek, lastTask>>

(* join_channel, which does nothing to a membership that is there.  Either *)
(* way authorize fails, and is tried again.                                *)
JoinEnds(new) ==
  /\ pc = "join"
  /\ pc' = "auth" /\ membership' = new
  /\ UNCHANGED <<notifyVars, startFrame, device, cek, lastTask>>
Joins == JoinEnds(IF membership = "absent" THEN "pending" ELSE membership)
JoinFails == JoinEnds(membership)

LoadsCek ==
  /\ pc = "cek" /\ DecryptCek(device) = "ok"
  /\ pc' = "welcome" /\ cek' = device.key
  /\ Notify("authorize", 0)
  /\ UNCHANGED <<kept, startFrame, membership, device, lastTask>>

(* The device cannot be loaded, or its key is not for this agent.  By then *)
(* last_task_id is set.  GoesOn is a faulty variant that ignores it.       *)
GoesOn == "loop"
AfterCekError == "auth"
CekFails ==
  /\ pc = "cek"
  /\ pc' = AfterCekError
  /\ UNCHANGED <<notifyVars, startFrame, membership, device, cek, lastTask>>

(* The header of the key is too short: main panics.                        *)
CekPanics ==
  /\ pc = "cek" /\ DecryptCek(device) = "panics"
  /\ pc' = "down" /\ lastTask' = 0
  /\ UNCHANGED <<notifyVars, startFrame, membership, device, cek>>

Welcome ==
  /\ pc = "welcome" /\ NoteReturned
  /\ pc' = "loop" /\ note' = NoNote
  /\ UNCHANGED <<told, kept, startFrame, membership, device, cek, lastTask>>

StartupNext ==
  \/ Starts \/ Hello \/ LoadsMembership \/ MembershipFails \/ Joins
  \/ JoinFails \/ LoadsCek \/ CekFails \/ CekPanics \/ Welcome

-----------------------------------------------------------------------------
(* The listener.  Its steps come after the startup.                        *)
Listening == pc \notin Startup
listenFrame == <<notifyVars, runVars, box, monVars, chainVars, ctxVars, lifeVars>>

(* load_tasks, connected and with the runner's mutex: the messages behind  *)
(* last_task_id that are not skipped go to add_task, one by one.           *)
Offered == {t \in 1..posted : t > lastTask} \ cleared
Loads ==
  /\ Listening /\ link = "down" /\ Unlocked
  /\ cek = KeyLength \/ posted <= lastTask
  /\ link' = "loaded" /\ seen' = posted
  /\ LET new == {t \in Offered : CanAddTask(lastAdded, t)}
     IN  /\ queue' = queue \cup new
         /\ \E last \in new \cup {lastAdded} :
              (\A t \in new : t <= last) /\ lastAdded' = last
  /\ state' = IF state.task \in cleared /\ state.task > lastTask
                THEN Pending ELSE state
  /\ UNCHANGED <<listenFrame, mail, missed>>

(* The channel cannot be loaded.  The listener subscribes all the same.    *)
LoadFails ==
  /\ Listening /\ link = "down"
  /\ link' = "loaded"
  /\ UNCHANGED <<listenFrame, queue, state, mail, lastAdded, seen, missed>>

(* With a key of the wrong length the first message makes it panic.        *)
LoadPanics ==
  /\ Listening /\ link = "down" /\ Unlocked
  /\ cek # KeyLength /\ posted > lastTask
  /\ link' = "dead"
  /\ UNCHANGED <<listenFrame, queue, state, mail, lastAdded, seen, missed>>

(* What was posted since the load, or before a load that failed, the       *)
(* stream does not bring.                                                  *)
Subscribes ==
  /\ link = "loaded"
  /\ link' = "up" /\ seen' = posted
  /\ missed' = missed \cup (seen + 1)..posted
  /\ UNCHANGED <<listenFrame, queue, state, mail, lastAdded>>

(* The subscription fails or ends, and the listener starts over.           *)
LinkBreaks ==
  /\ link \in {"loaded", "up"}
  /\ link' = "down"
  /\ UNCHANGED <<listenFrame, queue, state, mail, lastAdded, seen, missed>>

(* The processor gives a new message to add_task, when both mutexes are    *)
(* free: as it was posted, whatever became of it since.                    *)
HearsNew(t) ==
  /\ Unlocked /\ cek = KeyLength
  /\ t \in mail /\ \A other \in mail : t <= other
  /\ mail' = mail \ {t}
  /\ queue' = IF CanAddTask(lastAdded, t) THEN queue \cup {t} ELSE queue
  /\ lastAdded' = LastAdded(lastAdded, t)
  /\ UNCHANGED <<listenFrame, state, link, seen, missed>>

ListenNext ==
  \/ Loads \/ LoadFails \/ LoadPanics \/ Subscribes \/ LinkBreaks
  \/ \E t \in Tasks : HearsNew(t)

-----------------------------------------------------------------------------
(* Between two runs.                                                       *)
idleFrame == <<pc, queue, runFrame, kept, posted, membership, device, cleared,
               cek, listenVars, lifeVars>>

(* The processor has an update event, and the current task, which waits    *)
(* for the user, is skipped.  A copy of it in the queue stays there.       *)
SkipApplies ==
  /\ Unlocked /\ AwaitsManual /\ state.task \in cleared /\ cek = KeyLength
  /\ state' = Pending
  /\ Notify("task:skip", state.task)
  /\ UNCHANGED <<idleFrame, lastRead, lastTask>>

SkipTold ==
  /\ pc \in {"loop", "dead"} /\ NoteReturned
  /\ note' = NoNote
  /\ UNCHANGED <<idleFrame, told, state, lastRead, lastTask>>

(* A complete task is confirmed.                                           *)
Confirms ==
  /\ AtLoop /\ state.st = "complete"
  /\ lastRead' = MaxId(lastRead, state.task) /\ lastTask' = state.task
  /\ state' = Pending
  /\ UNCHANGED <<idleFrame, note, told>>

(* An error comes back; the transaction may have landed all the same.      *)
ConfirmFails ==
  /\ AtLoop /\ state.st = "complete"
  /\ lastRead' \in {lastRead, MaxId(lastRead, state.task)}
  /\ UNCHANGED <<idleFrame, note, told, state, lastTask>>

IdleNext == SkipApplies \/ SkipTold \/ Confirms \/ ConfirmFails

-----------------------------------------------------------------------------
(* The user, and a kill.                                                   *)

UserAuthorizes(d) ==
  /\ membership = "pending"
  /\ membership' = "authorized" /\ device' = d
  /\ UNCHANGED <<taskVars, posted, lastRead, cleared, ctxVars, listenVars,
                 lifeVars>>

(* The user posts a message.  The stream brings it if there is one.        *)
UserPosts ==
  /\ posted < MaxTask
  /\ posted' = posted + 1
  /\ IF link = "up" THEN mail' = mail \cup {posted'} /\ seen' = posted'
                    ELSE UNCHANGED <<mail, seen>>
  /\ UNCHANGED <<taskVars, membership, device, lastRead, cleared, ctxVars,
                 link, lastAdded, missed, lifeVars>>

UserSkips(t) ==
  /\ t <= posted
  /\ cleared' = cleared \cup {t}
  /\ UNCHANGED <<taskVars, posted, membership, device, lastRead, ctxVars,
                 listenVars, lifeVars>>

(* What is in memory is gone; the containers, the database and the channel *)
(* stay.                                                                   *)
Crash ==
  /\ crashes < MaxCrashes
  /\ crashes' = crashes + 1
  /\ settled' = cleared \cup {t \in Tasks : t <= lastRead}
  /\ RunEnds
  /\ pc' = "down" /\ queue' = {}
  /\ cek' = 0 /\ lastTask' = 0
  /\ link' = "down" /\ mail' = {} /\ lastAdded' = 0 /\ seen' = 0
  /\ UNCHANGED <<state, box, mon, chainVars, missed>>

RunSteps == RunNext /\ UNCHANGED <<chainVars, ctxVars, listenVars, lifeVars>>
NotifySteps ==
  NotifierNext /\ UNCHANGED <<runVars, queue, state, box, monVars, chainVars,
                              ctxVars, listenVars, lifeVars>>
DockerSteps ==
  DockerNext /\ UNCHANGED <<chainVars, ctxVars, listenVars, lifeVars>>

Next ==
  \/ StartupNext \/ ListenNext \/ IdleNext \/ RunSteps \/ NotifySteps
  \/ DockerSteps \/ Crash \/ UserPosts
  \/ \E d \in UserDevices : UserAuthorizes(d)
  \/ \E t \in Tasks : UserSkips(t)

Spec == Init /\ [][Next]_vars

(* Fairness.  What the process does by itself it does; a playbook ends; a  *)
(* call to the cluster that is made again and again succeeds; the user     *)
(* authorizes the agent.  A message in the mail is heard in the end if     *)
(* again and again no task waits for the user: only then can the handler   *)
(* of an update and load_tasks not wait for each other.  Docker answers    *)
(* the ping.  That docker or influx ever do more than that is not assumed; *)
(* nor that the channel can be loaded or subscribed to, or that a skip is  *)
(* applied.                                                                *)
Fairness ==
  /\ WF_vars(StartupNext /\ pc \notin {"auth", "cek", "join"})
  /\ WF_vars(StartupNext /\ pc \in {"auth", "cek", "join"} /\ pc' # pc)
  /\ SF_vars(LoadsMembership) /\ SF_vars(Joins) /\ SF_vars(LoadsCek)
  /\ WF_vars(\E d \in UserDevices : UserAuthorizes(d))
  /\ WF_vars(NotifySteps)
  /\ WF_vars(RunSteps /\ pc # "wait")
  /\ WF_vars(SeesExit /\ UNCHANGED <<chainVars, ctxVars, listenVars, lifeVars>>)
  /\ WF_vars(\E st \in {"ok", "failed"} :
               /\ BoxExits(st)
               /\ UNCHANGED <<chainVars, ctxVars, listenVars, lifeVars>>)
  /\ SF_vars(~AwaitsManual /\ \E t \in Tasks : HearsNew(t))
  /\ WF_vars(SkipTold) /\ SF_vars(Confirms)

FairSpec == Spec /\ Fairness

=============================================================================
