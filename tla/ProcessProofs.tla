--------------------------- MODULE ProcessProofs ---------------------------
(***************************************************************************)
(* Theorems about the process, for any number of tasks, attempts at influx *)
(* and kills, and any devices.                                             *)
(***************************************************************************)
EXTENDS ProcessProperties, SequenceTheorems, TLAPS

USE DEF runVars, monVars, notifyVars, chainVars, ctxVars, listenVars, lifeVars

-----------------------------------------------------------------------------
(* Types.                                                                  *)
LEMMA Words ==
  /\ 0 \in Nat /\ \A t \in Tasks : t \in Nat /\ t # 0
  /\ NoNote \in Notes
  /\ Pending \in StatesOf(Tasks)
  /\ \A t \in Tasks : {Processing(t), Complete(t), Failed(t)} \subseteq StatesOf(Tasks)
  /\ \A s \in StatesOf(Tasks) :
       /\ s.st = "pending" => s = Pending
       /\ s.st = "complete" => s = Complete(s.task)
       /\ s # Pending => s.task \in Tasks
  /\ NoBox \in Boxes
  /\ \A t \in Tasks, st \in {"created", "running", "ok", "failed"} :
       [task |-> t, st |-> st] \in Boxes
  /\ \A b \in Boxes, st \in {"ok", "failed"} :
       b.st = "running" => [b EXCEPT !.st = st] \in Boxes
  /\ \A b \in Boxes : b # NoBox => [b EXCEPT !.st = "running"] \in Boxes
<1>1. 0 \in Nat /\ \A t \in Tasks : t \in Nat /\ t # 0
  BY TaskRunAssumption DEF Tasks
<1>2. NoNote \in Notes
  BY NotifierAssumption DEF NoNote, Notes
<1>3. /\ Pending \in StatesOf(Tasks)
      /\ \A t \in Tasks : {Processing(t), Complete(t), Failed(t)} \subseteq StatesOf(Tasks)
      /\ \A s \in StatesOf(Tasks) :
           /\ s.st = "pending" => s = Pending
           /\ s.st = "complete" => s = Complete(s.task)
           /\ s # Pending => s.task \in Tasks
  BY DEF StatesOf, Pending, Processing, Complete, Failed
<1>4. /\ NoBox \in Boxes
      /\ \A t \in Tasks, st \in {"created", "running", "ok", "failed"} :
           [task |-> t, st |-> st] \in Boxes
      /\ \A b \in Boxes, st \in {"ok", "failed"} :
           b.st = "running" => [b EXCEPT !.st = st] \in Boxes
      /\ \A b \in Boxes : b # NoBox => [b EXCEPT !.st = "running"] \in Boxes
  BY DEF Boxes, NoBox
<1> QED
  BY <1>1, <1>2, <1>3, <1>4

LEMMA NotifyType ==
  ASSUME NotifierType, NEW event \in AgentEvents \cup RunEvents, NEW task \in Nat,
         Notify(event, task)
  PROVE  note' \in Notes /\ told' \in Seq(RunEvents)
<1>1. note' \in Notes
  BY NotifierAssumption DEF Notify, Notes
<1>2. told' \in Seq(RunEvents)
  BY DEF Notify, NotifierType
<1> QED
  BY <1>1, <1>2

LEMMA EndsType ==
  ASSUME RunEnds
  PROVE  /\ NotifierType'
         /\ rtask' = 0 /\ failed' = FALSE /\ timer' = "armed" /\ watching' = FALSE
BY Words DEF RunEnds, NotifierType

LEMMA NotifierStepType ==
  ASSUME NotifierType, NotifierNext
  PROVE  NotifierType'
<1>0. MaxAttempts \in Nat
  BY NotifierAssumption
<1>1. CASE SaveToFile
  BY <1>1 DEF SaveToFile, NotifierType, Notes
<1>2. CASE AskInflux
  <2>1. note \in Notes /\ note.attempts \in 0..MaxAttempts
    BY DEF NotifierType, Notes
  <2>2. \A n \in 0..MaxAttempts : [note EXCEPT !.attempts = n] \in Notes
    BY <2>1 DEF Notes
  <2>3. note.attempts + 1 \in 0..MaxAttempts /\ MaxAttempts \in 0..MaxAttempts
    BY <1>0, <1>2, <2>1 DEF AskInflux
  <2>4. note' \in Notes
    BY <1>2, <2>2, <2>3 DEF AskInflux
  <2> QED
    BY <1>2, <2>4 DEF AskInflux, NotifierType
<1> QED
  BY <1>1, <1>2 DEF NotifierNext

(* A step that leaves the notifier alone, or ends the notification, or     *)
(* begins one, leaves it with its type.                                    *)
LEMMA NotifierKeepsType ==
  ASSUME NotifierType,
         \/ UNCHANGED notifyVars
         \/ note' = NoNote /\ UNCHANGED <<told, kept>>
         \/ \E event \in AgentEvents \cup RunEvents, task \in Nat :
              Notify(event, task) /\ kept' = kept
  PROVE  NotifierType'
<1>1. CASE UNCHANGED notifyVars
  BY <1>1 DEF NotifierType
<1>2. CASE note' = NoNote /\ UNCHANGED <<told, kept>>
  BY <1>2, Words DEF NotifierType
<1>3. CASE \E event \in AgentEvents \cup RunEvents, task \in Nat :
             Notify(event, task) /\ kept' = kept
  BY <1>3, NotifyType DEF NotifierType
<1> QED
  BY <1>1, <1>2, <1>3

LEMMA StartupType ==
  ASSUME TypeOK, StartupNext
  PROVE  TypeOK'
<1>0. NotifierType /\ {"start", "authorize"} \subseteq AgentEvents
  BY DEF TypeOK, TaskRunType, AgentEvents
<1>1. NotifierType'
  <2>1. CASE Starts \/ LoadsCek
    BY <1>0, <2>1, Words, NotifierKeepsType DEF Starts, LoadsCek
  <2>2. CASE Hello \/ Welcome
    BY <1>0, <2>2, NotifierKeepsType DEF Hello, Welcome
  <2>3. CASE LoadsMembership \/ MembershipFails \/ Joins \/ JoinFails
             \/ CekFails \/ CekPanics
    BY <1>0, <2>3, NotifierKeepsType
    DEF LoadsMembership, MembershipFails, Joins, JoinFails, JoinEnds,
        CekFails, CekPanics
  <2> QED
    BY <2>1, <2>2, <2>3 DEF StartupNext
<1>2. TaskRunType'
  BY <1>1
  DEF StartupNext, Starts, Hello, LoadsMembership, MembershipFails, Joins,
      JoinFails, JoinEnds, LoadsCek, CekFails, CekPanics, Welcome, startFrame,
      runFrame, TypeOK, TaskRunType
<1>3. /\ pc' \in Startup \cup {"loop"}
      /\ membership' \in {"absent", "pending", "authorized"}
      /\ lastTask' \in Tasks \cup {0}
  BY DEF StartupNext, Starts, Hello, LoadsMembership, ReadsLastTask,
         MembershipFails, AfterLoadError, Joins, JoinFails, JoinEnds, LoadsCek,
         CekFails, AfterCekError, CekPanics, Welcome, startFrame, Startup,
         TypeOK
<1>4. cek' \in {0, 31, 32} /\ device' = device
  BY DEF StartupNext, Starts, Hello, LoadsMembership, MembershipFails, Joins,
         JoinFails, JoinEnds, LoadsCek, CekFails, CekPanics, Welcome, TypeOK,
         Devices
<1>5. UNCHANGED <<posted, lastRead, cleared, settled, listenVars, crashes>>
  BY DEF StartupNext, Starts, Hello, LoadsMembership, MembershipFails, Joins,
         JoinFails, JoinEnds, LoadsCek, CekFails, CekPanics, Welcome,
         startFrame
<1> QED
  BY <1>2, <1>3, <1>4, <1>5 DEF TypeOK

LEMMA RunNotifierType ==
  ASSUME TypeOK, RunNext
  PROVE  NotifierType'
<1>0. /\ NotifierType /\ RunEvents \subseteq AgentEvents \cup RunEvents
      /\ {"task:start", "task:error", "task:finish"} \subseteq RunEvents
      /\ rtask \in Nat
  BY Words DEF TypeOK, TaskRunType, AgentEvents, RunEvents
<1>1. CASE StartBox \/ RunTaskFails \/ ReadLogs \/ FailRun
  BY <1>0, <1>1, NotifierKeepsType DEF StartBox, RunTaskFails, ReadLogs, FailRun
<1>2. CASE Mark \/ ResultTold
  BY <1>0, <1>2, NotifierKeepsType DEF Mark, ResultTold
<1>3. CASE LogsPanic \/ EndRun \/ FailureTold
  BY <1>3, EndsType DEF LogsPanic, EndRun, FailureTold
<1>4. CASE \/ \E t \in Tasks : Take(t)
           \/ DeleteOld \/ PullImage \/ CreateBox \/ SeesExit \/ WaitFails
           \/ StartMonitor \/ CreateMonitor \/ RunMonitor \/ MonitorFails
           \/ RemoveBox \/ StopMonitor
  BY <1>0, <1>4, NotifierKeepsType
  DEF Take, DeleteOld, PullImage, CreateBox, SeesExit, WaitFails,
      StartMonitor, CreateMonitor, RunMonitor, MonitorFails, RemoveBox,
      StopMonitor
<1> QED
  BY <1>1, <1>2, <1>3, <1>4 DEF RunNext

(* Where a run is when its task is needed.                                 *)
LEMMA BoxType ==
  ASSUME TypeOK, StateFollows, BoxFollows, RunNext
  PROVE  box' \in Boxes
<1>0. box \in Boxes /\ (pc \in InRun => rtask \in Tasks)
  BY DEF TypeOK, TaskRunType, StateFollows
<1>1. CASE DeleteOld \/ RemoveBox
  BY <1>0, <1>1, Words DEF DeleteOld, RemoveBox, AfterDelete
<1>2. CASE CreateBox
  BY <1>0, <1>2, Words DEF CreateBox, MakeBox, InRun, Before
<1>3. CASE StartBox \/ RunTaskFails
  <2>1. pc = "start" => box # NoBox
    BY DEF BoxFollows, NoBox
  <2> QED
    BY <1>0, <1>3, <2>1, Words DEF StartBox, RunTaskFails, InRun, Before
<1>4. CASE ~(DeleteOld \/ RemoveBox \/ CreateBox \/ StartBox \/ RunTaskFails)
  <2>1. box' = box
    BY <1>4
    DEF RunNext, Take, PullImage, Mark, SeesExit, WaitFails, StartMonitor,
        CreateMonitor, RunMonitor, MonitorFails, ReadLogs, LogsPanic, ResultTold,
        StopMonitor, EndRun, FailRun, FailureTold
  <2> QED
    BY <1>0, <2>1
<1> QED
  BY <1>1, <1>2, <1>3, <1>4

LEMMA RunStateType ==
  ASSUME TypeOK, StateFollows, RunNext
  PROVE  state' \in StatesOf(Tasks)
<1>0. state \in StatesOf(Tasks) /\ (pc \in InRun => rtask \in Tasks)
  BY DEF TypeOK, TaskRunType, StateFollows
<1>1. CASE RunTaskFails \/ FailRun
  BY <1>0, <1>1, Words DEF RunTaskFails, FailRun, InRun, Before, After
<1>2. CASE Mark \/ SeesExit
  BY <1>0, <1>2, Words DEF Mark, SeesExit, InRun, Before, Waiting
<1>3. CASE ~(RunTaskFails \/ FailRun \/ Mark \/ SeesExit)
  <2>1. state' = state
    BY <1>3
    DEF RunNext, Take, DeleteOld, PullImage, CreateBox, StartBox, WaitFails,
        StartMonitor, CreateMonitor, RunMonitor, MonitorFails, ReadLogs, LogsPanic,
        ResultTold, RemoveBox, StopMonitor, EndRun, FailureTold
  <2> QED
    BY <1>0, <2>1
<1> QED
  BY <1>1, <1>2, <1>3

LEMMA RunType ==
  ASSUME TypeOK, StateFollows, BoxFollows, RunNext
  PROVE  /\ TaskRunType'
         /\ pc' \in {"loop", "dead", "delete", "pull", "create", "start", "started",
                     "wait", "logs", "telling", "remove", "monCreate",
                     "monStart", "monStop", "end", "failing"}
<1>1. rtask' \in Tasks \cup {0} /\ failed' \in BOOLEAN /\ queue' \subseteq Tasks
  BY DEF RunNext, Take, DeleteOld, PullImage, CreateBox, StartBox, RunTaskFails,
         Mark, SeesExit, WaitFails, StartMonitor, CreateMonitor, RunMonitor,
         MonitorFails, ReadLogs, LogsPanic, ResultTold, RemoveBox, StopMonitor, EndRun,
         FailRun, FailureTold, RunEnds, TypeOK, TaskRunType
<1>2. /\ mon' \in {"none", "created", "running", "exited"}
      /\ timer' \in {"armed", "fired"} /\ watching' \in BOOLEAN
  BY DEF RunNext, Take, DeleteOld, PullImage, CreateBox, StartBox, RunTaskFails,
         Mark, SeesExit, WaitFails, StartMonitor, CreateMonitor, RunMonitor,
         MonitorFails, ReadLogs, LogsPanic, ResultTold, RemoveBox, StopMonitor, EndRun,
         FailRun, FailureTold, RunEnds, AfterStop, TypeOK, TaskRunType
<1>3. pc' \in {"loop", "dead", "delete", "pull", "create", "start", "started",
               "wait", "logs", "telling", "remove", "monCreate",
               "monStart", "monStop", "end", "failing"}
  BY DEF RunNext, Take, DeleteOld, PullImage, CreateBox, StartBox, RunTaskFails,
         Mark, SeesExit, WaitFails, StartMonitor, CreateMonitor, RunMonitor,
         MonitorFails, ReadLogs, LogsPanic, ResultTold, RemoveBox, StopMonitor, EndRun,
         FailRun, FailureTold, AfterMonitor
<1> QED
  BY <1>1, <1>2, <1>3, RunNotifierType, BoxType, RunStateType DEF TaskRunType

LEMMA ListenType ==
  ASSUME TypeOK, ListenNext
  PROVE  TypeOK'
<1>0. /\ NotifierType /\ Pending \in StatesOf(Tasks)
      /\ posted \in Tasks \cup {0} /\ seen \in Tasks \cup {0}
      /\ queue \subseteq Tasks /\ mail \subseteq Tasks /\ missed \subseteq Tasks
      /\ state \in StatesOf(Tasks) /\ MaxTask \in Nat
      /\ \A n \in Tasks \cup {0} : 1..n \subseteq Tasks
  BY Words, TaskRunAssumption DEF TypeOK, TaskRunType, Tasks
<1>1. NotifierType'
  BY <1>0, NotifierKeepsType
  DEF ListenNext, Loads, LoadFails, LoadPanics, Subscribes, LinkBreaks,
      HearsNew, listenFrame
<1>2. queue' \subseteq Tasks /\ lastAdded' \in Tasks \cup {0}
  <2>1. CASE Loads
    <3>1. Offered \subseteq Tasks
      BY <1>0 DEF Offered
    <3> QED
      BY <1>0, <2>1, <3>1 DEF Loads, TypeOK
  <2>2. CASE \E t \in Tasks : HearsNew(t)
    BY <1>0, <2>2 DEF HearsNew, LastAdded, TypeOK
  <2>3. CASE LoadFails \/ LoadPanics \/ Subscribes \/ LinkBreaks
    BY <1>0, <2>3 DEF LoadFails, LoadPanics, Subscribes, LinkBreaks, TypeOK
  <2> QED
    BY <2>1, <2>2, <2>3 DEF ListenNext
<1>3. mail' \subseteq Tasks /\ missed' \subseteq Tasks
  <2>1. CASE Subscribes
    <3>1. (seen + 1)..posted \subseteq 1..posted
      BY <1>0, Words
    <3> QED
      BY <1>0, <2>1, <3>1 DEF Subscribes
  <2>2. CASE ~Subscribes
    BY <1>0, <2>2
    DEF ListenNext, Loads, LoadFails, LoadPanics, LinkBreaks, HearsNew
  <2> QED
    BY <2>1, <2>2
<1>4. /\ state' \in StatesOf(Tasks) /\ seen' \in Tasks \cup {0}
      /\ link' \in {"down", "loaded", "up", "dead"}
  BY <1>0
  DEF ListenNext, Loads, LoadFails, LoadPanics, Subscribes, LinkBreaks,
      HearsNew, TypeOK
<1>5. UNCHANGED <<runVars, box, monVars, chainVars, ctxVars, lifeVars>>
  BY DEF ListenNext, Loads, LoadFails, LoadPanics, Subscribes, LinkBreaks,
         HearsNew, listenFrame
<1> QED
  BY <1>1, <1>2, <1>3, <1>4, <1>5 DEF TypeOK, TaskRunType

LEMMA IdleType ==
  ASSUME TypeOK, IdleNext
  PROVE  TypeOK'
<1>0. /\ NotifierType /\ "task:skip" \in AgentEvents
      /\ state \in StatesOf(Tasks) /\ \A t \in Tasks : t \in Nat
  BY Words DEF TypeOK, TaskRunType, AgentEvents
<1>1. NotifierType' /\ state' \in StatesOf(Tasks)
  <2>1. CASE SkipApplies
    <3>1. state.task \in Nat
      BY <1>0, <2>1, Words DEF SkipApplies, AwaitsManual, Pending
    <3> QED
      BY <1>0, <2>1, <3>1, Words, NotifierKeepsType DEF SkipApplies, idleFrame
  <2>2. CASE SkipTold
    BY <1>0, <2>2, NotifierKeepsType DEF SkipTold, idleFrame
  <2>3. CASE Confirms \/ ConfirmFails
    BY <1>0, <2>3, Words, NotifierKeepsType
    DEF Confirms, ConfirmFails, idleFrame
  <2> QED
    BY <2>1, <2>2, <2>3 DEF IdleNext
<1>2. lastRead' \in Tasks \cup {0} /\ lastTask' \in Tasks \cup {0}
  <2>1. CASE Confirms \/ ConfirmFails
    <3>1. state.task \in Tasks
      BY <1>0, <2>1, Words DEF Confirms, ConfirmFails, Pending
    <3>2. MaxId(lastRead, state.task) \in Tasks \cup {0}
      BY <3>1 DEF MaxId, TypeOK
    <3> QED
      BY <2>1, <3>1, <3>2 DEF Confirms, ConfirmFails, TypeOK
  <2>2. CASE SkipApplies \/ SkipTold
    BY <2>2 DEF SkipApplies, SkipTold, TypeOK
  <2> QED
    BY <2>1, <2>2 DEF IdleNext
<1>3. UNCHANGED idleFrame
  BY DEF IdleNext, SkipApplies, SkipTold, Confirms, ConfirmFails
<1> QED
  BY <1>1, <1>2, <1>3 DEF idleFrame, runFrame, TypeOK, TaskRunType

(* The user, docker, the notifier and a kill.                              *)
OutsideNext ==
  \/ NotifySteps \/ DockerSteps \/ Crash \/ UserPosts
  \/ \E d \in UserDevices : UserAuthorizes(d)
  \/ \E t \in Tasks : UserSkips(t)

LEMMA OutsideType ==
  ASSUME TypeOK, OutsideNext
  PROVE  TypeOK'
<1>1. CASE NotifySteps
  BY <1>1, NotifierStepType DEF NotifySteps, TypeOK, TaskRunType
<1>2. CASE DockerSteps
  <2>1. NotifierType'
    BY <1>2, NotifierKeepsType
    DEF DockerSteps, DockerNext, MonitorRemoved, BoxExits, TypeOK, TaskRunType
  <2>2. box' \in Boxes
    <3>0. box \in Boxes
      BY DEF TypeOK, TaskRunType
    <3>1. CASE MonitorRemoved
      BY <3>0, <3>1 DEF MonitorRemoved
    <3>2. ASSUME NEW st \in {"ok", "failed"}, BoxExits(st)
          PROVE  box' \in Boxes
      BY <3>0, <3>2, Words DEF BoxExits
    <3> QED
      BY <1>2, <3>1, <3>2 DEF DockerSteps, DockerNext
  <2> QED
    BY <1>2, <2>1, <2>2
    DEF DockerSteps, DockerNext, MonitorRemoved, BoxExits, TypeOK, TaskRunType
<1>3. CASE Crash
  <2>1. NotifierType' /\ crashes' \in 0..MaxCrashes
    BY <1>3, EndsType, ProcessAssumption DEF Crash, TypeOK
  <2>2. settled' \subseteq Tasks
    BY <1>3 DEF Crash, TypeOK
  <2> QED
    BY <1>3, <2>1, <2>2, EndsType DEF Crash, Startup, TypeOK, TaskRunType
<1>4. CASE \E d \in UserDevices : UserAuthorizes(d)
  BY <1>4, NotifierKeepsType, ProcessAssumption
  DEF UserAuthorizes, taskVars, TypeOK, TaskRunType
<1>5. CASE \E t \in Tasks : UserSkips(t)
  BY <1>5, NotifierKeepsType DEF UserSkips, taskVars, TypeOK, TaskRunType
<1>6. CASE UserPosts
  <2>1. NotifierType'
    BY <1>6, NotifierKeepsType DEF UserPosts, taskVars, TypeOK, TaskRunType
  <2>2. posted' \in Tasks
    BY <1>6, TaskRunAssumption DEF UserPosts, TypeOK, Tasks
  <2> QED
    BY <1>6, <2>1, <2>2 DEF UserPosts, taskVars, TypeOK, TaskRunType
<1> QED
  BY <1>1, <1>2, <1>3, <1>4, <1>5, <1>6 DEF OutsideNext

LEMMA Steps ==
  Next <=> StartupNext \/ ListenNext \/ IdleNext \/ RunSteps \/ OutsideNext
BY DEF Next, OutsideNext

LEMMA TypeStep ==
  TypeOK /\ StateFollows /\ BoxFollows /\ [Next]_vars => TypeOK'
<1> SUFFICES ASSUME TypeOK, StateFollows, BoxFollows, [Next]_vars
             PROVE  TypeOK'
  OBVIOUS
<1>1. CASE RunSteps
  BY <1>1, RunType DEF RunSteps, TypeOK
<1>2. CASE UNCHANGED vars
  BY <1>2, NotifierKeepsType DEF vars, taskVars, TypeOK, TaskRunType
<1> QED
  BY <1>1, <1>2, Steps, StartupType, ListenType, IdleType, OutsideType

-----------------------------------------------------------------------------
(* StateFollows: only a run moves what it is about, apart from a kill.     *)

(* What the steps outside a run leave alone.                               *)
LEMMA StartupKeeps ==
  ASSUME StartupNext
  PROVE  /\ UNCHANGED <<rtask, failed, box, queue, state, kept, monVars, posted,
                        lastRead, cleared, listenVars, lifeVars, device>>
         /\ pc \in Startup /\ pc' \in Startup \cup {"loop"}
BY DEF StartupNext, Starts, Hello, LoadsMembership, MembershipFails, Joins,
       JoinFails, JoinEnds, LoadsCek, CekFails, CekPanics, Welcome, startFrame,
       runFrame, Startup, AfterLoadError, AfterCekError

LEMMA ListenKeeps ==
  ASSUME ListenNext
  PROVE  /\ UNCHANGED listenFrame
         /\ state' # state => Unlocked /\ state' = Pending
BY DEF ListenNext, Loads, LoadFails, LoadPanics, Subscribes, LinkBreaks,
       HearsNew

LEMMA IdleKeeps ==
  ASSUME IdleNext
  PROVE  /\ UNCHANGED <<pc, queue, rtask, failed, box, monVars, kept, posted,
                        membership, device, cek, cleared, listenVars, lifeVars>>
         /\ pc \in {"loop", "dead"}
BY DEF IdleNext, SkipApplies, SkipTold, Confirms, ConfirmFails, idleFrame,
       runFrame, AtLoop, Unlocked

LEMMA RunKeeps ==
  ASSUME RunSteps
  PROVE  /\ UNCHANGED <<chainVars, ctxVars, listenVars, lifeVars>>
         /\ pc \notin Startup /\ pc' \notin Startup
         /\ \A t \in queue' : t \in queue
BY DEF RunSteps, RunNext, Take, DeleteOld, PullImage, CreateBox, StartBox,
       RunTaskFails, Mark, SeesExit, WaitFails, StartMonitor, CreateMonitor,
       RunMonitor, MonitorFails, ReadLogs, LogsPanic, ResultTold, RemoveBox,
       StopMonitor, EndRun, FailRun, FailureTold, AtLoop, Startup, AfterMonitor

LEMMA OutsideKeeps ==
  ASSUME OutsideNext, ~Crash
  PROVE  /\ UNCHANGED <<pc, rtask, failed, queue, state, timer, watching, told,
                        lastRead, lastTask, lastAdded, link, missed, cek,
                        lifeVars>>
         /\ box' = box \/ \E st \in {"ok", "failed"} : BoxExits(st)
BY DEF OutsideNext, NotifySteps, NotifierNext, SaveToFile, AskInflux,
       DockerSteps, DockerNext, MonitorRemoved, BoxExits, UserAuthorizes,
       UserPosts, UserSkips, taskVars

LEMMA StateStep ==
  TypeOK /\ StateFollows /\ [Next]_vars => StateFollows'
<1> SUFFICES ASSUME TypeOK, StateFollows, [Next]_vars
             PROVE  StateFollows'
  OBVIOUS
<1> USE DEF InRun, Before, Waiting, After
<1>0. /\ state \in StatesOf(Tasks) /\ rtask \in Tasks \cup {0}
      /\ \A t \in Tasks : t # 0
  BY Words DEF TypeOK, TaskRunType
<1>1. CASE StartupNext \/ IdleNext
  BY <1>1, StartupKeeps, IdleKeeps DEF StateFollows, Startup
<1>6. CASE ListenNext
  <2>1. UNCHANGED <<pc, rtask, failed, box>>
    BY <1>6, ListenKeeps DEF listenFrame
  <2>2. state' = state \/ pc \in {"loop", "dead"}
    BY <1>6, ListenKeeps DEF Unlocked
  <2> QED
    BY <2>1, <2>2 DEF StateFollows
<1>2. CASE Crash
  BY <1>2, EndsType DEF Crash, StateFollows
<1>3. CASE OutsideNext /\ ~Crash
  <2>1. UNCHANGED <<pc, rtask, failed, state>>
    BY <1>3, OutsideKeeps
  <2>2. pc \in {"logs", "telling"} => box' = box
    BY <1>3, OutsideKeeps DEF StateFollows, BoxExits
  <2> QED
    BY <2>1, <2>2 DEF StateFollows
<1>4. CASE UNCHANGED vars
  BY <1>4 DEF vars, taskVars, StateFollows
<1>5. CASE RunSteps
  <2>1. ASSUME NEW t \in Tasks, Take(t)
        PROVE  StateFollows'
    BY <1>0, <2>1 DEF Take, AtLoop, StateFollows
  <2>2. CASE DeleteOld \/ PullImage \/ CreateBox \/ StartBox
    BY <2>2 DEF DeleteOld, PullImage, CreateBox, StartBox, StateFollows
  <2>3. CASE RunTaskFails
    BY <2>3 DEF RunTaskFails, StateFollows
  <2>4. CASE Mark
    BY <2>4 DEF Mark, StateFollows
  <2>5. CASE SeesExit
    BY <2>5 DEF SeesExit, StateFollows
  <2>6. CASE WaitFails
    BY <2>6 DEF WaitFails, StateFollows
  <2>7. CASE StartMonitor \/ CreateMonitor \/ RunMonitor \/ MonitorFails
    BY <2>7
    DEF StartMonitor, CreateMonitor, RunMonitor, MonitorFails, AfterMonitor,
        StateFollows
  <2>8. CASE ReadLogs \/ ResultTold
    BY <2>8 DEF ReadLogs, LogsPanic, ResultTold, StateFollows
  <2>9. CASE RemoveBox \/ StopMonitor
    BY <2>9 DEF RemoveBox, StopMonitor, StateFollows
  <2>10. CASE LogsPanic \/ EndRun \/ FailureTold
    BY <2>10 DEF LogsPanic, EndRun, FailureTold, RunEnds, StateFollows
  <2>11. CASE FailRun
    BY <2>11 DEF FailRun, StateFollows
  <2> QED
    BY <1>5, <2>1, <2>2, <2>3, <2>4, <2>5, <2>6, <2>7, <2>8, <2>9, <2>10,
       <2>11
    DEF RunSteps, RunNext
<1> QED
  BY <1>1, <1>2, <1>3, <1>4, <1>5, <1>6, Steps

-----------------------------------------------------------------------------
(* BoxFollows, TimerFollows and NoteFollows: a run has its own container,  *)
(* its timer and its notification to itself.                               *)
LEMMA RunBox ==
  ASSUME TypeOK, StateFollows, BoxFollows, RunNext
  PROVE  BoxFollows'
<1> USE DEF InRun, Before, Waiting, After
<1>0. /\ box \in Boxes
      /\ \A b \in Boxes : [b EXCEPT !.st = "running"].task = b.task
      /\ \A b \in Boxes : [b EXCEPT !.st = "running"].st = "running"
  BY DEF TypeOK, TaskRunType, Boxes, NoBox
<1>1. CASE CreateBox
  BY <1>1 DEF CreateBox, MakeBox, BoxFollows
<1>2. CASE StartBox
  <2>1. box.task = rtask /\ box' = [box EXCEPT !.st = "running"]
    BY <1>2 DEF StartBox, BoxFollows
  <2> QED
    BY <1>0, <1>2, <2>1 DEF StartBox, BoxFollows
<1>3. CASE Mark \/ SeesExit \/ StartMonitor \/ CreateMonitor \/ RunMonitor
           \/ MonitorFails \/ ReadLogs
  BY <1>3
  DEF Mark, SeesExit, StartMonitor, CreateMonitor, RunMonitor, MonitorFails,
      AfterMonitor, ReadLogs, BoxFollows
<1>4. CASE \/ \E t \in Tasks : Take(t)
           \/ DeleteOld \/ PullImage \/ RunTaskFails \/ WaitFails \/ LogsPanic
           \/ ResultTold \/ RemoveBox \/ StopMonitor \/ EndRun \/ FailRun
           \/ FailureTold
  <2>1. pc' \notin Waiting \cup {"start", "started", "logs", "telling"}
    BY <1>4
    DEF Take, DeleteOld, PullImage, RunTaskFails, WaitFails, LogsPanic,
        ResultTold, RemoveBox, StopMonitor, EndRun, FailRun, FailureTold
  <2> QED
    BY <2>1 DEF BoxFollows
<1> QED
  BY <1>1, <1>2, <1>3, <1>4 DEF RunNext

LEMMA RunTimerNote ==
  ASSUME TimerFollows, NoteFollows, RunNext
  PROVE  TimerFollows' /\ NoteFollows'
BY DEF RunNext, Take, AtLoop, DeleteOld, PullImage, CreateBox, StartBox,
       RunTaskFails, Mark, SeesExit, WaitFails, StartMonitor, CreateMonitor,
       RunMonitor, MonitorFails, AfterMonitor, ReadLogs, LogsPanic, ResultTold, RemoveBox,
       StopMonitor, EndRun, FailRun, FailureTold, TimerFollows, NoteFollows,
       InRun, Before, Waiting, After

LEMMA ContainerStep ==
  /\ TypeOK /\ StateFollows /\ BoxFollows /\ TimerFollows /\ NoteFollows
  /\ [Next]_vars
  => BoxFollows' /\ TimerFollows' /\ NoteFollows'
<1> SUFFICES ASSUME TypeOK, StateFollows, BoxFollows, TimerFollows, NoteFollows,
                    [Next]_vars
             PROVE  BoxFollows' /\ TimerFollows' /\ NoteFollows'
  OBVIOUS
<1> USE DEF InRun, Before, Waiting, After
<1>1. CASE StartupNext \/ IdleNext
  <2>1. pc' \in Startup \cup {"loop", "dead"}
    BY <1>1, StartupKeeps, IdleKeeps
  <2> QED
    BY <2>1 DEF Startup, BoxFollows, TimerFollows, NoteFollows
<1>6. CASE ListenNext
  BY <1>6, ListenKeeps DEF listenFrame, BoxFollows, TimerFollows, NoteFollows
<1>2. CASE RunSteps
  BY <1>2, RunBox, RunTimerNote DEF RunSteps
<1>3. CASE Crash
  BY <1>3 DEF Crash, BoxFollows, TimerFollows, NoteFollows
<1>4. CASE OutsideNext /\ ~Crash
  <2>1. UNCHANGED <<pc, rtask, timer>>
    BY <1>4, OutsideKeeps
  <2>2. BoxFollows'
    <3>1. CASE box' = box
      BY <2>1, <3>1 DEF BoxFollows
    <3>2. ASSUME NEW st \in {"ok", "failed"}, BoxExits(st)
          PROVE  BoxFollows'
      <4>1. box \in Boxes
        BY DEF TypeOK, TaskRunType
      <4>2. box'.task = box.task /\ box'.st = st /\ box.st = "running"
        BY <3>2, <4>1 DEF BoxExits, Boxes, NoBox
      <4> QED
        BY <2>1, <4>2 DEF BoxFollows
    <3> QED
      BY <1>4, <3>1, <3>2, OutsideKeeps
  <2>3. note = NoNote => note' = NoNote
    <3>1. note = NoNote => ~NotifierNext
      BY NotifierAssumption DEF NotifierNext, SaveToFile, AskInflux, NoNote
    <3>2. ~NotifySteps => note' = note
      BY <1>4
      DEF OutsideNext, DockerSteps, DockerNext, MonitorRemoved, BoxExits,
          UserAuthorizes, UserPosts, UserSkips, taskVars
    <3> QED
      BY <3>1, <3>2 DEF NotifySteps
  <2> QED
    BY <2>1, <2>2, <2>3 DEF TimerFollows, NoteFollows
<1>5. CASE UNCHANGED vars
  BY <1>5 DEF vars, taskVars, BoxFollows, TimerFollows, NoteFollows
<1> QED
  BY <1>1, <1>2, <1>3, <1>4, <1>5, <1>6, Steps

-----------------------------------------------------------------------------
(* ToldFollows.                                                            *)
LEMMA AppendToOne ==
  ASSUME NEW S, NEW x \in S, NEW y \in S
  PROVE  Append(<<x>>, y) = <<x, y>>
<1> DEFINE s == Append(<<x>>, y)
           t == <<x, y>>
<1>1. <<x>> \in Seq(S) /\ Len(<<x>>) = 1 /\ <<x>>[1] = x
  OBVIOUS
<1>2. t \in Seq(S) /\ Len(t) = 2
  OBVIOUS
<1>3. t[1] = x /\ t[2] = y
  OBVIOUS
<1>4. s \in Seq(S) /\ Len(s) = 2 /\ s[1] = x /\ s[2] = y
  BY <1>1, AppendProperties
<1>5. \A i \in 1..Len(s) : i = 1 \/ i = 2
  BY <1>4
<1>6. \A i \in 1..Len(s) : s[i] = t[i]
  BY <1>3, <1>4, <1>5
<1> HIDE DEF s, t
<1>7. s = t
  BY <1>2, <1>4, <1>6, SeqEqual
<1> QED
  BY <1>7 DEF s, t

LEMMA Appends ==
  ASSUME NEW event \in RunEvents
  PROVE  /\ Append(<<>>, event) = <<event>>
         /\ Append(<<"task:start">>, event) = <<"task:start", event>>
<1>1. "task:start" \in RunEvents
  BY DEF RunEvents
<1> QED
  BY <1>1, AppendToOne

LEMMA AgentNoteTold ==
  ASSUME NEW event \in AgentEvents, NEW task, Notify(event, task)
  PROVE  told' = told
BY DEF Notify, AgentEvents, RunEvents

LEMMA ToldStep ==
  TypeOK /\ StateFollows /\ ToldFollows /\ [Next]_vars => ToldFollows'
<1> SUFFICES ASSUME TypeOK, StateFollows, ToldFollows, [Next]_vars
             PROVE  ToldFollows'
  OBVIOUS
<1> USE DEF Before, Waiting, After, Startup
<1>1. CASE StartupNext \/ IdleNext
  <2>1. told' = told
    BY <1>1, AgentNoteTold
    DEF StartupNext, Starts, Hello, LoadsMembership, MembershipFails, Joins,
        JoinFails, JoinEnds, LoadsCek, CekFails, CekPanics, Welcome, IdleNext,
        SkipApplies, SkipTold, Confirms, ConfirmFails, AgentEvents
  <2> QED
    BY <1>1, <2>1, StartupKeeps, IdleKeeps DEF ToldFollows, Startup
<1>6. CASE ListenNext
  <2>1. UNCHANGED <<pc, told, failed>> /\ (state' = state \/ Unlocked)
    BY <1>6, ListenKeeps DEF listenFrame
  <2> QED
    BY <2>1 DEF ToldFollows, Outcome, Unlocked
<1>2. CASE Crash
  BY <1>2, EndsType DEF Crash, RunEnds, Startup, ToldFollows
<1>3. CASE OutsideNext /\ ~Crash
  BY <1>3, OutsideKeeps DEF ToldFollows, Outcome
<1>4. CASE UNCHANGED vars
  BY <1>4 DEF vars, taskVars, ToldFollows, Outcome
<1>5. CASE RunSteps
  <2>1. ASSUME NEW t \in Tasks, Take(t)
        PROVE  ToldFollows'
    BY <2>1 DEF Take, AtLoop, ToldFollows, Startup
  <2>2. CASE DeleteOld \/ PullImage \/ CreateBox
    BY <2>2 DEF DeleteOld, PullImage, CreateBox, ToldFollows
  <2>3. CASE StartBox
    BY <2>3, Appends DEF StartBox, Notify, RunEvents, ToldFollows
  <2>4. CASE RunTaskFails
    BY <2>4, Appends DEF RunTaskFails, Notify, RunEvents, ToldFollows
  <2>5. CASE Mark \/ SeesExit
    BY <2>5 DEF Mark, SeesExit, ToldFollows
  <2>6. CASE WaitFails
    BY <2>6 DEF WaitFails, ToldFollows
  <2>7. CASE StartMonitor \/ CreateMonitor \/ RunMonitor \/ MonitorFails
    BY <2>7
    DEF StartMonitor, CreateMonitor, RunMonitor, MonitorFails, AfterMonitor,
        ToldFollows
  <2>8. CASE ReadLogs
    <3>1. /\ told = <<"task:start">> /\ ~failed
          /\ Outcome \in RunEvents /\ state' = state
          /\ (IF box.st = "ok" THEN "task:finish" ELSE "task:error") = Outcome
      BY <2>8
      DEF ReadLogs, ToldFollows, Outcome, StateFollows, Complete, Failed,
          RunEvents, InRun
    <3>2. told' = <<"task:start", Outcome>>
      BY <2>8, <3>1, Appends DEF ReadLogs, Notify
    <3> QED
      BY <2>8, <3>1, <3>2 DEF ReadLogs, ToldFollows, Outcome
  <2>9. CASE ResultTold \/ RemoveBox \/ StopMonitor
    BY <2>9
    DEF ResultTold, RemoveBox, StopMonitor, ToldFollows, StateFollows, Outcome
  <2>10. CASE LogsPanic \/ EndRun \/ FailureTold
    BY <2>10 DEF LogsPanic, EndRun, FailureTold, RunEnds, ToldFollows
  <2>11. CASE FailRun
    BY <2>11, Appends
    DEF FailRun, InternalError, Notify, RunEvents, ToldFollows
  <2> QED
    BY <1>5, <2>1, <2>2, <2>3, <2>4, <2>5, <2>6, <2>7, <2>8, <2>9, <2>10,
       <2>11
    DEF RunSteps, RunNext
<1> QED
  BY <1>1, <1>2, <1>3, <1>4, <1>5, <1>6, Steps

-----------------------------------------------------------------------------
(* SaveFollows and KeyFollows.                                             *)
LEMMA SaveStep ==
  TypeOK /\ StateFollows /\ SaveFollows /\ [Next]_vars => SaveFollows'
<1> SUFFICES ASSUME TypeOK, StateFollows, SaveFollows, [Next]_vars
             PROVE  SaveFollows'
  OBVIOUS
<1>0. note \in Notes
  BY DEF TypeOK, TaskRunType, NotifierType
<1>1. CASE StartupNext \/ IdleNext
  BY <1>1, StartupKeeps, IdleKeeps DEF SaveFollows, Startup
<1>7. CASE ListenNext
  BY <1>7, ListenKeeps DEF listenFrame, SaveFollows
<1>2. CASE Crash
  BY <1>2 DEF Crash, SaveFollows
<1>3. CASE NotifySteps
  <2>1. UNCHANGED <<pc, failed>>
    BY <1>3 DEF NotifySteps
  <2>2. CASE SaveToFile
    BY <1>0, <2>1, <2>2 DEF SaveToFile, SaveFollows, Notes
  <2>3. CASE AskInflux
    <3>1. note'.file = note.file /\ kept' = kept
      BY <1>0, <2>3 DEF AskInflux, Notes
    <3> QED
      BY <2>1, <3>1 DEF SaveFollows
  <2> QED
    BY <1>3, <2>2, <2>3 DEF NotifySteps, NotifierNext
<1>4. CASE OutsideNext /\ ~Crash /\ ~NotifySteps
  <2>1. UNCHANGED <<pc, failed, note, kept>>
    BY <1>4
    DEF OutsideNext, DockerSteps, DockerNext, MonitorRemoved, BoxExits,
        UserAuthorizes, UserPosts, UserSkips, taskVars
  <2> QED
    BY <2>1 DEF SaveFollows
<1>5. CASE UNCHANGED vars
  BY <1>5 DEF vars, taskVars, SaveFollows
<1>6. CASE RunSteps
  <2>1. CASE ReadLogs
    BY <2>1 DEF ReadLogs, Notify, SaveFollows
  <2>2. CASE ResultTold
    BY <2>2 DEF ResultTold, NoteReturned, SaveFollows
  <2>3. CASE WaitFails
    BY <2>3 DEF WaitFails, SaveFollows
  <2>4. CASE ~ReadLogs /\ ~ResultTold /\ ~WaitFails
    <3>1. pc' \notin {"telling", "remove"}
      BY <1>6, <2>4
      DEF RunSteps, RunNext, Take, DeleteOld, PullImage, CreateBox, StartBox,
          RunTaskFails, Mark, SeesExit, StartMonitor, CreateMonitor,
          RunMonitor, MonitorFails, RemoveBox, StopMonitor, EndRun, FailRun,
          FailureTold, LogsPanic, AfterMonitor
    <3> QED
      BY <3>1 DEF SaveFollows
  <2> QED
    BY <2>1, <2>2, <2>3, <2>4
<1> QED
  BY <1>1, <1>2, <1>3, <1>4, <1>5, <1>6, <1>7, Steps

LEMMA KeyStep ==
  TypeOK /\ KeyFollows /\ [Next]_vars => KeyFollows'
<1> SUFFICES ASSUME TypeOK, KeyFollows, [Next]_vars
             PROVE  KeyFollows'
  OBVIOUS
<1> USE DEF KeyFollows, KeyBeforeTasks, Startup
<1>1. CASE StartupNext
  BY <1>1
  DEF StartupNext, Starts, Hello, LoadsMembership, MembershipFails, Joins,
      JoinFails, JoinEnds, LoadsCek, CekFails, CekPanics, Welcome,
      AfterLoadError, AfterCekError
<1>2. CASE IdleNext \/ ListenNext
  BY <1>2, IdleKeeps, ListenKeeps DEF listenFrame
<1>3. CASE RunSteps
  BY <1>3, RunKeeps
<1>4. CASE OutsideNext
  <2>1. ASSUME NEW d \in UserDevices, UserAuthorizes(d)
        PROVE  KeyFollows'
    BY <2>1 DEF UserAuthorizes, taskVars
  <2>2. CASE Crash
    BY <2>2 DEF Crash
  <2>3. CASE NotifySteps \/ DockerSteps \/ UserPosts \/ \E t \in Tasks : UserSkips(t)
    BY <2>3
    DEF NotifySteps, DockerSteps, DockerNext, MonitorRemoved, BoxExits,
        UserPosts, UserSkips, taskVars
  <2> QED
    BY <1>4, <2>1, <2>2, <2>3 DEF OutsideNext
<1>5. CASE UNCHANGED vars
  BY <1>5 DEF vars, taskVars
<1> QED
  BY <1>1, <1>2, <1>3, <1>4, <1>5, Steps

-----------------------------------------------------------------------------
(* PostedFollows, ListenFollows, OrderFollows and LastFollows.             *)
Follows == PostedFollows /\ ListenFollows /\ OrderFollows /\ LastFollows

(* What they need to know of the numbers.                                  *)
LEMMA Numbers ==
  ASSUME TypeOK
  PROVE  /\ \A t \in Tasks : t \in Nat /\ t # 0
         /\ {rtask, posted, lastRead, lastTask, lastAdded, seen} \subseteq Nat
         /\ state \in StatesOf(Tasks) /\ state.task \in Nat
         /\ {queue, mail, missed, cleared, settled} \subseteq SUBSET Tasks
         /\ \A n \in Nat : n <= posted /\ n # 0 => n \in Tasks
         /\ Pending.task = 0 /\ Pending.st # "complete"
<1>1. state \in StatesOf(Tasks)
  BY DEF TypeOK, TaskRunType
<1>2. state.task \in Nat
  <2>1. CASE state = Pending
    BY <2>1 DEF Pending
  <2>2. CASE state # Pending
    BY <1>1, <2>2, Words
  <2> QED
    BY <2>1, <2>2
<1>3. {rtask, posted, lastRead, lastTask, lastAdded, seen} \subseteq Nat
  BY Words DEF TypeOK, TaskRunType
<1>4. \A n \in Nat : n <= posted /\ n # 0 => n \in Tasks
  BY TaskRunAssumption DEF TypeOK, Tasks
<1> QED
  BY <1>1, <1>2, <1>3, <1>4, Words DEF TypeOK, TaskRunType, Pending

(* Steps that leave all of it alone.                                       *)
LEMMA NothingMoves ==
  ASSUME Follows, pc' = pc,
         UNCHANGED <<rtask, queue, state, posted, lastRead, cleared, lastTask,
                     listenVars, settled>>
  PROVE  Follows'
BY DEF Follows, PostedFollows, ListenFollows, NeedsNoRun, OrderFollows,
       DoneBelow, LastFollows, Known, SettledStaysSettled, SettledOut

(* A skip of the user takes nothing back.                                  *)
LEMMA UserSkipsOrder ==
  ASSUME TypeOK, Follows, NEW t \in Tasks, UserSkips(t)
  PROVE  Follows'
<1>1. /\ t <= posted /\ cleared' = cleared \cup {t} /\ pc' = pc
      /\ UNCHANGED <<rtask, queue, state, posted, lastRead, lastTask,
                     listenVars, settled>>
  BY DEF UserSkips, taskVars
<1>2. PostedFollows'
  BY <1>1 DEF Follows, PostedFollows
<1>3. ListenFollows'
  BY <1>1 DEF Follows, ListenFollows, NeedsNoRun
<1>4. OrderFollows'
  BY <1>1 DEF Follows, OrderFollows, DoneBelow, NeedsNoRun
<1>5. LastFollows'
  BY <1>1
  DEF Follows, LastFollows, Known, SettledStaysSettled, SettledOut
<1> QED
  BY <1>2, <1>3, <1>4, <1>5 DEF Follows

(* A new message is ahead of everything.                                   *)
LEMMA UserPostsOrder ==
  ASSUME TypeOK, Follows, UserPosts
  PROVE  Follows'
<1>1. /\ posted' = posted + 1 /\ pc' = pc
      /\ UNCHANGED <<rtask, queue, state, lastRead, cleared, lastTask, link,
                     lastAdded, missed, settled>>
      /\ IF link = "up" THEN mail' = mail \cup {posted'} /\ seen' = posted'
                        ELSE UNCHANGED <<mail, seen>>
  BY DEF UserPosts, taskVars
<1>2. /\ lastAdded <= seen /\ seen <= posted /\ lastRead <= posted
      /\ rtask <= posted /\ state.task <= posted
      /\ \A t \in cleared \cup settled : t <= posted
      /\ \A q \in queue : q <= lastAdded
  BY DEF Follows, PostedFollows
<1>3. posted' \notin settled
  BY <1>1, <1>2, Numbers
<1>4. PostedFollows'
  <2>1. CASE link = "up"
    <3>1. \A t \in mail' : t <= seen' /\ t \notin settled
      BY <1>1, <1>2, <1>3, <2>1, Numbers DEF Follows, PostedFollows
    <3>2. \A t \in mail' : t > lastAdded =>
            t > lastRead /\ t > rtask /\ t > state.task
      BY <1>1, <1>2, <2>1, Numbers DEF Follows, PostedFollows
    <3> QED
      BY <1>1, <1>2, <2>1, <3>1, <3>2, Numbers DEF PostedFollows
  <2>2. CASE link # "up"
    <3>1. \A t \in mail' : t <= seen' /\ t \notin settled
      BY <1>1, <2>2 DEF Follows, PostedFollows
    <3>2. \A t \in mail' : t > lastAdded =>
            t > lastRead /\ t > rtask /\ t > state.task
      BY <1>1, <2>2 DEF Follows, PostedFollows
    <3> QED
      BY <1>1, <1>2, <2>2, <3>1, <3>2, Numbers DEF PostedFollows
  <2> QED
    BY <2>1, <2>2
<1>5. ListenFollows'
  BY <1>1, <1>2, Numbers DEF Follows, ListenFollows, NeedsNoRun
<1>6. OrderFollows'
  BY <1>1 DEF Follows, OrderFollows, DoneBelow, NeedsNoRun
<1>7. LastFollows'
  BY <1>1
  DEF Follows, LastFollows, Known, SettledStaysSettled, SettledOut
<1> QED
  BY <1>4, <1>5, <1>6, <1>7 DEF Follows

LEMMA CrashOrder ==
  ASSUME TypeOK, Follows, Crash
  PROVE  Follows'
<1>1. /\ rtask' = 0 /\ queue' = {} /\ pc' = "down" /\ link' = "down"
      /\ mail' = {} /\ lastAdded' = 0 /\ seen' = 0
      /\ settled' = cleared \cup {t \in Tasks : t <= lastRead}
      /\ UNCHANGED <<state, posted, lastRead, cleared, missed>>
  BY EndsType DEF Crash
<1>2. PostedFollows'
  BY <1>1, Numbers DEF Follows, PostedFollows
<1>3. ListenFollows'
  BY <1>1, Numbers DEF ListenFollows
<1>4. OrderFollows'
  BY <1>1, Numbers DEF Follows, OrderFollows, DoneBelow, NeedsNoRun
<1>5. LastFollows'
  <2>1. 0 \notin settled'
    BY <1>1, Numbers
  <2> QED
    BY <1>1, <2>1 DEF LastFollows, Known, SettledStaysSettled, SettledOut
<1> QED
  BY <1>2, <1>3, <1>4, <1>5 DEF Follows

LEMMA StartupOrder ==
  ASSUME TypeOK, Follows, StartupNext
  PROVE  Follows'
<1>1. /\ UNCHANGED <<rtask, queue, state, posted, lastRead, cleared, listenVars,
                     settled>>
      /\ pc \in Startup
  BY StartupKeeps
<1>2. PostedFollows' /\ ListenFollows' /\ OrderFollows'
  BY <1>1
  DEF Follows, PostedFollows, ListenFollows, NeedsNoRun, OrderFollows, DoneBelow
<1>3. \/ pc' \in {"down", "hello", "auth", "join"}
      \/ Known /\ lastTask' = lastTask
      \/ lastTask' = lastRead
  BY DEF StartupNext, Starts, Hello, LoadsMembership, ReadsLastTask,
         MembershipFails, AfterLoadError, Joins, JoinFails, JoinEnds, LoadsCek,
         CekFails, AfterCekError, CekPanics, Welcome, Known
<1>4. LastFollows'
  BY <1>1, <1>3, Numbers
  DEF Follows, LastFollows, Known, SettledStaysSettled, SettledOut
<1> QED
  BY <1>2, <1>4 DEF Follows

-----------------------------------------------------------------------------
(* The listener and the processor.                                         *)

(* Both work while the runner has no task.                                 *)
LEMMA BetweenRuns ==
  ASSUME StateFollows, Unlocked
  PROVE  rtask = 0 /\ Known /\ pc \notin Startup
BY DEF StateFollows, Unlocked, InRun, Before, Waiting, After, Known, Startup

LEMMA LoadsOrder ==
  ASSUME TypeOK, StateFollows, Follows, Loads
  PROVE  Follows'
<1> DEFINE new == {t \in Offered : CanAddTask(lastAdded, t)}
<1>1. /\ rtask = 0 /\ rtask' = 0 /\ Known /\ pc' = pc /\ pc \notin Startup
      /\ link' = "loaded" /\ seen' = posted /\ queue' = queue \cup new
      /\ UNCHANGED <<posted, lastRead, cleared, lastTask, mail, missed, settled>>
  BY BetweenRuns DEF Loads, listenFrame
<1>2. \A t : t \in new <=> /\ t \in 1..posted /\ t > lastTask
                           /\ t \notin cleared /\ t > lastAdded
  BY DEF Offered, CanAddTask
<1>3. new \subseteq Tasks
  BY <1>2, Numbers
<1>4. /\ lastAdded' \in new \cup {lastAdded} /\ \A t \in new : t <= lastAdded'
      /\ lastAdded' \in Nat /\ lastAdded <= lastAdded' /\ lastAdded' <= posted
  <2>1. lastAdded' \in new \cup {lastAdded} /\ \A t \in new : t <= lastAdded'
    BY DEF Loads
  <2> QED
    BY <1>2, <1>3, <2>1, Numbers DEF Follows, PostedFollows
<1> HIDE DEF new
<1>5. /\ state' = state \/ (state.task \in cleared /\ state' = Pending)
      /\ lastTask <= lastRead
  BY <1>1 DEF Loads, Follows, LastFollows
<1>6. PostedFollows'
  <2>1. \A t \in mail : t <= posted
    BY Numbers DEF Follows, PostedFollows
  <2>2. \A t \in mail : t > lastAdded' =>
          t > lastRead /\ t > 0 /\ t > state'.task
    BY <1>4, <1>5, Numbers DEF Follows, PostedFollows
  <2>3. state'.task <= posted
    BY <1>5, Numbers DEF Follows, PostedFollows
  <2>4. ASSUME NEW q \in queue'
        PROVE  q <= lastAdded'
    <3>1. CASE q \in new
      BY <1>4, <3>1
    <3>2. CASE q \in queue
      BY <1>4, <3>2, Numbers DEF Follows, PostedFollows
    <3> QED
      BY <1>1, <3>1, <3>2
  <2> QED
    BY <1>1, <1>4, <2>1, <2>2, <2>3, <2>4, Numbers DEF Follows, PostedFollows
<1>7. ListenFollows'
  <2>1. ASSUME NEW u \in Tasks, u <= lastAdded'
        PROVE  u \in queue' \cup {rtask', state'.task} \/ NeedsNoRun(u)
    <3>1. CASE u <= lastAdded
      BY <1>1, <1>5, <3>1, Numbers DEF Follows, ListenFollows, NeedsNoRun
    <3>2. CASE u > lastAdded
      <4>1. u \in 1..posted
        BY <1>4, <2>1, Numbers
      <4> QED
        BY <1>1, <1>2, <1>5, <3>2, <4>1, Numbers DEF NeedsNoRun
    <3> QED
      BY <3>1, <3>2, Numbers
  <2>2. ASSUME NEW u \in Tasks, lastAdded' < u, u <= posted
        PROVE  NeedsNoRun(u)
    <3>1. u \notin new /\ u > lastAdded /\ u \in 1..posted
      BY <1>4, <2>2, Numbers
    <3> QED
      BY <1>2, <1>5, <3>1, Numbers DEF NeedsNoRun
  <2>3. \A u : NeedsNoRun(u)' <=> NeedsNoRun(u)
    BY <1>1 DEF NeedsNoRun
  <2> QED
    BY <1>1, <2>1, <2>2, <2>3 DEF ListenFollows
<1>8. OrderFollows'
  <2>1. DoneBelow(rtask)' /\ DoneBelow(state.task)'
    BY <1>1, <1>5, Numbers
    DEF Follows, OrderFollows, DoneBelow, NeedsNoRun
  <2>2. ASSUME missed = {}
        PROVE  /\ state'.st = "complete" => state'.task >= lastRead
               /\ \A q \in queue' :
                    /\ q >= lastRead /\ q >= 0
                    /\ state'.st = "complete" => q >= state'.task
    <3>1. \A q \in new : q >= lastRead
      BY <1>1, <1>2, <1>3, <2>2, Numbers DEF Follows, LastFollows
    <3>2. \A q \in new : state.st = "complete" => q >= state.task
      <4> SUFFICES ASSUME NEW q \in new, state.st = "complete", q < state.task
                   PROVE  FALSE
        BY <1>3, Numbers
      <4>1. q \in Tasks /\ q > lastTask /\ q \notin cleared
        BY <1>2, <1>3
      <4>2. q <= lastRead
        BY <2>2, <4>1 DEF Follows, OrderFollows, DoneBelow, NeedsNoRun
      <4>3. state = Complete(q)
        BY <1>1, <2>2, <4>1, <4>2 DEF Follows, LastFollows
      <4> QED
        BY <4>3, <4>1, Numbers DEF Complete
    <3>3. /\ state.st = "complete" => state.task >= lastRead
          /\ \A q \in queue : /\ q >= lastRead
                              /\ state.st = "complete" => q >= state.task
      BY <2>2 DEF Follows, OrderFollows
    <3>4. \A q \in queue' : q \in Tasks
      BY <1>1, <1>3, Numbers
    <3> QED
      BY <1>1, <1>5, <3>1, <3>2, <3>3, <3>4, Numbers
  <2> QED
    BY <1>1, <2>1, <2>2 DEF OrderFollows
<1>9. LastFollows'
  <2>1. missed = {} => \A u \in Tasks :
          lastTask < u /\ u <= lastRead =>
            u \in cleared \/ (u = lastRead /\ state' = Complete(u))
    BY <1>1, <1>5 DEF Follows, LastFollows, Complete
  <2>2. missed = {} => \A t \in new : t \notin settled
    BY <1>1, <1>2, <1>3, Numbers DEF Follows, LastFollows
  <2>3. SettledStaysSettled'
    BY <1>1, <2>2
    DEF Follows, LastFollows, SettledStaysSettled, SettledOut
  <2> QED
    BY <1>1, <2>1, <2>3 DEF Follows, LastFollows, Known
<1> QED
  BY <1>6, <1>7, <1>8, <1>9 DEF Follows

(* A message from the stream is refused, or is ahead of all that was done. *)
LEMMA HearsOrder ==
  ASSUME TypeOK, StateFollows, Follows, NEW t \in Tasks, HearsNew(t)
  PROVE  Follows'
<1>1. /\ rtask = 0 /\ rtask' = 0 /\ pc' = pc /\ pc \notin Startup
      /\ t \in mail /\ \A other \in mail : t <= other
      /\ mail' = mail \ {t}
      /\ UNCHANGED <<state, posted, lastRead, cleared, lastTask, link, seen,
                     missed, settled>>
  BY BetweenRuns DEF HearsNew, listenFrame
<1>2. \/ t <= lastAdded /\ UNCHANGED <<queue, lastAdded>>
      \/ t > lastAdded /\ queue' = queue \cup {t} /\ lastAdded' = t
  BY Numbers DEF HearsNew, CanAddTask, LastAdded
<1>3. /\ t <= seen /\ t \notin settled
      /\ t > lastAdded => t > lastRead /\ t > state.task
  BY <1>1 DEF Follows, PostedFollows
<1>4. PostedFollows'
  <2>1. \A u \in mail' : u > lastAdded' =>
          u > lastRead /\ u > rtask' /\ u > state.task
    BY <1>1, <1>2, Numbers DEF Follows, PostedFollows
  <2>2. \A q \in queue' : q <= lastAdded'
    BY <1>2, Numbers DEF Follows, PostedFollows
  <2> QED
    BY <1>1, <1>2, <1>3, <2>1, <2>2, Numbers DEF Follows, PostedFollows
<1>5. ListenFollows'
  <2>1. ASSUME NEW u \in Tasks, u <= lastAdded'
        PROVE  u \in queue' \cup {rtask', state.task} \/ NeedsNoRun(u)
    <3>1. CASE u <= lastAdded
      BY <1>1, <1>2, <3>1 DEF Follows, ListenFollows
    <3>2. CASE u > lastAdded /\ u # t
      <4>1. u < t /\ u <= seen /\ u \notin mail
        BY <1>1, <1>2, <1>3, <2>1, <3>2, Numbers
      <4> QED
        BY <3>2, <4>1 DEF Follows, ListenFollows
    <3>3. CASE u > lastAdded /\ u = t
      BY <1>2, <3>3, Numbers
    <3> QED
      BY <3>1, <3>2, <3>3, Numbers
  <2>2. ASSUME NEW u \in Tasks, lastAdded' < u, u <= seen
        PROVE  u \in mail' \/ NeedsNoRun(u)
    BY <1>1, <1>2, <2>2, Numbers DEF Follows, ListenFollows
  <2>3. \A u : NeedsNoRun(u)' <=> NeedsNoRun(u)
    BY <1>1 DEF NeedsNoRun
  <2> QED
    BY <1>1, <2>1, <2>2, <2>3 DEF Follows, ListenFollows
<1>6. OrderFollows'
  <2>1. DoneBelow(rtask)' /\ DoneBelow(state.task)'
    BY <1>1 DEF Follows, OrderFollows, DoneBelow, NeedsNoRun
  <2> QED
    BY <1>1, <1>2, <1>3, <2>1, Numbers DEF Follows, OrderFollows
<1>7. LastFollows'
  BY <1>1, <1>2, <1>3
  DEF Follows, LastFollows, Known, SettledStaysSettled, SettledOut
<1> QED
  BY <1>4, <1>5, <1>6, <1>7 DEF Follows

(* What the stream will not bring is noted as missed.                      *)
LEMMA LinkOrder ==
  ASSUME TypeOK, Follows, LoadFails \/ LoadPanics \/ Subscribes \/ LinkBreaks
  PROVE  Follows'
<1>1. /\ pc' = pc /\ pc \notin Startup
      /\ UNCHANGED <<rtask, queue, state, posted, lastRead, cleared, lastTask,
                     mail, lastAdded, settled>>
  BY DEF LoadFails, LoadPanics, Subscribes, LinkBreaks, Listening, listenFrame,
         Follows, ListenFollows
<1>2. \/ UNCHANGED <<seen, missed>> /\ link' # "up"
      \/ /\ seen' = posted /\ missed' = missed \cup (seen + 1)..posted
         /\ seen <= posted
  BY DEF LoadFails, LoadPanics, Subscribes, LinkBreaks, Follows, PostedFollows
<1>3. seen <= seen' /\ seen' <= posted /\ \A u \in missed : u \in missed'
  BY <1>2, Numbers DEF Follows, PostedFollows
<1>4. PostedFollows'
  BY <1>1, <1>2, <1>3, Numbers DEF Follows, PostedFollows
<1>5. \A u : NeedsNoRun(u) => NeedsNoRun(u)'
  BY <1>1, <1>3 DEF NeedsNoRun
<1>6. ListenFollows'
  <2>1. ASSUME NEW u \in Tasks, lastAdded < u, u <= seen'
        PROVE  u \in mail \/ NeedsNoRun(u)'
    <3>1. CASE u <= seen
      BY <1>5, <2>1, <3>1 DEF Follows, ListenFollows
    <3>2. CASE u > seen
      BY <1>2, <2>1, <3>2, Numbers DEF NeedsNoRun
    <3> QED
      BY <3>1, <3>2, Numbers
  <2>2. link' = "up" => seen' = posted
    BY <1>2
  <2> QED
    BY <1>1, <1>5, <2>1, <2>2 DEF Follows, ListenFollows
<1>7. OrderFollows'
  BY <1>1, <1>3, <1>5 DEF Follows, OrderFollows, DoneBelow
<1>8. LastFollows'
  BY <1>1, <1>3
  DEF Follows, LastFollows, Known, SettledStaysSettled, SettledOut
<1> QED
  BY <1>4, <1>6, <1>7, <1>8 DEF Follows

LEMMA SkipOrder ==
  ASSUME TypeOK, Follows, SkipApplies \/ SkipTold
  PROVE  Follows'
<1>1. UNCHANGED <<pc, rtask, queue, posted, lastRead, cleared, lastTask,
                  listenVars, settled>>
  BY DEF SkipApplies, SkipTold, idleFrame, runFrame
<1>2. \/ state' = state
      \/ state' = Pending /\ state.task \in cleared /\ state.st # "complete"
  BY DEF SkipApplies, SkipTold, AwaitsManual
<1>3. CASE state' = state
  BY <1>1, <1>3, NothingMoves
<1>4. CASE state' = Pending /\ state.task \in cleared /\ state.st # "complete"
  <2>1. PostedFollows'
    BY <1>1, <1>4, Numbers DEF Follows, PostedFollows
  <2>2. ListenFollows'
    BY <1>1, <1>4 DEF Follows, ListenFollows, NeedsNoRun
  <2>3. OrderFollows'
    BY <1>1, <1>4, Numbers DEF Follows, OrderFollows, DoneBelow, NeedsNoRun
  <2>4. LastFollows'
    BY <1>1, <1>4
    DEF Follows, LastFollows, Known, SettledStaysSettled, SettledOut, Complete
  <2> QED
    BY <2>1, <2>2, <2>3, <2>4 DEF Follows
<1> QED
  BY <1>2, <1>3, <1>4

-----------------------------------------------------------------------------
(* The runner.                                                             *)
LEMMA ConfirmOrder ==
  ASSUME TypeOK, StateFollows, Follows, Confirms \/ ConfirmFails
  PROVE  Follows'
<1>1. /\ rtask = 0 /\ rtask' = 0 /\ pc' = pc /\ Known
      /\ UNCHANGED <<queue, posted, cleared, listenVars, settled>>
      /\ state = Complete(state.task) /\ state.task \in Tasks
  BY Numbers, Words, BetweenRuns
  DEF Confirms, ConfirmFails, AtLoop, Unlocked, idleFrame, runFrame
<1>2. /\ \/ lastRead' = lastRead /\ state.task <= lastRead
         \/ lastRead' = lastRead /\ state' = state
         \/ lastRead' = state.task /\ lastRead <= state.task
      /\ lastRead <= lastRead' /\ lastRead' \in Nat
  BY <1>1, Numbers DEF Confirms, ConfirmFails, MaxId
<1>3. \/ state' = state /\ lastTask' = lastTask
      \/ state' = Pending /\ lastTask' = state.task /\ state.task <= lastRead'
  BY <1>1, Numbers DEF Confirms, ConfirmFails, MaxId
<1>4. \A u : u \in Tasks /\ NeedsNoRun(u) => NeedsNoRun(u)'
  BY <1>1, <1>2, Numbers DEF NeedsNoRun
<1>5. PostedFollows'
  <2>1. lastRead' <= posted /\ state'.task <= posted
    BY <1>2, <1>3, Numbers DEF Follows, PostedFollows
  <2>2. \A t \in mail : t > lastAdded => t > lastRead' /\ t > state'.task
    BY <1>2, <1>3, Numbers DEF Follows, PostedFollows
  <2> QED
    BY <1>1, <2>1, <2>2 DEF Follows, PostedFollows
<1>6. ListenFollows'
  <2>1. \A u : u = state.task => u = state'.task \/ NeedsNoRun(u)'
    BY <1>3 DEF NeedsNoRun
  <2> QED
    BY <1>1, <1>4, <2>1 DEF Follows, ListenFollows
<1>7. OrderFollows'
  <2>1. DoneBelow(rtask)' /\ DoneBelow(state.task)'
    BY <1>1, <1>3, <1>4, Numbers DEF Follows, OrderFollows, DoneBelow
  <2> QED
    BY <1>1, <1>2, <1>3, <2>1, Numbers DEF Follows, OrderFollows, Complete
<1>8. LastFollows'
  <2>1. lastTask' <= lastRead'
    BY <1>1, <1>2, <1>3, Numbers DEF Follows, LastFollows
  <2>2. \A t \in settled : t <= lastRead' \/ t \in cleared
    BY <1>2, Numbers DEF Follows, LastFollows
  <2>3. ASSUME missed = {}
        PROVE  /\ \A u \in Tasks : lastTask' < u /\ u <= lastRead' =>
                    u \in cleared \/ (u = lastRead' /\ state' = Complete(u))
               /\ \A t \in settled : t <= lastTask' \/ t \in cleared
    <3>1. state.task >= lastRead
      BY <1>1, <2>3 DEF Follows, OrderFollows, Complete
    <3>2. CASE state' = Pending /\ lastTask' = state.task
      BY <1>2, <3>1, <3>2, <2>2, Numbers
    <3>3. CASE UNCHANGED <<state, lastTask>>
      <4>1. CASE lastRead' = lastRead
        BY <1>1, <2>3, <3>3, <4>1 DEF Follows, LastFollows
      <4>2. CASE lastRead' = state.task
        <5> SUFFICES ASSUME NEW u \in Tasks, lastTask < u, u < state.task,
                            u \notin cleared
                     PROVE  FALSE
          BY <1>1, <2>3, <3>3, <4>2, Numbers DEF Follows, LastFollows
        <5>1. u <= lastRead
          BY <2>3, Numbers DEF Follows, OrderFollows, DoneBelow, NeedsNoRun
        <5>2. state = Complete(u)
          BY <1>1, <2>3, <5>1 DEF Follows, LastFollows
        <5> QED
          BY <5>2, Numbers DEF Complete
      <4> QED
        BY <1>2, <4>1, <4>2
    <3> QED
      BY <1>3, <3>2, <3>3
  <2>4. SettledStaysSettled'
    BY <1>1 DEF Follows, LastFollows, SettledStaysSettled, SettledOut
  <2> QED
    BY <1>1, <2>1, <2>2, <2>3, <2>4 DEF LastFollows, Known
<1> QED
  BY <1>5, <1>6, <1>7, <1>8 DEF Follows

(* What the order needs to know of a run: a task is taken from the front   *)
(* of the queue, and the state is about it until it is let go.             *)
LEMMA TakeMoves ==
  ASSUME StateFollows, NEW t \in Tasks, Take(t)
  PROVE  /\ t \in queue /\ \A q \in queue : t <= q
         /\ rtask = 0 /\ rtask' = t /\ queue' = queue \ {t}
         /\ state = Pending /\ state' = Pending
BY DEF Take, AtLoop, IsFront, StateFollows, InRun, Before, Waiting, After

LEMMA RunMoves ==
  ASSUME TypeOK, StateFollows, RunSteps, ~\E t \in Tasks : Take(t)
  PROVE  /\ queue' = queue
         /\ \/ rtask' = rtask
            \/ rtask' = 0 /\ state' = state /\ state.task = rtask
         /\ \/ state' = state
            \/ /\ rtask # 0 /\ rtask' = rtask
               /\ state \in {Pending, Processing(rtask)}
               /\ state' \in {Processing(rtask), Complete(rtask), Failed(rtask)}
<1>1. queue' = queue
  BY DEF RunSteps, RunNext, DeleteOld, PullImage, CreateBox, StartBox,
      RunTaskFails, Mark, SeesExit, WaitFails, StartMonitor, CreateMonitor,
      RunMonitor, MonitorFails, ReadLogs, LogsPanic, ResultTold, RemoveBox,
      StopMonitor, EndRun, FailRun, FailureTold
<1>2. \/ rtask' = rtask
      \/ rtask' = 0 /\ state' = state /\ state.task = rtask
  BY DEF RunSteps, RunNext, DeleteOld, PullImage, CreateBox, StartBox,
      RunTaskFails, Mark, SeesExit, WaitFails, StartMonitor, CreateMonitor,
      RunMonitor, MonitorFails, ReadLogs, LogsPanic, ResultTold, RemoveBox,
      StopMonitor, EndRun, FailRun, FailureTold, RunEnds, InternalError,
      StateFollows, Processing, Complete, Failed, After
<1>3. \/ state' = state
      \/ /\ rtask # 0 /\ rtask' = rtask
         /\ state \in {Pending, Processing(rtask)}
         /\ state' \in {Processing(rtask), Complete(rtask), Failed(rtask)}
  BY DEF RunSteps, RunNext, DeleteOld, PullImage, CreateBox, StartBox,
      RunTaskFails, Mark, SeesExit, WaitFails, StartMonitor, CreateMonitor,
      RunMonitor, MonitorFails, ReadLogs, LogsPanic, ResultTold, RemoveBox,
      StopMonitor, EndRun, FailRun, FailureTold, InternalError, StateFollows,
      Before, Waiting, After, InRun
<1> QED
  BY <1>1, <1>2, <1>3

LEMMA TakeOrder ==
  ASSUME TypeOK, StateFollows, Follows, RunSteps, NEW t \in Tasks, Take(t)
  PROVE  Follows'
<1>1. /\ UNCHANGED <<posted, lastRead, cleared, lastTask, listenVars, settled>>
      /\ Known /\ pc' \notin Startup
  BY RunKeeps DEF Known, Startup
<1>2. /\ t \in queue /\ \A q \in queue : t <= q
      /\ rtask = 0 /\ rtask' = t /\ queue' = queue \ {t}
      /\ state = Pending /\ state' = Pending
  BY TakeMoves
<1>3. t <= lastAdded /\ t <= posted
  BY <1>2, Numbers DEF Follows, PostedFollows
<1>4. PostedFollows'
  <2>1. \A u \in mail : u > lastAdded => u > lastRead /\ u > t /\ u > 0
    BY <1>3, Numbers DEF Follows, PostedFollows
  <2> QED
    BY <1>1, <1>2, <1>3, <2>1, Numbers DEF Follows, PostedFollows
<1>5. ListenFollows'
  BY <1>1, <1>2, Numbers DEF Follows, ListenFollows, NeedsNoRun
<1>6. OrderFollows'
  <2>1. DoneBelow(t)
    <3> SUFFICES ASSUME NEW u \in Tasks, u < t
                 PROVE  NeedsNoRun(u)
      BY DEF DoneBelow
    <3>1. u \notin queue /\ u # 0 /\ u <= lastAdded
      BY <1>2, <1>3, Numbers
    <3> QED
      BY <1>2, <3>1, Numbers DEF Follows, ListenFollows
  <2>2. DoneBelow(rtask)' /\ DoneBelow(state.task)'
    BY <1>1, <1>2, <2>1, Numbers DEF DoneBelow, NeedsNoRun
  <2> QED
    BY <1>1, <1>2, <2>2, Numbers DEF Follows, OrderFollows
<1>7. LastFollows'
  BY <1>1, <1>2
  DEF Follows, LastFollows, Known, Startup, SettledStaysSettled, SettledOut
<1> QED
  BY <1>4, <1>5, <1>6, <1>7 DEF Follows

LEMMA RunOrder ==
  ASSUME TypeOK, StateFollows, Follows, RunSteps
  PROVE  Follows'
<1>1. CASE \E t \in Tasks : Take(t)
  BY <1>1, TakeOrder
<1>2. CASE ~\E t \in Tasks : Take(t)
  <2>0. /\ UNCHANGED <<posted, lastRead, cleared, lastTask, listenVars, settled>>
        /\ Known /\ pc' \notin Startup
    BY RunKeeps DEF Known, Startup
  <2>1. /\ queue' = queue
        /\ rtask' = rtask \/ (rtask' = 0 /\ state.task = rtask)
        /\ state'.task \in {state.task, rtask}
        /\ state'.task # state.task => state.task = 0 /\ rtask' = rtask
        /\ state'.st = "complete" => state' = state \/ state'.task = rtask
        /\ \A u \in Tasks : state = Complete(u) => state' = state
        /\ state' # state => rtask # 0 /\ rtask' = rtask /\ state'.task = rtask
    BY <1>2, RunMoves, Numbers DEF Pending, Processing, Complete, Failed
  <2>2. PostedFollows'
    BY <2>0, <2>1, Numbers DEF Follows, PostedFollows
  <2>3. ListenFollows'
    BY <2>0, <2>1, Numbers DEF Follows, ListenFollows, NeedsNoRun
  <2>4. OrderFollows'
    <3>1. DoneBelow(rtask)' /\ DoneBelow(state.task)'
      BY <2>0, <2>1, Numbers DEF Follows, OrderFollows, DoneBelow, NeedsNoRun
    <3>2. ASSUME missed = {}
          PROVE  /\ rtask' # 0 => rtask' >= lastRead
                 /\ state'.st = "complete" => state'.task >= lastRead
                 /\ \A q \in queue :
                      /\ q >= lastRead /\ q >= rtask'
                      /\ state'.st = "complete" => q >= state'.task
      BY <2>0, <2>1, <3>2, Numbers DEF Follows, OrderFollows
    <3> QED
      BY <2>0, <2>1, <3>1, <3>2 DEF OrderFollows
  <2>5. LastFollows'
    <3>1. missed = {} => rtask' \notin settled
      BY <2>1, Numbers DEF Follows, LastFollows, SettledStaysSettled, SettledOut
    <3> QED
      BY <2>0, <2>1, <3>1
      DEF Follows, LastFollows, Known, Startup, SettledStaysSettled, SettledOut
  <2> QED
    BY <2>2, <2>3, <2>4, <2>5 DEF Follows
<1> QED
  BY <1>1, <1>2

LEMMA OrderStep ==
  TypeOK /\ StateFollows /\ Follows /\ [Next]_vars => Follows'
<1> SUFFICES ASSUME TypeOK, StateFollows, Follows, [Next]_vars
             PROVE  Follows'
  OBVIOUS
<1>1. CASE IdleNext
  BY <1>1, SkipOrder, ConfirmOrder DEF IdleNext
<1>2. CASE ListenNext
  BY <1>2, LoadsOrder, HearsOrder, LinkOrder DEF ListenNext
<1>3. CASE NotifySteps \/ DockerSteps \/ \E d \in UserDevices : UserAuthorizes(d)
  <2>1. UNCHANGED <<pc, rtask, queue, state, posted, lastRead, cleared, lastTask,
                    listenVars, settled>>
    BY <1>3
    DEF NotifySteps, DockerSteps, DockerNext, MonitorRemoved, BoxExits,
        UserAuthorizes, taskVars
  <2> QED
    BY <2>1, NothingMoves
<1>4. CASE UNCHANGED vars
  BY <1>4, NothingMoves DEF vars, taskVars
<1> QED
  BY <1>1, <1>2, <1>3, <1>4, Steps, StartupOrder, RunOrder, CrashOrder,
     UserSkipsOrder, UserPostsOrder
  DEF OutsideNext

-----------------------------------------------------------------------------
(* The inductive invariant, and what it gives.                             *)

(* Every part of Inductive holds in every state of the process.            *)
THEOREM ProcessInductive == Spec => []Inductive
<1>1. Init => Inductive
  <2> SUFFICES ASSUME Init
               PROVE  Inductive
    OBVIOUS
  <2>1. NotifierType
    BY Words DEF Init, NotifierType
  <2>2. TypeOK
    <3>1. NoDevice \in Devices
      BY DEF NoDevice, Devices
    <3>2. TaskRunType
      BY <2>1, Words DEF Init, TaskRunType
    <3>3. crashes \in 0..MaxCrashes
      BY ProcessAssumption DEF Init
    <3> QED
      BY <3>1, <3>2, <3>3 DEF Init, TypeOK, Startup
  <2>3. /\ StateFollows /\ BoxFollows /\ TimerFollows /\ NoteFollows
        /\ ToldFollows /\ SaveFollows /\ KeyFollows
    BY DEF Init, StateFollows, BoxFollows, TimerFollows, NoteFollows,
           ToldFollows, SaveFollows, KeyFollows, KeyBeforeTasks, InRun, Before,
           Waiting, After, Startup
  <2>4. Follows
    BY Words
    DEF Init, Follows, PostedFollows, ListenFollows, OrderFollows, DoneBelow,
        LastFollows, Known, SettledStaysSettled, SettledOut, Pending, Tasks
  <2> QED
    BY <2>2, <2>3, <2>4 DEF Follows, Inductive
<1>2. Inductive /\ [Next]_vars => Inductive'
  BY TypeStep, StateStep, ContainerStep, ToldStep, SaveStep, KeyStep, OrderStep
  DEF Follows, Inductive
<1> QED
  BY <1>1, <1>2, PTL DEF Spec

(* Whatever the number of tasks and kills, the variables have their types. *)
THEOREM ProcessTypeOK == Spec => []TypeOK
BY ProcessInductive, PTL DEF Inductive

(* No task is taken before the agent has its key, for any device that the  *)
(* user may authorize.                                                     *)
THEOREM ProcessKeyBeforeTasks == Spec => []KeyBeforeTasks
<1>1. Inductive => KeyBeforeTasks
  BY DEF Inductive, KeyFollows
<1> QED
  BY <1>1, ProcessInductive, PTL

(* What was confirmed or skipped when the process started does not run     *)
(* again, however often it was killed, as long as no message was missed.   *)
THEOREM ProcessSettledStaysSettled == Spec => []SettledStaysSettled
<1>1. Inductive => SettledStaysSettled
  BY DEF Inductive, LastFollows
<1> QED
  BY <1>1, ProcessInductive, PTL

(* A confirmation, whether it is reported as a success or not, passes over *)
(* a task that is neither complete nor skipped only if its message was     *)
(* missed, by a load that failed or between a load and the subscription.   *)
THEOREM ProcessNothingPassedOver == Spec => NothingPassedOver
<1> DEFINE Over ==
      \A u \in Tasks : u > lastRead /\ u <= lastRead'
        => u \in cleared \/ state = Complete(u) \/ u \in missed
<1>1. Inductive /\ [Next]_vars => [Over]_vars
  <2> SUFFICES ASSUME Inductive, [Next]_vars
               PROVE  Over
    OBVIOUS
  <2>0. TypeOK /\ OrderFollows
    BY DEF Inductive
  <2>1. CASE Confirms \/ ConfirmFails
    <3>1. /\ lastRead' \in {lastRead, MaxId(lastRead, state.task)}
          /\ state = Complete(state.task) /\ state.task \in Tasks
          /\ DoneBelow(state.task)
      BY <2>0, <2>1, Numbers, Words
      DEF Confirms, ConfirmFails, OrderFollows, Pending
    <3>2. lastRead' <= lastRead \/ lastRead' = state.task
      BY <2>0, <3>1, Numbers DEF MaxId
    <3> SUFFICES ASSUME NEW u \in Tasks, u > lastRead, u <= lastRead',
                        u \notin cleared, u \notin missed
                 PROVE  state = Complete(u)
      OBVIOUS
    <3>3. lastRead' = state.task
      BY <2>0, <3>1, <3>2, Numbers DEF MaxId
    <3>4. ~(u < state.task)
      BY <2>0, <3>1, Numbers DEF DoneBelow, NeedsNoRun
    <3>5. u = state.task
      BY <2>0, <3>3, <3>4, Numbers
    <3> QED
      BY <3>1, <3>5
  <2>2. CASE ~Confirms /\ ~ConfirmFails
    <3>1. lastRead' = lastRead
      BY <2>2, Steps, StartupKeeps, ListenKeeps, RunKeeps, OutsideKeeps
      DEF IdleNext, SkipApplies, SkipTold, Crash, listenFrame, vars
    <3> QED
      BY <2>0, <3>1, Numbers
  <2> QED
    BY <2>1, <2>2
<1> QED
  BY <1>1, ProcessInductive, PTL DEF Spec, NothingPassedOver

(* A run that is not killed tells its outcome once, as its last event, and *)
(* leaves that outcome in the state, whatever docker answered; or it ends  *)
(* with a panic of the runner, and then the outcome is in the state alone. *)
THEOREM ProcessToldOutcome == Spec => ToldOutcome
<1> DEFINE
      Ended ==
        \/ told = <<"task:start", "task:finish">> /\ state' = Complete(rtask)
        \/ told \in {<<"task:error">>, <<"task:start", "task:error">>}
             /\ state' = Failed(rtask)
        \/ /\ pc' = "dead" /\ told = <<"task:start">>
           /\ state' \in {Complete(rtask), Failed(rtask)}
      Ends == rtask # 0 /\ rtask' = 0 /\ crashes' = crashes => Ended
<1>1. Inductive /\ [Next]_vars => [Ends]_vars
  <2> SUFFICES ASSUME Inductive, [Next]_vars, rtask # 0, rtask' = 0,
                      crashes' = crashes
               PROVE  Ended
    OBVIOUS
  <2>0. TypeOK /\ StateFollows /\ ToldFollows
    BY DEF Inductive
  <2>1. ~Crash
    BY <2>0 DEF Crash, TypeOK
  <2>2. LogsPanic \/ EndRun \/ FailureTold
    BY <2>0, <2>1, Steps, StartupKeeps, ListenKeeps, IdleKeeps, OutsideKeeps,
       Numbers
    DEF RunSteps, RunNext, Take, DeleteOld, PullImage, CreateBox, StartBox,
        RunTaskFails, Mark, SeesExit, WaitFails, StartMonitor, CreateMonitor,
        RunMonitor, MonitorFails, ReadLogs, ResultTold, RemoveBox,
        StopMonitor, FailRun, AtLoop, listenFrame, vars, taskVars
  <2>3. CASE EndRun
    BY <2>0, <2>3
    DEF EndRun, InternalError, StateFollows, ToldFollows, Outcome, After,
        Complete, Failed
  <2>4. CASE FailureTold
    BY <2>0, <2>4 DEF FailureTold, StateFollows, ToldFollows
  <2>5. CASE LogsPanic
    BY <2>0, <2>5 DEF LogsPanic, StateFollows, ToldFollows
  <2> QED
    BY <2>2, <2>3, <2>4, <2>5
<1> QED
  BY <1>1, ProcessInductive, PTL DEF Spec, ToldOutcome

(* The container of a task that has exited is deleted after the attempt to *)
(* save its output, whatever influx and the monitor do.                    *)
THEOREM ProcessSaveComesFirst == Spec => SaveComesFirst
<1> DEFINE Deleted ==
      pc = "remove" /\ ~failed /\ box' # box => kept # "untried"
<1>1. Inductive /\ [Next]_vars => [Deleted]_vars
  BY DEF Inductive, SaveFollows
<1> QED
  BY <1>1, ProcessInductive, PTL DEF Spec, SaveComesFirst

-----------------------------------------------------------------------------
(* A task becomes complete by its own container alone, whatever containers *)
(* earlier runs and killed processes have left behind.                     *)
THEOREM ProcessOutcomeIsOwn == Spec => OutcomeIsOwn
<1> DEFINE Own ==
      state' # state /\ state'.st = "complete"
        => box = [task |-> state'.task, st |-> "ok"]
<1>1. Inductive /\ [Next]_vars => [Own]_vars
  <2> SUFFICES ASSUME Inductive, [Next]_vars, state' # state,
                      state'.st = "complete"
               PROVE  box = [task |-> state'.task, st |-> "ok"]
    OBVIOUS
  <2>0. BoxFollows /\ box \in Boxes
    BY DEF Inductive, TypeOK, TaskRunType
  <2>1. RunSteps
    <3>1. IdleNext \/ ListenNext => state' \in {state, Pending}
      BY ListenKeeps DEF IdleNext, SkipApplies, SkipTold, Confirms, ConfirmFails
    <3>2. ~IdleNext /\ ~ListenNext
      BY <3>1 DEF Pending
    <3> QED
      BY <3>2, Steps, StartupKeeps, OutsideKeeps DEF Crash, vars, taskVars
  <2>2. SeesExit
    BY <2>1
    DEF RunSteps, RunNext, Take, DeleteOld, PullImage, CreateBox, StartBox,
        RunTaskFails, Mark, WaitFails, StartMonitor, CreateMonitor, RunMonitor,
        MonitorFails, ReadLogs, LogsPanic, ResultTold, RemoveBox, StopMonitor, EndRun,
        FailRun, FailureTold, Processing, Failed
  <2>3. box.st = "ok" /\ state'.task = rtask /\ box.task = rtask
    BY <2>0, <2>2 DEF SeesExit, BoxFollows, Waiting, Complete, Failed
  <2> QED
    BY <2>0, <2>3 DEF Boxes, NoBox
<1> QED
  BY <1>1, ProcessInductive, PTL DEF Spec, OutcomeIsOwn

-----------------------------------------------------------------------------
(* The measure of RunNearsEnd.                                             *)
LEMMA NoteBounds ==
  NotifierType => NoteAhead \in 0..(MaxAttempts + 1)
BY NotifierAssumption DEF NotifierType, Notes, NoteAhead

LEMMA CallsBounds ==
  /\ CallsAhead \in 0..14
  /\ CallsAhead = 14 => pc = "delete"
BY DEF CallsAhead

(* A call that is done outweighs the notification that it begins.          *)
LEMMA CallOutweighsNote ==
  ASSUME NEW m \in Nat, NEW a \in 0..14, NEW b \in 0..14, b < a,
         NEW x \in 0..(m + 1), NEW y \in 0..(m + 1)
  PROVE  b * (m + 2) + y < a * (m + 2) + x
<1>1. PICK d \in Nat : a = b + d /\ d >= 1
  <2>1. a - b \in Nat /\ a = b + (a - b) /\ a - b >= 1
    OBVIOUS
  <2> QED
    BY <2>1
<1>2. a * (m + 2) = b * (m + 2) + d * (m + 2)
  BY <1>1
<1>3. d * (m + 2) >= m + 2
  BY <1>1
<1> QED
  BY <1>2, <1>3

LEMMA AheadBounds ==
  TypeOK /\ NoteFollows => Ahead >= 0 /\ Ahead <= RunLength
<1> SUFFICES ASSUME TypeOK, NoteFollows
             PROVE  Ahead >= 0 /\ Ahead <= RunLength
  OBVIOUS
<1>0. /\ NoteAhead \in 0..(MaxAttempts + 1) /\ MaxAttempts \in Nat
      /\ CallsAhead \in 0..14
  BY NoteBounds, CallsBounds, NotifierAssumption DEF TypeOK, TaskRunType
<1>1. Ahead >= 0
  BY <1>0 DEF Ahead
<1>2. CASE CallsAhead = 14
  <2>1. NoteAhead = 0
    BY <1>0, <1>2, CallsBounds
    DEF NoteFollows, InRun, Before, NoNote, NoteAhead
  <2> QED
    BY <1>0, <1>1, <1>2, <2>1 DEF Ahead, RunLength
<1>3. CASE CallsAhead < 14
  <2>1. CallsAhead * (MaxAttempts + 2) + NoteAhead < 14 * (MaxAttempts + 2) + 0
    BY <1>0, <1>3, CallOutweighsNote
  <2> QED
    BY <1>0, <1>1, <2>1 DEF Ahead, RunLength
<1> QED
  BY <1>0, <1>2, <1>3

(* Every call of the runner is one call less.                              *)
LEMMA CallsDescend ==
  ASSUME StateFollows, TimerFollows, RunSteps, rtask # 0, rtask' = rtask
  PROVE  CallsAhead' < CallsAhead
<1>1. CASE DeleteOld \/ PullImage \/ CreateBox \/ StartBox \/ RunTaskFails
  BY <1>1
  DEF DeleteOld, PullImage, CreateBox, StartBox, RunTaskFails, CallsAhead
<1>2. CASE Mark \/ SeesExit \/ WaitFails
  BY <1>2 DEF Mark, SeesExit, WaitFails, CallsAhead
<1>3. CASE StartMonitor \/ CreateMonitor \/ RunMonitor \/ MonitorFails
  BY <1>3
  DEF StartMonitor, TimerMayFire, CreateMonitor, RunMonitor, MonitorFails,
      AfterMonitor, TimerFollows, CallsAhead
<1>4. CASE ReadLogs \/ ResultTold \/ RemoveBox \/ StopMonitor \/ FailRun
  BY <1>4 DEF ReadLogs, LogsPanic, ResultTold, RemoveBox, StopMonitor, FailRun, CallsAhead
<1>5. ~(LogsPanic \/ EndRun \/ FailureTold) /\ ~\E t \in Tasks : Take(t)
  BY DEF LogsPanic, EndRun, FailureTold, RunEnds, Take, AtLoop, StateFollows, InRun,
         Before, Waiting, After
<1> QED
  BY <1>1, <1>2, <1>3, <1>4, <1>5 DEF RunSteps, RunNext

LEMMA NoteDescends ==
  ASSUME TypeOK, NotifySteps
  PROVE  NoteAhead' < NoteAhead /\ CallsAhead' = CallsAhead
<1>1. UNCHANGED <<pc, timer>>
  BY DEF NotifySteps
<1>2. note \in Notes /\ MaxAttempts \in Nat
  BY NotifierAssumption DEF TypeOK, TaskRunType, NotifierType
<1>3. NoteAhead' < NoteAhead
  <2>1. CASE SaveToFile
    <3>1. note'.file = "done" /\ note'.attempts = note.attempts
      BY <1>2, <2>1 DEF SaveToFile, Notes
    <3> QED
      BY <1>2, <2>1, <3>1 DEF SaveToFile, NoteAhead, Notes
  <2>2. CASE AskInflux
    <3>1. /\ note'.file = note.file
          /\ note'.attempts \in {MaxAttempts, note.attempts + 1}
          /\ note.attempts < MaxAttempts
      BY <1>2, <2>2 DEF AskInflux, Notes
    <3> QED
      BY <1>2, <3>1 DEF NoteAhead, Notes
  <2> QED
    BY <2>1, <2>2 DEF NotifySteps, NotifierNext
<1> QED
  BY <1>1, <1>3 DEF CallsAhead

(* However many attempts at influx there are, and whatever fails, a run    *)
(* comes to its end in at most RunLength steps of the runner and the       *)
(* notifier: each one makes what is ahead of it smaller.                   *)
THEOREM ProcessRunNearsEnd == Spec => RunNearsEnd
<1> DEFINE
      Moves == /\ rtask # 0 /\ rtask' = rtask
               /\ <<runVars, notifyVars, state, timer, watching>>'
                    # <<runVars, notifyVars, state, timer, watching>>
      Nearer == Moves => Ahead <= RunLength /\ Ahead' < Ahead /\ Ahead' >= 0
<1>1. Inductive /\ Inductive' /\ [Next]_vars => [Nearer]_vars
  <2> SUFFICES ASSUME Inductive, Inductive', [Next]_vars, Moves
               PROVE  Ahead <= RunLength /\ Ahead' < Ahead /\ Ahead' >= 0
    OBVIOUS
  <2>0. /\ TypeOK /\ StateFollows /\ TimerFollows /\ NoteFollows
        /\ TypeOK' /\ NoteFollows'
    BY DEF Inductive
  <2>1. Ahead <= RunLength /\ Ahead' >= 0
    <3>1. (TypeOK /\ NoteFollows => Ahead >= 0 /\ Ahead <= RunLength)'
      BY AheadBounds, PTL
    <3> QED
      BY <2>0, <3>1, AheadBounds
  <2>2. /\ NoteAhead \in 0..(MaxAttempts + 1) /\ NoteAhead' \in 0..(MaxAttempts + 1)
        /\ CallsAhead \in 0..14 /\ CallsAhead' \in 0..14 /\ MaxAttempts \in Nat
    <3>1. (NotifierType => NoteAhead \in 0..(MaxAttempts + 1))'
      BY NoteBounds, PTL
    <3>2. CallsAhead' \in 0..14
      BY DEF CallsAhead
    <3> QED
      BY <2>0, <3>1, <3>2, NoteBounds, CallsBounds, NotifierAssumption
      DEF TypeOK, TaskRunType
  <2>3. RunSteps \/ NotifySteps
    BY <2>0, Steps, StartupKeeps, ListenKeeps, IdleKeeps
    DEF listenFrame, Unlocked, OutsideNext, DockerSteps, DockerNext, MonitorRemoved, BoxExits, Crash,
        RunEnds, UserAuthorizes, UserPosts, UserSkips, taskVars, vars, StateFollows,
        Startup, InRun, Before, Waiting, After
  <2>4. CASE RunSteps
    <3>1. CallsAhead' < CallsAhead
      BY <2>0, <2>4, CallsDescend
    <3> QED
      BY <2>1, <2>2, <3>1, CallOutweighsNote DEF Ahead
  <2>5. CASE NotifySteps
    <3>1. NoteAhead' < NoteAhead /\ CallsAhead' = CallsAhead
      BY <2>0, <2>5, NoteDescends
    <3> DEFINE calls == CallsAhead * (MaxAttempts + 2)
    <3>2. calls \in Nat
      BY <2>2
    <3>3. Ahead = calls + NoteAhead /\ Ahead' = calls + NoteAhead'
      BY <3>1, Zenon DEF Ahead
    <3> HIDE DEF calls
    <3>4. NoteAhead \in Nat /\ NoteAhead' \in Nat
      BY <2>2
    <3>5. \A c, x, y \in Nat : y < x => c + y < c + x
      OBVIOUS
    <3> QED
      BY <2>1, <3>1, <3>2, <3>3, <3>4, <3>5, Zenon
  <2> QED
    BY <2>3, <2>4, <2>5
<1> QED
  BY <1>1, ProcessInductive, PTL DEF Spec, RunNearsEnd

-----------------------------------------------------------------------------
(* The states that the instance names are those of RunState.               *)
LEMMA SameStates ==
  /\ Life!Pending = Pending
  /\ \A t : /\ Life!Processing(t) = Processing(t)
            /\ Life!Complete(t) = Complete(t)
            /\ Life!Failed(t) = Failed(t)
BY DEF Life!Pending, Pending, Life!Processing, Processing, Life!Complete,
       Complete, Life!Failed, Failed

LEMMA RunLifeStep ==
  ASSUME TypeOK, StateFollows, RunSteps
  PROVE  [Life!Next]_<<state, rtask, crashes>>
<1> USE DEF InRun, Before, Waiting, After
<1>0. /\ crashes' = crashes
      /\ \A t \in Tasks : t # 0
  BY RunKeeps, Words
<1>1. ASSUME NEW t \in Tasks, Take(t)
      PROVE  [Life!Next]_<<state, rtask, crashes>>
  <2>1. /\ state = Pending /\ state' = state /\ rtask = 0 /\ rtask' \in Tasks
    BY <1>1 DEF Take, AtLoop, StateFollows
  <2> QED
    BY <1>0, <2>1, SameStates DEF Life!Next, Life!Take
<1>2. CASE Mark
  <2>1. rtask # 0 /\ rtask' = rtask /\ state = Pending
        /\ state' = Processing(rtask)
    BY <1>2 DEF Mark, StateFollows
  <2> QED
    BY <1>0, <2>1, SameStates DEF Life!Next, Life!Start
<1>3. CASE SeesExit
  <2>1. /\ rtask # 0 /\ rtask' = rtask /\ state = Processing(rtask)
        /\ state' \in {Complete(rtask), Failed(rtask)}
    BY <1>3 DEF SeesExit, StateFollows
  <2> QED
    BY <1>0, <2>1, SameStates DEF Life!Next, Life!Exit
<1>4. CASE RunTaskFails \/ FailRun
  <2>1. /\ rtask # 0 /\ rtask' = rtask
        /\ state \in {Pending, Processing(rtask)} /\ state' = Failed(rtask)
    BY <1>4 DEF RunTaskFails, FailRun, InternalError, StateFollows
  <2> QED
    BY <1>0, <2>1, SameStates DEF Life!Next, Life!Fail
<1>5. CASE LogsPanic \/ EndRun \/ FailureTold
  <2>1. /\ rtask # 0 /\ rtask' = 0 /\ state' = state
        /\ state \in {Complete(rtask), Failed(rtask)}
    BY <1>5
    DEF LogsPanic, EndRun, FailureTold, RunEnds, InternalError, StateFollows
  <2> QED
    BY <1>0, <2>1, SameStates DEF Life!Next, Life!End
<1>6. CASE ~(\/ \E t \in Tasks : Take(t)
             \/ Mark \/ SeesExit \/ RunTaskFails \/ FailRun \/ LogsPanic
             \/ EndRun \/ FailureTold)
  <2>1. UNCHANGED <<state, rtask>>
    BY <1>6
    DEF RunSteps, RunNext, DeleteOld, PullImage, CreateBox, StartBox,
        WaitFails, StartMonitor, CreateMonitor, RunMonitor, MonitorFails,
        ReadLogs, ResultTold, RemoveBox, StopMonitor
  <2> QED
    BY <1>0, <2>1
<1> QED
  BY <1>1, <1>2, <1>3, <1>4, <1>5, <1>6

LEMMA IdleLifeStep ==
  ASSUME StateFollows, IdleNext \/ ListenNext
  PROVE  [Life!Next]_<<state, rtask, crashes>>
<1>1. UNCHANGED <<rtask, crashes>> /\ (state' # state => rtask = 0)
  BY IdleKeeps, ListenKeeps
  DEF listenFrame, Unlocked, StateFollows, InRun, Before, Waiting, After
<1>2. state' \in {state, Pending}
  BY ListenKeeps
  DEF IdleNext, SkipApplies, SkipTold, Confirms, ConfirmFails
<1>3. CASE state' = state
  BY <1>1, <1>3
<1>4. CASE state' # state
  BY <1>1, <1>2, <1>4, SameStates DEF Life!Next, Life!Settle
<1> QED
  BY <1>3, <1>4

(* Whatever docker, the monitor, the notifier, the user and kills do, the  *)
(* state goes through the life of one task after the other as RunLife has  *)
(* it.                                                                     *)
THEOREM ProcessImplementsRunLife == Spec => RunLifeImplemented
<1>1. Init => Life!Init
  BY SameStates DEF Init, Life!Init
<1>2. Inductive /\ [Next]_vars => [Life!Next]_(Life!vars)
  <2> SUFFICES ASSUME Inductive, [Next]_vars
               PROVE  [Life!Next]_<<state, rtask, crashes>>
    BY DEF Life!vars
  <2>0. TypeOK /\ StateFollows
    BY DEF Inductive
  <2>1. CASE StartupNext
    BY <2>1, StartupKeeps
  <2>2. CASE Crash
    <3>1. crashes' = crashes + 1 /\ rtask' = 0 /\ state' = state
      BY <2>2, EndsType DEF Crash
    <3> QED
      BY <3>1 DEF Life!Next, Life!Kill
  <2>3. CASE OutsideNext /\ ~Crash
    BY <2>3, OutsideKeeps
  <2>4. CASE UNCHANGED vars
    BY <2>4 DEF vars, taskVars
  <2> QED
    BY <2>0, <2>1, <2>2, <2>3, <2>4, Steps, RunLifeStep, IdleLifeStep
<1> QED
  BY <1>1, <1>2, ProcessInductive, PTL DEF Spec, RunLifeImplemented, Life!Spec
=============================================================================
