-------------------------- MODULE AgentProofs --------------------------
(***************************************************************************)
(* Theorems about the agent, for any number of messages, edits, stream     *)
(* breaks and crashes, and whether or not writes are lost and logs panic.  *)
(***************************************************************************)
EXTENDS AgentProperties, TaskQueueOpsProofs

USE DEF chainVars, mailVars, queueVars, stateVars, runnerVars, procVars,
        listenerVars, worldVars

-----------------------------------------------------------------------------
(* The records that the steps build are what the type invariant expects.   *)
LEMMA Vocabulary ==
  /\ Pending \in RunStates
  /\ \A t \in Ids : {Processing(t), Complete(t), Failed(t)} \subseteq RunStates
  /\ \A s \in RunStates : s.st # "pending" => s.task \in Ids
  /\ NoBox \in Boxes
  /\ \A t \in Ids : /\ [task |-> t, st |-> "created"] \in Boxes
                    /\ [task |-> t, st |-> "running"] \in Boxes
  /\ \A b \in Boxes : b.st # "none" => b.task \in Ids
  /\ \A b \in Boxes, st \in {"ok", "failed"} :
       b.st = "running" => [task |-> b.task, st |-> st] \in Boxes
  /\ \A i \in Ids, k \in Contents : [id |-> i, kind |-> k] \in Events
  /\ \A e \in Events : e.id \in Ids /\ e.kind \in Contents
  /\ "absent" \in Contents /\ Kinds \subseteq Contents
  /\ NoChannel \in [Ids -> Contents]
  /\ MaxMessages \in Nat /\ Ids = 1..MaxMessages /\ \A i \in Ids : i \in 0..MaxMessages
<1>1. /\ Pending \in RunStates
      /\ \A t \in Ids : {Processing(t), Complete(t), Failed(t)} \subseteq RunStates
      /\ \A s \in RunStates : s.st # "pending" => s.task \in Ids
  BY DEF RunStates, StatesOf, Pending, Processing, Complete, Failed
<1>2. /\ NoBox \in Boxes
      /\ \A t \in Ids : /\ [task |-> t, st |-> "created"] \in Boxes
                        /\ [task |-> t, st |-> "running"] \in Boxes
      /\ \A b \in Boxes : b.st # "none" => b.task \in Ids
      /\ \A b \in Boxes, st \in {"ok", "failed"} :
           b.st = "running" => [task |-> b.task, st |-> st] \in Boxes
  BY DEF Boxes, NoBox
<1>3. /\ \A i \in Ids, k \in Contents : [id |-> i, kind |-> k] \in Events
      /\ \A e \in Events : e.id \in Ids /\ e.kind \in Contents
      /\ "absent" \in Contents /\ Kinds \subseteq Contents
      /\ NoChannel \in [Ids -> Contents]
  BY DEF Events, Contents, NoChannel
<1>4. MaxMessages \in Nat /\ Ids = 1..MaxMessages /\ \A i \in Ids : i \in 0..MaxMessages
  BY AgentAssumption DEF Ids
<1> QED
  BY <1>1, <1>2, <1>3, <1>4

(* The queue operations keep the type of the queue.                        *)
LEMMA AppendType ==
  ASSUME NEW S, NEW q \in Seq(S), NEW e \in S
  PROVE  Append(q, e) \in Seq(S)
BY AppendProperties

LEMMA HeadTailType ==
  ASSUME NEW S, NEW q \in Seq(S), q # <<>>
  PROVE  Head(q) \in S /\ Tail(q) \in Seq(S)
BY HeadTailProperties

LEMMA DeleteTaskType ==
  ASSUME NEW S, NEW q \in Seq(S), NEW id
  PROVE  DeleteTask(q, id) \in Seq(S)
<1>1. {i \in DOMAIN q : q[i] # id} \in SUBSET DOMAIN q
  OBVIOUS
<1> QED
  BY <1>1, RetainProperties DEF DeleteTask

LEMMA DedupType ==
  ASSUME NEW S, NEW q \in Seq(S)
  PROVE  Dedup(q) \in Seq(S)
<1>1. {i \in DOMAIN q : \A j \in 1..(i - 1) : q[j] # q[i]} \in SUBSET DOMAIN q
  OBVIOUS
<1> QED
  BY <1>1, RetainProperties DEF Dedup

LEMMA AddTaskType ==
  ASSUME NEW S, NEW q \in Seq(S), NEW last, NEW id \in S
  PROVE  AddTask(q, last, id) \in Seq(S)
BY DeleteTaskType, AppendType DEF AddTask

LEMMA LastAddedType ==
  ASSUME NEW last \in 0..MaxMessages, NEW id \in Ids
  PROVE  LastAdded(last, id) \in 0..MaxMessages
BY Vocabulary DEF LastAdded

(* The oldest of a set of ids is one of them: ids are well ordered.        *)
LEMMA OldestIn ==
  ASSUME NEW T \in SUBSET Ids, T # {}
  PROVE  Oldest(T) \in T
<1>1. MaxMessages \in Nat /\ T \in SUBSET (1..MaxMessages)
  BY Vocabulary
<1>2. \E first \in T : \A other \in T : first <= other
  BY <1>1, FirstPosition
<1> QED
  BY <1>2 DEF Oldest

(* After an event the processor is idle, or dead and without channels.     *)
LEMMA ProcDoneType ==
  ASSUME NEW kind, MailType, ProcDone(kind)
  PROVE  MailType' /\ ProcType'
<1>1. CASE kind = "panics"
  BY <1>1 DEF ProcDone, MailType, ProcType
<1>2. CASE kind # "panics"
  BY <1>2 DEF ProcDone, MailType, ProcType
<1> QED
  BY <1>1, <1>2

-----------------------------------------------------------------------------
LEMMA UserKeeps == UserNext => UNCHANGED userFrame
BY DEF UserNext, Post, Update, Delete

(* The user: the channel, the events and the record of manual actions.     *)
LEMMA UserTypeStep == TypeOK /\ UserNext => TypeOK'
<1> SUFFICES ASSUME TypeOK, UserNext
             PROVE  WorldType' /\ MailType' /\ HistoryType'
  BY UserKeeps DEF TypeOK, userFrame, SharedType, QueueType, RunnerType,
         ProcType, ListenerType
<1>1. ASSUME NEW kind \in Kinds, Post(kind)
      PROVE  WorldType' /\ MailType' /\ HistoryType'
  <2>1. /\ posted < MaxMessages
        /\ newQ' = Forward(newQ, [id |-> posted + 1, kind |-> kind])
        /\ manual' = IF kind = "skip" THEN manual \cup {posted + 1} ELSE manual
        /\ edits' = edits \/ (edits < MaxEdits /\ edits' = edits + 1)
    BY <1>1 DEF Post
  <2>2. posted + 1 \in Ids
    BY <2>1, Vocabulary DEF TypeOK, WorldType
  <2>3. posted' \in 0..MaxMessages /\ channel' \in [Ids -> Contents]
    <3>1. WithMessage(kind) \in [Ids -> Contents]
      BY Vocabulary DEF WithMessage, TypeOK, WorldType
    <3> QED
      BY <1>1, <2>1, <3>1, Vocabulary DEF Post, Stores, TypeOK, WorldType
  <2>4. newQ' \in Seq(Events)
    <3>1. [id |-> posted + 1, kind |-> kind] \in Events
      BY <2>2, Vocabulary
    <3> QED
      BY <2>1, <3>1, AppendType DEF Forward, TypeOK, MailType
  <2>5. WorldType'
    BY <1>1, <2>1, <2>3, Vocabulary DEF Post, userFrame, TypeOK, WorldType
  <2> QED
    BY <1>1, <2>1, <2>2, <2>4, <2>5
    DEF Post, TypeOK, MailType, HistoryType, userFrame
<1>2. ASSUME NEW id \in Ids, NEW kind \in Kinds, Update(id, kind)
      PROVE  WorldType' /\ MailType' /\ HistoryType'
  <2>1. [id |-> id, kind |-> kind] \in Events
    BY Vocabulary
  <2>2. updQ' \in Seq(Events)
    BY <1>2, <2>1, AppendType DEF Update, Forward, TypeOK, MailType
  <2>3. WorldType'
    <3>1. [channel EXCEPT ![id] = kind] \in [Ids -> Contents]
      BY Vocabulary DEF TypeOK, WorldType
    <3>2. posted' = posted /\ channel' \in [Ids -> Contents]
      BY <1>2, <3>1 DEF Update, Stores, TypeOK, WorldType
    <3>3. edits' \in Nat
      BY <1>2 DEF Update, TypeOK, WorldType
    <3> QED
      BY <1>2, <3>2, <3>3 DEF Update, userFrame, TypeOK, WorldType
  <2> QED
    BY <1>2, <2>2, <2>3 DEF Update, TypeOK, MailType, HistoryType, userFrame
<1>3. ASSUME NEW id \in Ids, Delete(id)
      PROVE  WorldType' /\ MailType' /\ HistoryType'
  <2>1. delQ' \in Seq(Ids)
    BY <1>3, AppendType DEF Delete, Forward, TypeOK, MailType
  <2>2. WorldType'
    <3>1. [channel EXCEPT ![id] = "absent"] \in [Ids -> Contents]
      BY Vocabulary DEF TypeOK, WorldType
    <3>2. posted' = posted /\ channel' \in [Ids -> Contents]
      BY <1>3, <3>1 DEF Delete, Stores, TypeOK, WorldType
    <3>3. edits' \in Nat
      BY <1>3 DEF Delete, TypeOK, WorldType
    <3> QED
      BY <1>3, <3>2, <3>3 DEF Delete, userFrame, TypeOK, WorldType
  <2> QED
    BY <1>3, <2>1, <2>2 DEF Delete, TypeOK, MailType, HistoryType, userFrame
<1> QED
  BY <1>1, <1>2, <1>3 DEF UserNext

LEMMA RunnerKeeps == RunnerNext => UNCHANGED runnerFrame
BY DEF RunnerNext, RunnerLocks, RunnerAwaitsManual, RunnerConfirms,
       RunnerConfirmed, RunnerConfirmFails, RunnerFindsNothing, RunnerPops,
       RunnerCreateFails, RunnerStarts, RunnerMarks, RunnerSeesExit,
       RunnerWaitFails, RunnerReadsLogs, RunnerPanics, RunnerCleansUp

(* The runner: its position, the queue it pops, the state, the container.  *)
LEMMA RunnerTypeStep == TypeOK /\ RunnerNext => TypeOK'
<1> SUFFICES ASSUME TypeOK, RunnerNext
             PROVE  WorldType' /\ SharedType' /\ QueueType' /\ RunnerType'
  BY RunnerKeeps DEF TypeOK, runnerFrame, MailType, ProcType, ListenerType,
         HistoryType
<1>1. ASSUME RunnerLocks
      PROVE  WorldType' /\ SharedType' /\ QueueType' /\ RunnerType'
  BY <1>1, Vocabulary DEF RunnerLocks, runnerFrame, TypeOK, WorldType,
    SharedType, QueueType, RunnerType
<1>2. ASSUME RunnerAwaitsManual
      PROVE  WorldType' /\ SharedType' /\ QueueType' /\ RunnerType'
  BY <1>2, Vocabulary DEF RunnerAwaitsManual, runnerFrame, RunnerReleases,
    TypeOK, WorldType, SharedType, QueueType, RunnerType
<1>3. ASSUME RunnerConfirms
      PROVE  WorldType' /\ SharedType' /\ QueueType' /\ RunnerType'
  BY <1>3, Vocabulary DEF RunnerConfirms, runnerFrame, TypeOK, WorldType,
    SharedType, QueueType, RunnerType
<1>4. ASSUME RunnerConfirmed
      PROVE  WorldType' /\ SharedType' /\ QueueType' /\ RunnerType'
  BY <1>4, Vocabulary DEF RunnerConfirmed, runnerFrame, RunnerReleases,
    SetState, ConfirmResets, TypeOK, WorldType, SharedType, QueueType,
    RunnerType
<1>5. ASSUME RunnerConfirmFails
      PROVE  WorldType' /\ SharedType' /\ QueueType' /\ RunnerType'
  BY <1>5, Vocabulary DEF RunnerConfirmFails, runnerFrame, RunnerReleases,
    TypeOK, WorldType, SharedType, QueueType, RunnerType
<1>6. ASSUME RunnerFindsNothing
      PROVE  WorldType' /\ SharedType' /\ QueueType' /\ RunnerType'
  BY <1>6, Vocabulary DEF RunnerFindsNothing, runnerFrame, RunnerReleases,
    TypeOK, WorldType, SharedType, QueueType, RunnerType
<1>7. ASSUME RunnerPops
      PROVE  WorldType' /\ SharedType' /\ QueueType' /\ RunnerType'
  <2>1. /\ queue # <<>> /\ rtask' = Head(queue) /\ queue' = Tail(queue)
        /\ popped' = Append(popped, Head(queue)) /\ rpc' = "create"
    BY <1>7 DEF RunnerPops, PopFront
  <2>2. Head(queue) \in Ids /\ queue' \in Seq(Ids)
    BY <2>1, HeadTailType DEF TypeOK, QueueType
  <2>3. popped' \in Seq(Ids)
    BY <2>1, <2>2, AppendType DEF TypeOK, QueueType
  <2> QED
    BY <1>7, <2>1, <2>2, <2>3
    DEF RunnerPops, runnerFrame, TypeOK, WorldType, SharedType, QueueType,
        RunnerType
<1>8. ASSUME RunnerCreateFails
      PROVE  WorldType' /\ SharedType' /\ QueueType' /\ RunnerType'
  BY <1>8, Vocabulary DEF RunnerCreateFails, runnerFrame, RunnerReleases,
    SetState, TypeOK, WorldType, SharedType, QueueType, RunnerType
<1>9. ASSUME RunnerStarts
      PROVE  WorldType' /\ SharedType' /\ QueueType' /\ RunnerType'
  BY <1>9, Vocabulary DEF RunnerStarts, runnerFrame, TypeOK, WorldType,
    SharedType, QueueType, RunnerType
<1>10. ASSUME RunnerMarks
      PROVE  WorldType' /\ SharedType' /\ QueueType' /\ RunnerType'
  BY <1>10, Vocabulary DEF RunnerMarks, runnerFrame, SetState, TypeOK,
    WorldType, SharedType, QueueType, RunnerType
<1>11. ASSUME RunnerSeesExit
      PROVE  WorldType' /\ SharedType' /\ QueueType' /\ RunnerType'
  BY <1>11, Vocabulary DEF RunnerSeesExit, runnerFrame, SetState,
    StateAfterExit, TypeOK, WorldType, SharedType, QueueType, RunnerType
<1>12. ASSUME RunnerWaitFails
      PROVE  WorldType' /\ SharedType' /\ QueueType' /\ RunnerType'
  BY <1>12, Vocabulary DEF RunnerWaitFails, runnerFrame, TypeOK, WorldType,
    SharedType, QueueType, RunnerType
<1>13. ASSUME RunnerReadsLogs
      PROVE  WorldType' /\ SharedType' /\ QueueType' /\ RunnerType'
  BY <1>13, Vocabulary DEF RunnerReadsLogs, runnerFrame, TypeOK, WorldType,
    SharedType, QueueType, RunnerType
<1>14. ASSUME RunnerPanics
      PROVE  WorldType' /\ SharedType' /\ QueueType' /\ RunnerType'
  BY <1>14, Vocabulary DEF RunnerPanics, runnerFrame, TypeOK, WorldType,
    SharedType, QueueType, RunnerType
<1>15. ASSUME RunnerCleansUp
      PROVE  WorldType' /\ SharedType' /\ QueueType' /\ RunnerType'
  BY <1>15, Vocabulary DEF RunnerCleansUp, runnerFrame, RunnerReleases,
    SetState, TypeOK, WorldType, SharedType, QueueType, RunnerType
<1> QED
  BY <1>1, <1>2, <1>3, <1>4, <1>5, <1>6, <1>7, <1>8, <1>9, <1>10, <1>11,
     <1>12, <1>13, <1>14, <1>15 DEF RunnerNext

LEMMA ProcessorKeeps == ProcessorNext => UNCHANGED procFrame
BY DEF ProcessorNext, ProcTakesNew, ProcTakesUpdate, ProcTakesDelete,
       ProcLocksCek, ProcAdds, ProcIgnoresUpdate, ProcLocksRunner, ProcSkips,
       ProcDeletes, ProcStops

(* The processor: its event, its channels, the queue, the state.           *)
LEMMA ProcessorTypeStep == TypeOK /\ ProcessorNext => TypeOK'
<1> SUFFICES ASSUME TypeOK, ProcessorNext
             PROVE  MailType' /\ SharedType' /\ QueueType' /\ ProcType' /\ HistoryType'
  BY ProcessorKeeps DEF TypeOK, procFrame, WorldType, RunnerType, ListenerType
<1>1. ASSUME ProcTakesNew
      PROVE  MailType' /\ SharedType' /\ QueueType' /\ ProcType' /\ HistoryType'
  <2>1. newQ # <<>> /\ pevt' = Head(newQ) /\ newQ' = Tail(newQ) /\ ppc' = "newCek"
    BY <1>1 DEF ProcTakesNew
  <2>2. pevt' \in Events /\ newQ' \in Seq(Events)
    BY <2>1, HeadTailType DEF TypeOK, MailType
  <2> QED
    BY <1>1, <2>1, <2>2
    DEF ProcTakesNew, TypeOK, MailType, SharedType, QueueType, ProcType,
        HistoryType, procFrame
<1>2. ASSUME ProcTakesUpdate
      PROVE  MailType' /\ SharedType' /\ QueueType' /\ ProcType' /\ HistoryType'
  <2>1. updQ # <<>> /\ pevt' = Head(updQ) /\ updQ' = Tail(updQ) /\ ppc' = "updRunner"
    BY <1>2 DEF ProcTakesUpdate
  <2>2. pevt' \in Events /\ updQ' \in Seq(Events)
    BY <2>1, HeadTailType DEF TypeOK, MailType
  <2> QED
    BY <1>2, <2>1, <2>2
    DEF ProcTakesUpdate, TypeOK, MailType, SharedType, QueueType, ProcType,
        HistoryType, procFrame
<1>3. ASSUME ProcTakesDelete
      PROVE  MailType' /\ SharedType' /\ QueueType' /\ ProcType' /\ HistoryType'
  <2>1. /\ delQ # <<>> /\ pevt' = [id |-> Head(delQ), kind |-> "absent"]
        /\ delQ' = Tail(delQ) /\ ppc' = "delRunner"
    BY <1>3 DEF ProcTakesDelete
  <2>2. Head(delQ) \in Ids /\ delQ' \in Seq(Ids)
    BY <2>1, HeadTailType DEF TypeOK, MailType
  <2>3. pevt' \in Events
    BY <2>1, <2>2, Vocabulary
  <2> QED
    BY <1>3, <2>1, <2>2, <2>3
    DEF ProcTakesDelete, TypeOK, MailType, SharedType, QueueType, ProcType,
        HistoryType, procFrame
<1>4. ASSUME ProcLocksCek
      PROVE  MailType' /\ SharedType' /\ QueueType' /\ ProcType' /\ HistoryType'
  BY <1>4, Vocabulary DEF ProcLocksCek, procFrame, TypeOK, MailType,
    SharedType, QueueType, ProcType, HistoryType
<1>5. ASSUME ProcAdds
      PROVE  MailType' /\ SharedType' /\ QueueType' /\ ProcType' /\ HistoryType'
  <2>1. pevt \in Events /\ pevt.id \in Ids
    BY <1>5, Vocabulary DEF ProcAdds, TypeOK, ProcType
  <2>2. QueueType'
    <3>1. CASE pevt.kind = "run"
      <4>1. /\ queue' = AddTask(queue, lastAdded, pevt.id)
            /\ lastAdded' = LastAdded(lastAdded, pevt.id)
            /\ added' \subseteq added \cup {pevt.id} /\ popped' = popped
        BY <1>5, <3>1 DEF ProcAdds, procFrame
      <4>2. AddTask(queue, lastAdded, pevt.id) \in Seq(Ids)
        BY <2>1, AddTaskType DEF TypeOK, QueueType
      <4>3. LastAdded(lastAdded, pevt.id) \in 0..MaxMessages
        BY <2>1, LastAddedType DEF TypeOK, QueueType
      <4> QED
        BY <2>1, <4>1, <4>2, <4>3 DEF TypeOK, QueueType
    <3>2. CASE pevt.kind # "run"
      BY <1>5, <3>2 DEF ProcAdds, procFrame, TypeOK, QueueType
    <3> QED
      BY <3>1, <3>2
  <2>3. MailType' /\ ProcType'
    BY <1>5, ProcDoneType DEF ProcAdds, TypeOK
  <2> QED
    BY <1>5, <2>2, <2>3
    DEF ProcAdds, procFrame, TypeOK, SharedType, HistoryType
<1>6. ASSUME ProcIgnoresUpdate
      PROVE  MailType' /\ SharedType' /\ QueueType' /\ ProcType' /\ HistoryType'
  <2>1. MailType' /\ ProcType'
    BY <1>6, ProcDoneType DEF ProcIgnoresUpdate, TypeOK
  <2> QED
    BY <1>6, <2>1
    DEF ProcIgnoresUpdate, procFrame, TypeOK, SharedType, QueueType,
        HistoryType
<1>7. ASSUME ProcLocksRunner
      PROVE  MailType' /\ SharedType' /\ QueueType' /\ ProcType' /\ HistoryType'
  BY <1>7, Vocabulary DEF ProcLocksRunner, procFrame, TypeOK, MailType,
    SharedType, QueueType, ProcType, HistoryType
<1>8. ASSUME ProcSkips
      PROVE  MailType' /\ SharedType' /\ QueueType' /\ ProcType' /\ HistoryType'
  <2>1. MailType' /\ ProcType'
    BY <1>8, ProcDoneType DEF ProcSkips, TypeOK
  <2>2. SharedType'
    BY <1>8, Vocabulary DEF ProcSkips, procFrame, SetState, TypeOK, SharedType
  <2> QED
    BY <1>8, <2>1, <2>2
    DEF ProcSkips, procFrame, TypeOK, QueueType, HistoryType
<1>9. ASSUME ProcDeletes
      PROVE  MailType' /\ SharedType' /\ QueueType' /\ ProcType' /\ HistoryType'
  <2>1. pevt \in Events /\ pevt.id \in Ids
    BY <1>9, Vocabulary DEF ProcDeletes, TypeOK, ProcType
  <2>2. MailType' /\ ProcType'
    BY <1>9, ProcDoneType DEF ProcDeletes, TypeOK
  <2>3. SharedType'
    BY <1>9, Vocabulary
    DEF ProcDeletes, procFrame, SetState, TypeOK, SharedType
  <2>4. queue' \in Seq(Ids)
    BY <1>9, DeleteTaskType DEF ProcDeletes, TypeOK, QueueType
  <2> QED
    BY <1>9, <2>1, <2>2, <2>3, <2>4
    DEF ProcDeletes, procFrame, TypeOK, QueueType, HistoryType
<1>10. ASSUME ProcStops
      PROVE  MailType' /\ SharedType' /\ QueueType' /\ ProcType' /\ HistoryType'
  BY <1>10, Vocabulary DEF ProcStops, procFrame, TypeOK, MailType, SharedType,
    QueueType, ProcType, HistoryType
<1> QED
  BY <1>1, <1>2, <1>3, <1>4, <1>5, <1>6, <1>7, <1>8, <1>9, <1>10 DEF
     ProcessorNext

LEMMA ListenerKeeps == ListenerNext => UNCHANGED listenerFrame
BY DEF ListenerNext, ListenerConnects, ListenerLoadsChannel,
       ListenerLoadFails, ListenerLocksCek, ListenerConverts, ListenerPanics,
       ListenerAdds, ListenerEndsLoad, ListenerSubscribes, ListenerRetries

(* The listener: its position and locals, the queue, the state.            *)
LEMMA ListenerTypeStep == TypeOK /\ ListenerNext => TypeOK'
<1> SUFFICES ASSUME TypeOK, ListenerNext
             PROVE  WorldType' /\ SharedType' /\ QueueType' /\ ListenerType'
  BY ListenerKeeps DEF TypeOK, listenerFrame, MailType, RunnerType, ProcType,
         HistoryType
<1>1. ASSUME ListenerConnects
      PROVE  WorldType' /\ SharedType' /\ QueueType' /\ ListenerType'
  BY <1>1, Vocabulary DEF ListenerConnects, listenerFrame, TypeOK, WorldType,
    SharedType, QueueType, ListenerType
<1>2. ASSUME ListenerLoadsChannel
      PROVE  WorldType' /\ SharedType' /\ QueueType' /\ ListenerType'
  BY <1>2, Vocabulary DEF ListenerLoadsChannel, listenerFrame, TypeOK,
    WorldType, SharedType, QueueType, ListenerType
<1>3. ASSUME ListenerLoadFails
      PROVE  WorldType' /\ SharedType' /\ QueueType' /\ ListenerType'
  BY <1>3, Vocabulary DEF ListenerLoadFails, listenerFrame, TypeOK, WorldType,
    SharedType, QueueType, ListenerType
<1>4. ASSUME ListenerLocksCek
      PROVE  WorldType' /\ SharedType' /\ QueueType' /\ ListenerType'
  BY <1>4, Vocabulary DEF ListenerLocksCek, listenerFrame, TypeOK, WorldType,
    SharedType, QueueType, ListenerType
<1>5. ASSUME ListenerConverts
      PROVE  WorldType' /\ SharedType' /\ QueueType' /\ ListenerType'
  BY <1>5, Vocabulary DEF ListenerConverts, listenerFrame, SetState, Unread,
    TypeOK, WorldType, SharedType, QueueType, ListenerType
<1>6. ASSUME ListenerPanics
      PROVE  WorldType' /\ SharedType' /\ QueueType' /\ ListenerType'
  BY <1>6, Vocabulary DEF ListenerPanics, listenerFrame, TypeOK, WorldType,
    SharedType, QueueType, ListenerType
<1>7. ASSUME ListenerAdds
      PROVE  WorldType' /\ SharedType' /\ QueueType' /\ ListenerType'
  <2> DEFINE id == Oldest(toAdd)
  <2>1. /\ toAdd # {} /\ toAdd' = toAdd \ {id} /\ queue' = AddTask(queue, lastAdded, id)
        /\ lastAdded' = LastAdded(lastAdded, id)
        /\ added' = IF CanAddTask(lastAdded, id) THEN added \cup {id} ELSE added
    BY <1>7 DEF ListenerAdds
  <2>2. id \in toAdd /\ id \in Ids
    BY <2>1, OldestIn, Vocabulary DEF TypeOK, ListenerType
  <2> HIDE DEF id
  <2>3. QueueType'
    BY <1>7, <2>1, <2>2, Vocabulary, AddTaskType, LastAddedType
    DEF ListenerAdds, listenerFrame, TypeOK, QueueType
  <2> QED
    BY <1>7, <2>1, <2>2, <2>3
    DEF ListenerAdds, listenerFrame, TypeOK, WorldType, SharedType,
        ListenerType
<1>8. ASSUME ListenerEndsLoad
      PROVE  WorldType' /\ SharedType' /\ QueueType' /\ ListenerType'
  <2>1. queue' \in Seq(Ids)
    BY <1>8, DedupType DEF ListenerEndsLoad, TypeOK, QueueType
  <2> QED
    BY <1>8, <2>1
    DEF ListenerEndsLoad, LoadReleases, listenerFrame, TypeOK, WorldType,
        SharedType, QueueType, ListenerType
<1>9. ASSUME ListenerSubscribes
      PROVE  WorldType' /\ SharedType' /\ QueueType' /\ ListenerType'
  BY <1>9, Vocabulary DEF ListenerSubscribes, listenerFrame, TypeOK,
    WorldType, SharedType, QueueType, ListenerType
<1>10. ASSUME ListenerRetries
      PROVE  WorldType' /\ SharedType' /\ QueueType' /\ ListenerType'
  BY <1>10, Vocabulary DEF ListenerRetries, listenerFrame, TypeOK, WorldType,
    SharedType, QueueType, ListenerType
<1> QED
  BY <1>1, <1>2, <1>3, <1>4, <1>5, <1>6, <1>7, <1>8, <1>9, <1>10 DEF
     ListenerNext

LEMMA WorldKeeps == WorldNext => Crash \/ UNCHANGED worldFrame
BY DEF WorldNext, TxLands, LateTxLands, LinkDrops, BoxExits

(* The crash: every part of the process starts again.                      *)
LEMMA CrashTypeStep == TypeOK /\ Crash => TypeOK'
<1> SUFFICES ASSUME TypeOK, Crash
             PROVE  TypeOK'
  OBVIOUS
<1>1. WorldType'
  <2>1. tx = "sent" => rtask \in Ids
    BY DEF TypeOK, RunnerType
  <2>2. late' \subseteq Ids
    BY <2>1 DEF Crash, TypeOK, WorldType
  <2>3. crashes' \in Nat
    BY DEF Crash, TypeOK, WorldType
  <2>4. link' \in BOOLEAN
    <3>1. link' = FALSE
      BY DEF Crash
    <3> QED
      BY <3>1
  <2> QED
    <3>1. UNCHANGED <<posted, channel, lastRead, edits, drops, box>>
      BY DEF Crash
    <3> QED
      BY <2>2, <2>3, <2>4, <3>1 DEF TypeOK, WorldType
<1>2. MailType'
  BY DEF Crash, MailType
<1>3. SharedType'
  BY Vocabulary DEF Crash, TypeOK, WorldType, SharedType
<1>4. QueueType'
  BY Vocabulary DEF Crash, QueueType
<1>5. RunnerType' /\ ProcType'
  BY DEF Crash, RunnerType, ProcType
<1>6. ListenerType'
  BY Vocabulary DEF Crash, ListenerType
<1>7. HistoryType'
  BY DEF Crash, TypeOK, HistoryType
<1> QED
  BY <1>1, <1>2, <1>3, <1>4, <1>5, <1>6, <1>7 DEF TypeOK

(* The world: what lands, breaks or exits, and the crash.                  *)
LEMMA WorldTypeStep == TypeOK /\ WorldNext => TypeOK'
<1>1. ASSUME TypeOK, WorldNext, ~Crash
      PROVE  TypeOK'
  <2> SUFFICES WorldType' /\ RunnerType' /\ HistoryType'
    BY <1>1, WorldKeeps DEF TypeOK, worldFrame, MailType, SharedType,
           QueueType, ProcType, ListenerType
  <2>1. CASE TxLands
    BY <1>1, <2>1, Vocabulary
    DEF TxLands, Lands, worldFrame, TypeOK, WorldType, RunnerType, HistoryType
  <2>2. ASSUME NEW id \in Ids, LateTxLands(id)
        PROVE  WorldType' /\ RunnerType' /\ HistoryType'
    BY <1>1, <2>2, Vocabulary
    DEF LateTxLands, Lands, worldFrame, TypeOK, WorldType, RunnerType,
        HistoryType
  <2>3. CASE LinkDrops
    <3>1. WorldType'
      <4>1. drops' = drops + 1 /\ link' = FALSE
        BY <2>3 DEF LinkDrops
      <4>2. drops' \in Nat
        BY <1>1, <4>1 DEF TypeOK, WorldType
      <4>3. link' \in BOOLEAN
        BY <4>1
      <4> QED
        <5>1. UNCHANGED <<posted, channel, lastRead, late, edits, crashes, box>>
          BY <2>3 DEF LinkDrops, worldFrame
        <5> QED
          BY <1>1, <4>2, <4>3, <5>1 DEF TypeOK, WorldType
    <3> QED
      BY <1>1, <2>3, <3>1
      DEF LinkDrops, worldFrame, TypeOK, RunnerType, HistoryType
  <2>4. ASSUME NEW st \in {"ok", "failed"}, BoxExits(st)
        PROVE  WorldType' /\ RunnerType' /\ HistoryType'
    BY <1>1, <2>4, Vocabulary
    DEF BoxExits, worldFrame, TypeOK, WorldType, RunnerType, HistoryType
  <2> QED
    BY <1>1, <2>1, <2>2, <2>3, <2>4 DEF WorldNext
<1> QED
  BY <1>1, CrashTypeStep

LEMMA InitTypeOK == Init => TypeOK
<1> SUFFICES ASSUME Init
             PROVE  TypeOK
  OBVIOUS
<1>1. WorldType
  <2>1. /\ posted \in 0..MaxMessages /\ lastRead \in 0..MaxMessages
        /\ edits \in Nat /\ drops \in Nat /\ crashes \in Nat
    BY Vocabulary DEF Init
  <2>2. channel \in [Ids -> Contents] /\ box \in Boxes
    BY Vocabulary DEF Init
  <2>3. late \subseteq Ids /\ link \in BOOLEAN
    BY DEF Init
  <2> QED
    BY <2>1, <2>2, <2>3 DEF WorldType
<1>2. MailType
  BY DEF Init, MailType
<1>3. SharedType
  BY Vocabulary DEF Init, SharedType
<1>4. QueueType
  BY Vocabulary DEF Init, QueueType
<1>5. RunnerType /\ ProcType
  BY DEF Init, RunnerType, ProcType
<1>6. ListenerType /\ HistoryType
  BY Vocabulary DEF Init, ListenerType, HistoryType
<1> QED
  BY <1>1, <1>2, <1>3, <1>4, <1>5, <1>6 DEF TypeOK

LEMMA NextTypeOK == TypeOK /\ [Next]_vars => TypeOK'
<1>1. TypeOK /\ UNCHANGED vars => TypeOK'
  BY DEF vars, TypeOK, WorldType, MailType, SharedType, QueueType, RunnerType,
         ProcType, ListenerType, HistoryType
<1> QED
  BY <1>1, UserTypeStep, WorldTypeStep, RunnerTypeStep, ProcessorTypeStep,
     ListenerTypeStep DEF Next

(* The variables of the agent keep their types.                            *)
THEOREM AgentTypeOK == Spec => []TypeOK
BY InitTypeOK, NextTypeOK, PTL DEF Spec
=============================================================================
