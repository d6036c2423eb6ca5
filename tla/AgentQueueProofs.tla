-------------------------- MODULE AgentQueueProofs --------------------------
(***************************************************************************)
(* The agent implements the queue of module TaskQueue: every step of the   *)
(* agent is one operation of the queue, or leaves the queue alone.  What   *)
(* is proved of the queue by itself is then true of the agent, and it says *)
(* how often a task may run.                                               *)
(***************************************************************************)
EXTENDS AgentSafetyProofs

QueueTheorems == INSTANCE TaskQueueProofs WITH MaxId <- MaxMessages

USE DEF chainVars, mailVars, queueVars, stateVars, runnerVars, procVars,
        listenerVars, worldVars

(* The operators that the instance names are those of TaskQueueOps.        *)
LEMMA SameOperators ==
  /\ \A q, last, id : QueueSpec!AddTask(q, last, id) = AddTask(q, last, id)
  /\ \A last, id : QueueSpec!LastAdded(last, id) = LastAdded(last, id)
  /\ \A q, id : QueueSpec!DeleteTask(q, id) = DeleteTask(q, id)
  /\ \A q : QueueSpec!Dedup(q) = Dedup(q)
<1>1. \A q, K : QueueSpec!Retain(q, K) = Retain(q, K)
  BY DEF QueueSpec!Retain, QueueSpec!Rank, QueueSpec!Cardinality,
         Retain, Rank, Cardinality
<1>2. \A q, id : QueueSpec!DeleteTask(q, id) = DeleteTask(q, id)
  BY <1>1 DEF QueueSpec!DeleteTask, DeleteTask
<1>3. \A q : QueueSpec!Dedup(q) = Dedup(q)
  BY <1>1 DEF QueueSpec!Dedup, Dedup
<1> QED
  BY <1>2, <1>3
  DEF QueueSpec!AddTask, AddTask, QueueSpec!LastAdded, LastAdded,
      QueueSpec!CanAddTask, CanAddTask

LEMMA RunnerQueueStep ==
  TypeOK /\ RunnerNext => [QueueSpec!Next]_<<queue, lastAdded, popped>>
<1> SUFFICES ASSUME TypeOK, RunnerNext
             PROVE  [QueueSpec!Next]_<<queue, lastAdded, popped>>
  OBVIOUS
<1>1. CASE RunnerPops
  <2>1. QueueSpec!Pop
    BY <1>1 DEF RunnerPops, PopFront, runnerFrame, QueueSpec!Pop
  <2> QED
    BY <2>1 DEF QueueSpec!Next
<1>2. CASE ~RunnerPops
  <2>1. UNCHANGED <<queue, lastAdded, popped>>
    BY <1>2
    DEF RunnerNext, runnerFrame, RunnerLocks, RunnerAwaitsManual,
        RunnerConfirms, RunnerConfirmed, RunnerConfirmFails,
        RunnerFindsNothing, RunnerCreateFails, RunnerStarts, RunnerMarks,
        RunnerSeesExit, RunnerWaitFails, RunnerReadsLogs, RunnerPanics,
        RunnerCleansUp
  <2> QED
    BY <2>1
<1> QED
  BY <1>1, <1>2

LEMMA ProcessorQueueStep ==
  TypeOK /\ ProcessorNext => [QueueSpec!Next]_<<queue, lastAdded, popped>>
<1> SUFFICES ASSUME TypeOK, ProcessorNext
             PROVE  [QueueSpec!Next]_<<queue, lastAdded, popped>>
  OBVIOUS
<1>1. CASE ProcAdds
  <2>1. pevt.id \in QueueSpec!Ids
    BY <1>1, Vocabulary DEF ProcAdds, TypeOK, ProcType, QueueSpec!Ids
  <2>2. CASE pevt.kind = "run"
    <3>1. QueueSpec!Add(pevt.id)
      BY <1>1, <2>2, SameOperators DEF ProcAdds, procFrame, QueueSpec!Add
    <3> QED
      BY <2>1, <3>1 DEF QueueSpec!Next
  <2>3. CASE pevt.kind # "run"
    BY <1>1, <2>3 DEF ProcAdds, procFrame
  <2> QED
    BY <2>2, <2>3
<1>2. CASE ProcDeletes
  <2>1. pevt.id \in QueueSpec!Ids
    BY <1>2, Vocabulary DEF ProcDeletes, TypeOK, ProcType, QueueSpec!Ids
  <2>2. QueueSpec!Delete(pevt.id)
    BY <1>2, SameOperators DEF ProcDeletes, procFrame, QueueSpec!Delete
  <2> QED
    BY <2>1, <2>2 DEF QueueSpec!Next
<1>3. CASE ~ProcAdds /\ ~ProcDeletes
  <2>1. UNCHANGED <<queue, lastAdded, popped>>
    BY <1>3
    DEF ProcessorNext, procFrame, ProcTakesNew, ProcTakesUpdate,
        ProcTakesDelete, ProcLocksCek, ProcIgnoresUpdate, ProcLocksRunner,
        ProcSkips, ProcStops
  <2> QED
    BY <2>1
<1> QED
  BY <1>1, <1>2, <1>3

LEMMA ListenerQueueStep ==
  TypeOK /\ ListenerNext => [QueueSpec!Next]_<<queue, lastAdded, popped>>
<1> SUFFICES ASSUME TypeOK, ListenerNext
             PROVE  [QueueSpec!Next]_<<queue, lastAdded, popped>>
  OBVIOUS
<1>1. CASE ListenerAdds
  <2>1. Oldest(toAdd) \in QueueSpec!Ids
    BY <1>1, OldestIn, Vocabulary
    DEF ListenerAdds, TypeOK, ListenerType, QueueSpec!Ids
  <2>2. QueueSpec!Add(Oldest(toAdd))
    BY <1>1, SameOperators DEF ListenerAdds, listenerFrame, QueueSpec!Add
  <2> QED
    BY <2>1, <2>2 DEF QueueSpec!Next
<1>2. CASE ListenerEndsLoad
  <2>1. QueueSpec!DedupQueue
    BY <1>2, SameOperators
    DEF ListenerEndsLoad, listenerFrame, QueueSpec!DedupQueue
  <2> QED
    BY <2>1 DEF QueueSpec!Next
<1>3. CASE ~ListenerAdds /\ ~ListenerEndsLoad
  <2>1. UNCHANGED <<queue, lastAdded, popped>>
    BY <1>3
    DEF ListenerNext, listenerFrame, ListenerConnects, ListenerLoadsChannel,
        ListenerLoadFails, ListenerLocksCek, ListenerConverts,
        ListenerPanics, ListenerSubscribes, ListenerRetries
  <2> QED
    BY <2>1
<1> QED
  BY <1>1, <1>2, <1>3

(* A crash is a restart; the user and the rest of the world do not reach   *)
(* the queue.                                                              *)
LEMMA OutsideQueueStep ==
  UserNext \/ WorldNext => [QueueSpec!Next]_<<queue, lastAdded, popped>>
<1>1. ASSUME UserNext
      PROVE  UNCHANGED <<queue, lastAdded, popped>>
  BY <1>1, UserKeeps DEF userFrame
<1>2. ASSUME Crash
      PROVE  QueueSpec!Next
  BY <1>2 DEF Crash, QueueSpec!Restart, QueueSpec!Next
<1>3. ASSUME WorldNext, ~Crash
      PROVE  UNCHANGED <<queue, lastAdded, popped>>
  BY <1>3, WorldKeeps DEF worldFrame
<1> QED
  BY <1>1, <1>2, <1>3

LEMMA QueueStep ==
  TypeOK /\ [Next]_vars => [QueueSpec!Next]_(QueueSpec!queueVars)
<1>1. UNCHANGED vars => UNCHANGED <<queue, lastAdded, popped>>
  BY DEF vars
<1> QED
  BY <1>1, RunnerQueueStep, ProcessorQueueStep, ListenerQueueStep,
     OutsideQueueStep DEF Next, QueueSpec!queueVars

(* The agent implements the queue: the calls of its three tasks and its    *)
(* crashes are operations of the queue.                                    *)
THEOREM AgentImplementsQueue == Spec => QueueImplemented
<1>1. Init => QueueSpec!Init
  BY DEF Init, QueueSpec!Init
<1> QED
  BY <1>1, QueueStep, AgentTypeOK, PTL
  DEF Spec, QueueImplemented, QueueSpec!Spec

(* The specification and the invariant of the two instances are the same.  *)
LEMMA SameQueue ==
  /\ QueueSpec!Init => QueueTheorems!Init
  /\ [QueueSpec!Next]_(QueueSpec!queueVars)
       => [QueueTheorems!Next]_(QueueTheorems!queueVars)
  /\ QueueTheorems!TakenInOrder => QueueSpec!TakenInOrder
<1>1. QueueSpec!Init => QueueTheorems!Init
  BY DEF QueueSpec!Init, QueueTheorems!Init
<1>2. [QueueSpec!Next]_(QueueSpec!queueVars)
        => [QueueTheorems!Next]_(QueueTheorems!queueVars)
  BY DEF QueueSpec!Next, QueueTheorems!Next, QueueSpec!Ids,
      QueueTheorems!Ids, QueueSpec!Add, QueueTheorems!Add,
      QueueSpec!Delete, QueueTheorems!Delete, QueueSpec!DedupQueue,
      QueueTheorems!DedupQueue, QueueSpec!Clear, QueueTheorems!Clear,
      QueueSpec!Pop, QueueTheorems!Pop, QueueSpec!Restart,
      QueueTheorems!Restart, QueueSpec!AddTask, QueueTheorems!AddTask,
      QueueSpec!LastAdded, QueueTheorems!LastAdded,
      QueueSpec!CanAddTask, QueueTheorems!CanAddTask,
      QueueSpec!DeleteTask, QueueTheorems!DeleteTask, QueueSpec!Dedup,
      QueueTheorems!Dedup, QueueSpec!Retain, QueueTheorems!Retain,
      QueueSpec!Rank, QueueTheorems!Rank, QueueSpec!Cardinality,
      QueueTheorems!Cardinality, QueueSpec!queueVars,
      QueueTheorems!queueVars
<1>3. QueueTheorems!TakenInOrder => QueueSpec!TakenInOrder
  BY DEF QueueSpec!TakenInOrder, QueueTheorems!TakenInOrder,
      QueueSpec!Ascending, QueueTheorems!Ascending, QueueSpec!Queued,
      QueueTheorems!Queued
<1> QED
  BY <1>1, <1>2, <1>3

(* What implements the queue of the one instance implements that of the    *)
(* other.                                                                  *)
LEMMA AgentImplementsTheQueue == Spec => QueueTheorems!Spec
<1>1. QueueSpec!Spec => QueueTheorems!Spec
  BY SameQueue, PTL DEF QueueSpec!Spec, QueueTheorems!Spec
<1> QED
  BY <1>1, AgentImplementsQueue DEF QueueImplemented

(* The agent takes tasks in the order of their ids, each at most once      *)
(* between two starts, whatever the listener and the processor add.        *)
THEOREM AgentTakenInOrder == Spec => []TakenInOrder
<1>1. QueueTheorems!Spec => []QueueTheorems!TakenInOrder
  BY QueueTheorems!QueueTakenInOrder, AgentAssumption
<1>2. []QueueTheorems!TakenInOrder => []QueueSpec!TakenInOrder
  BY SameQueue, PTL
<1> QED
  BY <1>1, <1>2, AgentImplementsTheQueue, PTL DEF TakenInOrder

(* The dedup that load_tasks ends with never has anything to remove,       *)
(* although the stream and the snapshot bring the same messages.           *)
THEOREM AgentDedupRemovesNothing == Spec => []DedupRemovesNothing
<1>1. QueueTheorems!Spec => []QueueTheorems!DedupRemovesNothing
  BY QueueTheorems!QueueDedupRemovesNothing, AgentAssumption
<1>2. QueueTheorems!DedupRemovesNothing => QueueSpec!DedupRemovesNothing
  BY DEF QueueTheorems!DedupRemovesNothing, QueueSpec!DedupRemovesNothing,
      QueueTheorems!Dedup, QueueSpec!Dedup, QueueTheorems!Retain,
      QueueSpec!Retain, QueueTheorems!Rank, QueueSpec!Rank,
      QueueTheorems!Cardinality, QueueSpec!Cardinality
<1> QED
  BY <1>1, <1>2, AgentImplementsTheQueue, PTL DEF DedupRemovesNothing

(* A task that left the queue, taken, deleted or passed over, does not     *)
(* come back through any reload, stream event or order of the two before   *)
(* the process restarts.                                                   *)
THEOREM AgentNeverReadmitted == Spec => NeverReadmitted
<1>1. QueueTheorems!Spec => QueueTheorems!NeverReadmitted
  BY QueueTheorems!QueueNeverReadmitted, AgentAssumption
<1>2. QueueTheorems!NeverReadmitted => QueueSpec!NeverReadmitted
  BY DEF QueueTheorems!NeverReadmitted, QueueSpec!NeverReadmitted,
      QueueTheorems!Ids, QueueSpec!Ids, QueueTheorems!Queued,
      QueueSpec!Queued, QueueTheorems!queueVars, QueueSpec!queueVars
<1> QED
  BY <1>1, <1>2, AgentImplementsTheQueue DEF NeverReadmitted

-----------------------------------------------------------------------------
(* What a process that never restarted has run.  A task that is about to   *)
(* run was at the front of the queue, hence after everything taken before. *)
LEMMA FrontIsNew ==
  ASSUME TypeOK, TakenInOrder, queue # <<>>
  PROVE  /\ Head(queue) \in Ids /\ Head(queue) \notin Queued(popped)
         /\ Queued(Append(popped, Head(queue)))
              = Queued(popped) \cup {Head(queue)}
<1>1. queue \in Seq(Ids) /\ popped \in Seq(Ids)
  BY DEF TypeOK, QueueType
<1>2. Head(queue) = queue[1] /\ 1 \in DOMAIN queue /\ Head(queue) \in Ids
  BY <1>1, HeadTailProperties, LenProperties
<1>3. Head(queue) \in QueueSpec!Queued(queue)
  BY <1>2 DEF QueueSpec!Queued
<1>4. \A x \in QueueSpec!Queued(popped) : x < Head(queue)
  BY <1>3 DEF TakenInOrder, QueueSpec!TakenInOrder
<1>5. QueueSpec!Queued(popped) = Queued(popped)
  BY DEF QueueSpec!Queued, Queued
<1>6. Head(queue) \notin Queued(popped)
  BY <1>2, <1>4, <1>5, Vocabulary
<1>7. Queued(Append(popped, Head(queue))) = Queued(popped) \cup {Head(queue)}
  <2>1. /\ DOMAIN Append(popped, Head(queue)) = 1..(Len(popped) + 1)
        /\ Append(popped, Head(queue))[Len(popped) + 1] = Head(queue)
        /\ \A i \in 1..Len(popped) : Append(popped, Head(queue))[i] = popped[i]
        /\ DOMAIN popped = 1..Len(popped) /\ Len(popped) \in Nat
    BY <1>1, <1>2, AppendProperties, LenProperties
  <2> QED
    BY <2>1 DEF Queued
<1> QED
  BY <1>2, <1>6, <1>7

(* A step that takes nothing keeps TakenFollows, if what it adds to        *)
(* Settled is the task of the run.                                         *)
Running == rpc \in {"create", "mark", "wait", "logs", "cleanup"}
LEMMA SettlesOwnTask ==
  ASSUME TypeOK, TakenFollows, UNCHANGED <<crashes, popped>>,
         rpc' # "create",
         rpc' \in {"mark", "wait", "logs", "cleanup"}
           => Running /\ rtask' = rtask,
         \A x \in Settled' : x \in Settled \/ x = 0 \/ (Running /\ x = rtask)
  PROVE  TakenFollows'
BY DEF TakenFollows, Running

LEMMA RunnerTakenStep ==
  ASSUME Inductive, TakenInOrder, TakenFollows, RunnerNext
  PROVE  TakenFollows'
<1>0. UNCHANGED <<crashes, succeeded>> /\ TypeOK /\ RunIsUndisturbed
  BY RunnerKeeps DEF runnerFrame, Inductive
<1>1. CASE RunnerPops
  <2>1. /\ rpc' = "create" /\ rtask' = Head(queue)
        /\ UNCHANGED <<state, box, lastTask>>
        /\ queue # <<>> /\ popped' = Append(popped, Head(queue))
    BY <1>1 DEF RunnerPops
  <2>2. /\ Head(queue) \in Ids /\ Head(queue) \notin Queued(popped)
        /\ Queued(popped') = Queued(popped) \cup {Head(queue)}
    BY <1>0, <2>1, FrontIsNew
  <2>3. Head(queue) # 0
    BY <2>2 DEF Ids
  <2>4. Settled' = Settled
    BY <1>0, <2>1 DEF Settled
  <2> QED
    BY <1>0, <2>1, <2>2, <2>3, <2>4 DEF TakenFollows
<1>2. CASE RunnerStarts
  <2>1. /\ rpc = "create" /\ rpc' = "mark" /\ rtask' = rtask
        /\ box'.task = rtask /\ UNCHANGED <<popped, state, lastTask>>
    BY <1>2 DEF RunnerStarts
  <2> QED
    BY <1>0, <2>1, SettlesOwnTask DEF Settled, Running
<1>3. CASE RunnerCreateFails
  <2>1. /\ rpc = "create" /\ rpc' = "loop" /\ UNCHANGED <<popped, lastTask>>
        /\ box'.task \in {box.task, 0, rtask} /\ state'.task = rtask
    BY <1>3, StateForms
    DEF RunnerCreateFails, RunnerReleases, SetState, NoBox
  <2> QED
    BY <1>0, <2>1, SettlesOwnTask DEF Settled, Running
<1>4. CASE RunnerMarks \/ RunnerSeesExit
  <2>1. /\ rpc \in {"mark", "wait"} /\ rpc' \in {"wait", "logs"}
        /\ rtask' = rtask /\ state'.task = rtask
        /\ UNCHANGED <<popped, lastTask, box>>
    BY <1>4 DEF RunnerMarks, RunnerSeesExit, SetState, StateAfterExit,
                Processing, Complete, Failed
  <2> QED
    BY <1>0, <2>1, SettlesOwnTask DEF Settled, Running
<1>5. CASE RunnerCleansUp
  <2>1. /\ rpc = "cleanup" /\ rpc' = "loop" /\ UNCHANGED <<popped, lastTask>>
        /\ box'.task \in {box.task, 0} /\ state'.task \in {state.task, rtask}
    BY <1>5, StateForms DEF RunnerCleansUp, RunnerReleases, SetState, NoBox
  <2> QED
    BY <1>0, <2>1, SettlesOwnTask DEF Settled, Running
<1>6. CASE RunnerConfirmed
  <2>1. /\ rpc' = "loop" /\ UNCHANGED <<popped, box>> /\ state'.task = 0
        /\ lastTask' = state.task
    BY <1>0, <1>6
    DEF RunnerConfirmed, RunnerReleases, ConfirmResets, SetState, Pending,
        RunIsUndisturbed, Complete
  <2> QED
    BY <1>0, <2>1, SettlesOwnTask DEF Settled, Running
<1>7. CASE \/ RunnerLocks \/ RunnerAwaitsManual \/ RunnerConfirms
           \/ RunnerConfirmFails \/ RunnerFindsNothing \/ RunnerWaitFails
           \/ RunnerReadsLogs \/ RunnerPanics
  <2>1. /\ UNCHANGED <<popped, state, box, lastTask>> /\ rpc' # "create"
        /\ rpc' \in {"mark", "wait", "logs", "cleanup"}
             => Running /\ rtask' = rtask
    BY <1>7
    DEF RunnerLocks, RunnerAwaitsManual, RunnerConfirms, RunnerConfirmFails,
        RunnerFindsNothing, RunnerWaitFails, RunnerReadsLogs, RunnerPanics,
        RunnerReleases, Running
  <2> QED
    BY <1>0, <2>1, SettlesOwnTask DEF Settled
<1> QED
  BY <1>1, <1>2, <1>3, <1>4, <1>5, <1>6, <1>7 DEF RunnerNext

LEMMA OtherTakenStep ==
  ASSUME Inductive, TakenFollows,
         \/ ProcessorNext \/ ListenerNext \/ UserNext
         \/ WorldNext \/ UNCHANGED vars
  PROVE  TakenFollows'
<1>1. CASE /\ UNCHANGED <<crashes, popped, rpc, rtask>>
           /\ Settled' \subseteq Settled \cup {0}
  <2>1. rpc = "create" => rtask # 0
    BY Vocabulary DEF Inductive, TypeOK, RunnerType
  <2>2. \A x \in Settled' : x \in Settled \/ x = 0
    BY <1>1
  <2> QED
    BY <1>1, <2>1, <2>2 DEF TakenFollows
<1>2. CASE ProcessorNext \/ ListenerNext
  <2>1. UNCHANGED <<crashes, popped, rpc, rtask, succeeded, box, lastTask>>
    BY <1>2, ProcessorKeeps, ListenerKeeps DEF procFrame, listenerFrame
  <2>2. state'.task \in {state.task, 0}
    BY <1>2, OthersSetState, StateForms DEF Inductive, SetState, Pending
  <2>3. Settled' \subseteq Settled \cup {0}
    BY <2>1, <2>2 DEF Settled
  <2> QED
    BY <1>1, <2>1, <2>3
<1>3. CASE UserNext \/ UNCHANGED vars
  <2>1. UNCHANGED <<crashes, popped, rpc, rtask, succeeded, box, lastTask,
                    state>>
    BY <1>3, UserKeeps DEF userFrame, vars
  <2> QED
    BY <1>1, <2>1 DEF Settled
<1>4. CASE Crash
  <2>1. crashes' # 0 /\ rpc' = "loop"
    BY <1>4 DEF Crash, Inductive, TypeOK, WorldType
  <2> QED
    BY <2>1 DEF TakenFollows
<1>5. CASE TxLands \/ LinkDrops \/ \E id \in Ids : LateTxLands(id)
  <2>1. UNCHANGED <<crashes, popped, rpc, rtask, succeeded, box, lastTask,
                    state>>
    BY <1>5 DEF TxLands, LinkDrops, LateTxLands, worldFrame
  <2> QED
    BY <1>1, <2>1 DEF Settled
<1>6. ASSUME NEW st \in {"ok", "failed"}, BoxExits(st)
      PROVE  TakenFollows'
  <2>1. /\ UNCHANGED <<crashes, popped, rpc, rtask, lastTask, state>>
        /\ box'.task = box.task
        /\ succeeded' \subseteq succeeded \cup {box.task}
    BY <1>6 DEF BoxExits, worldFrame
  <2>2. Settled' \subseteq Settled
    BY <2>1 DEF Settled
  <2> QED
    BY <1>1, <2>1, <2>2
<1> QED
  BY <1>2, <1>3, <1>4, <1>5, <1>6 DEF WorldNext

LEMMA AgentTakenFollows == Spec => []TakenFollows
<1>1. Init => TakenFollows
  BY DEF Init, TakenFollows, Settled, NoBox, Pending
<1>2. Inductive /\ TakenInOrder /\ TakenFollows /\ [Next]_vars => TakenFollows'
  BY RunnerTakenStep, OtherTakenStep DEF Next
<1> QED
  BY <1>1, <1>2, AgentInductive, AgentTakenInOrder, PTL DEF Spec

(* Before the first restart nothing runs twice, and nothing that was taken *)
(* waits to: what an earlier run is known by came out of the queue, and    *)
(* what is in the queue comes after all that came out.                     *)
THEOREM AgentOnlyRestartsRepeat == Spec => []OnlyRestartsRepeat
<1>1. TypeOK /\ TakenInOrder /\ TakenFollows => OnlyRestartsRepeat
  <2> SUFFICES ASSUME TypeOK, TakenInOrder, TakenFollows, crashes = 0,
                      NEW x \in Settled, x \in Queued(queue)
               PROVE  FALSE
    BY DEF OnlyRestartsRepeat, TakenFollows
  <2>1. queue \in Seq(Ids)
    BY DEF TypeOK, QueueType
  <2>2. x \in Ids /\ x # 0
    <3>1. PICK i \in DOMAIN queue : queue[i] = x
      BY DEF Queued
    <3>2. queue[i] \in Ids
      BY <2>1, <3>1, ElementOfSeq, LenProperties
    <3> QED
      BY <3>1, <3>2 DEF Ids
  <2>3. x \in Queued(popped)
    BY <2>2 DEF TakenFollows
  <2>4. x < x
    BY <2>3 DEF TakenInOrder, QueueSpec!TakenInOrder, QueueSpec!Queued, Queued
  <2> QED
    BY <2>2, <2>4, Vocabulary
<1> QED
  BY <1>1, AgentTypeOK, AgentTakenInOrder, AgentTakenFollows, PTL

FirstStartConfirmedNotRerun == crashes = 0 => ConfirmedNotRerun

(* "prevent task duplication" is true of a process that has not restarted: *)
(* the run agent_duplicate needs its crash.                                *)
THEOREM AgentConfirmedNotRerun == Spec => []FirstStartConfirmedNotRerun
<1>1. OnlyRestartsRepeat => FirstStartConfirmedNotRerun
  BY DEF OnlyRestartsRepeat, Settled, FirstStartConfirmedNotRerun,
         ConfirmedNotRerun
<1> QED
  BY <1>1, AgentOnlyRestartsRepeat, PTL

(* "Task #{} was skipped..." is true of a process that has not restarted:  *)
(* the skipped task had been taken, and the queue is not touched by the    *)
(* skip.  The run agent_skipped needs its crash.                           *)
THEOREM AgentSkipIsFinal == Spec => [][crashes = 0 => SkipIsFinalStep]_vars
<1>1. Inductive /\ OnlyRestartsRepeat /\ [Next]_vars
        => [crashes = 0 => SkipIsFinalStep]_vars
  <2> SUFFICES ASSUME Inductive, OnlyRestartsRepeat, Next, crashes = 0,
                      ppc = "updCek", state # Pending, state' = Pending
               PROVE  state.task \notin Queued(queue')
    BY DEF SkipIsFinalStep, vars
  <2>1. state.task \notin Queued(queue)
    BY DEF OnlyRestartsRepeat, Settled
  <2>2. runnerLock = "processor" /\ rpc \in {"loop", "dead"}
    BY DEF Inductive, LockInv, TypeOK, RunnerType
  <2>3. ~RunnerNext
    BY <2>2
    DEF RunnerNext, RunnerLocks, RunnerAwaitsManual, RunnerConfirms,
        RunnerConfirmed, RunnerConfirmFails, RunnerFindsNothing, RunnerPops,
        RunnerCreateFails, RunnerStarts, RunnerMarks, RunnerSeesExit,
        RunnerWaitFails, RunnerReadsLogs, RunnerPanics, RunnerCleansUp
  <2>4. ProcessorNext => queue' = queue
    BY DEF ProcessorNext, ProcTakesNew, ProcTakesUpdate, ProcTakesDelete,
         ProcLocksCek, ProcAdds, ProcIgnoresUpdate, ProcLocksRunner,
         ProcSkips, ProcDeletes, ProcStops
  <2>5. ListenerNext => state' = state
    BY <2>2
    DEF ListenerNext, ListenerConnects, ListenerLoadsChannel,
        ListenerLoadFails, ListenerLocksCek, ListenerConverts,
        ListenerPanics, ListenerAdds, ListenerEndsLoad, ListenerSubscribes,
        ListenerRetries
  <2>6. UserNext \/ (WorldNext /\ ~Crash) => state' = state
    BY UserKeeps, WorldKeeps DEF userFrame, worldFrame
  <2>7. Crash => Queued(queue') = {}
    BY DEF Crash, Queued
  <2> QED
    BY <2>1, <2>3, <2>4, <2>5, <2>6, <2>7 DEF Next
<1> QED
  BY <1>1, AgentInductive, AgentOnlyRestartsRepeat, PTL DEF Spec
=============================================================================
