-------------------------- MODULE AgentLifeProofs --------------------------
(***************************************************************************)
(* The agent implements the life of a run of module RunLife, if no write   *)
(* of the state is lost.  The argument is RunIsUndisturbed: only the       *)
(* runner changes the state during a run, and the end of a run finds its   *)
(* outcome, or knows that the wait for it has failed.                      *)
(***************************************************************************)
EXTENDS AgentSafetyProofs

USE DEF chainVars, mailVars, queueVars, stateVars, runnerVars, procVars,
        listenerVars, worldVars

(* The states that the instance names are those of RunState.               *)
LEMMA SameStates ==
  /\ Life!Pending = Pending
  /\ \A t : /\ Life!Processing(t) = Processing(t)
            /\ Life!Complete(t) = Complete(t)
            /\ Life!Failed(t) = Failed(t)
BY DEF Life!Pending, Pending, Life!Processing, Processing, Life!Complete,
       Complete, Life!Failed, Failed

LEMMA RunnerLifeStep ==
  ASSUME TypeOK, RunIsUndisturbed, RunnerNext
  PROVE  [Life!Next]_<<state, Work, crashes>>
<1>0. /\ crashes' = crashes /\ state \in RunStates
      /\ rpc \in {"create", "mark", "wait", "logs", "cleanup"}
           => rtask \in Ids /\ Work = rtask
      /\ rpc \in {"loop", "match", "confirm", "dead"} => Work = 0
      /\ \A t \in Ids : t # 0
  BY RunnerKeeps, Vocabulary
  DEF runnerFrame, TypeOK, SharedType, RunnerType, Work
<1>1. CASE RunnerPops
  <2>1. /\ state = Pending /\ Work = 0 /\ state' = state /\ Work' = rtask'
        /\ rtask' \in Ids
    <3>1. queue \in Seq(Ids) /\ queue # <<>> /\ rtask' = Head(queue)
      BY <1>1 DEF RunnerPops, TypeOK, QueueType
    <3>2. rtask' \in Ids
      BY <3>1, HeadTailType
    <3>3. state = Pending
      BY <1>0, <1>1, StateForms DEF RunnerPops
    <3> QED
      BY <1>0, <1>1, <3>2, <3>3 DEF RunnerPops, Work
  <2> QED
    BY <1>0, <2>1, SameStates DEF Life!Next, Life!Take, Work
<1>2. CASE RunnerMarks
  <2>1. /\ rtask \in Ids /\ Work = rtask /\ Work' = Work
        /\ state = Pending /\ state' = Processing(rtask)
    BY <1>0, <1>2
    DEF RunnerMarks, SetState, RunIsUndisturbed, Work
  <2> QED
    BY <1>0, <2>1, SameStates DEF Life!Next, Life!Start, Work
<1>3. CASE RunnerSeesExit
  <2>1. /\ rtask \in Ids /\ Work = rtask /\ Work' = Work
        /\ state = Processing(rtask)
        /\ state' \in {Complete(rtask), Failed(rtask)}
    BY <1>0, <1>3
    DEF RunnerSeesExit, SetState, RunIsUndisturbed, StateAfterExit, Work
  <2> QED
    BY <1>0, <2>1, SameStates DEF Life!Next, Life!Exit, Work
<1>4. CASE RunnerCreateFails
  <2>1. /\ rtask \in Ids /\ Work = rtask /\ Work' = 0
        /\ state = Pending /\ state' = Failed(rtask)
    BY <1>0, <1>4
    DEF RunnerCreateFails, RunnerReleases, SetState, RunIsUndisturbed, Work
  <2> QED
    BY <1>0, <2>1, SameStates DEF Life!Next, Life!Fail, Work
<1>5. CASE RunnerCleansUp /\ waitFailed
  <2>1. /\ rtask \in Ids /\ Work = rtask /\ Work' = 0
        /\ state = Processing(rtask) /\ state' = Failed(rtask)
    BY <1>0, <1>5
    DEF RunnerCleansUp, RunnerReleases, SetState, RunIsUndisturbed, Work
  <2> QED
    BY <1>0, <2>1, SameStates DEF Life!Next, Life!Fail, Work
<1>6. CASE (RunnerCleansUp /\ ~waitFailed) \/ RunnerPanics
  <2>1. /\ rtask \in Ids /\ Work = rtask /\ Work' = 0 /\ state' = state
        /\ state \in {Complete(rtask), Failed(rtask)}
    BY <1>0, <1>6
    DEF RunnerCleansUp, RunnerPanics, RunnerReleases, RunIsUndisturbed,
        StateAfterExit, Work
  <2> QED
    BY <1>0, <2>1, SameStates DEF Life!Next, Life!End, Work
<1>7. CASE RunnerConfirmed
  <2>1. Work = 0 /\ Work' = 0 /\ state # Pending /\ state' = Pending
    BY <1>7, StateForms
    DEF RunnerConfirmed, RunnerReleases, ConfirmResets, SetState,
        RunIsUndisturbed, Work
  <2> QED
    BY <1>0, <2>1, SameStates DEF Life!Next, Life!Settle, Work
<1>8. CASE \/ RunnerLocks \/ RunnerAwaitsManual \/ RunnerConfirms
           \/ RunnerConfirmFails \/ RunnerFindsNothing \/ RunnerStarts
           \/ RunnerWaitFails \/ RunnerReadsLogs
  <2>1. state' = state /\ Work' = Work
    BY <1>0, <1>8
    DEF RunnerLocks, RunnerAwaitsManual, RunnerConfirms, RunnerConfirmFails,
        RunnerFindsNothing, RunnerStarts, RunnerWaitFails, RunnerReadsLogs,
        RunnerReleases, Work
  <2> QED
    BY <1>0, <2>1
<1> QED
  BY <1>1, <1>2, <1>3, <1>4, <1>5, <1>6, <1>7, <1>8 DEF RunnerNext

LEMMA OthersLifeStep ==
  ASSUME TypeOK, LockInv, ProcessorNext \/ ListenerNext
  PROVE  [Life!Next]_<<state, Work, crashes>>
<1>1. UNCHANGED <<rpc, rtask, crashes>>
  BY ProcessorKeeps, ListenerKeeps DEF procFrame, listenerFrame
<1>2. Work' = Work
  BY <1>1 DEF Work
<1>3. CASE state' = state
  BY <1>1, <1>2, <1>3
<1>4. CASE state' # state
  <2>1. state' = Pending /\ Work = 0 /\ state # Pending
    BY <1>4, OthersSetState DEF SetState, Work, TypeOK, RunnerType
  <2> QED
    BY <1>1, <1>2, <2>1, SameStates DEF Life!Next, Life!Settle, Work
<1> QED
  BY <1>3, <1>4

LEMMA OutsideLifeStep ==
  ASSUME TypeOK, db = state, UserNext \/ WorldNext \/ UNCHANGED vars
  PROVE  [Life!Next]_<<state, Work, crashes>>
<1>1. CASE Crash
  <2>1. crashes' = crashes + 1 /\ Work' = 0 /\ state' = state
    BY <1>1 DEF Crash, Work
  <2> QED
    BY <2>1 DEF Life!Next, Life!Kill, Work
<1>2. CASE ~Crash
  <2>1. UNCHANGED <<rpc, rtask, state, crashes>>
    BY <1>2, UserKeeps
    DEF userFrame, vars, WorldNext, TxLands, LateTxLands, LinkDrops,
        BoxExits, worldFrame
  <2> QED
    BY <2>1 DEF Work
<1> QED
  BY <1>1, <1>2

(* If no write of the state is lost, whatever the processor, the listener, *)
(* the user, docker and crashes do, the state goes through the life of one *)
(* task after the other as RunLife has it.                                 *)
THEOREM AgentImplementsRunLife ==
  ASSUME ~LossyDb
  PROVE  Spec => RunLifeImplemented
<1>1. Init => Life!Init
  BY SameStates DEF Init, Life!Init, Work
<1>2. Inductive /\ [Next]_vars => [Life!Next]_(Life!vars)
  <2> SUFFICES ASSUME Inductive, [Next]_vars
               PROVE  [Life!Next]_<<state, Work, crashes>>
    BY DEF Life!vars, Work
  <2>1. TypeOK /\ LockInv /\ RunIsUndisturbed /\ db = state
    BY DEF Inductive, ManualInv
  <2> QED
    BY <2>1, RunnerLifeStep, OthersLifeStep, OutsideLifeStep DEF Next
<1> QED
  BY <1>1, <1>2, AgentInductive, PTL
  DEF Spec, RunLifeImplemented, Life!Spec
=============================================================================
