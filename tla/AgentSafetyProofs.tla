-------------------------- MODULE AgentSafetyProofs --------------------------
(***************************************************************************)
(* The safety invariants of the agent.  Inductive is preserved by every    *)
(* step; its parts lean on one another:                                    *)
(*                                                                         *)
(*   LockInv             needs TypeOK only;                                *)
(*   RunIsUndisturbed    holds because the processor and the listener      *)
(*                       change the state with the runner's mutex, which   *)
(*                       by LockInv they do not have during an iteration;  *)
(*   ConfirmedSucceeded  because what is confirmed is the state's task     *)
(*                       (RunIsUndisturbed), and Complete is set from an   *)
(*                       exit status;                                      *)
(*   ManualInv           because the kinds of messages are only copied;    *)
(*   UpdateInv           because a task that waits for the user is left    *)
(*                       alone while the processor holds the mutex.        *)
(***************************************************************************)
EXTENDS AgentProofs

USE DEF chainVars, mailVars, queueVars, stateVars, runnerVars, procVars,
        listenerVars, worldVars

-----------------------------------------------------------------------------
(* The mutexes.                                                            *)
LEMMA RunnerLockStep == TypeOK /\ LockInv /\ RunnerNext => LockInv'
<1> SUFFICES ASSUME TypeOK, LockInv, RunnerNext
             PROVE  LockInv'
  OBVIOUS
<1>1. UNCHANGED <<cekLock, ppc, lpc>>
  BY RunnerKeeps DEF runnerFrame
<1>2. rpc \notin {"loop", "dead"} => runnerLock = "runner"
  BY DEF LockInv
<1>3. \/ rpc = "loop" /\ runnerLock = "free"
         /\ rpc' = "match" /\ runnerLock' = "runner"
      \/ rpc \notin {"loop", "dead"} /\ rpc' \notin {"loop", "dead"}
         /\ runnerLock' = runnerLock
      \/ rpc \notin {"loop", "dead"} /\ rpc' \in {"loop", "dead"}
         /\ runnerLock' = "free"
  BY DEF RunnerNext, RunnerReleases, RunnerLocks, RunnerAwaitsManual,
       RunnerConfirms, RunnerConfirmed, RunnerConfirmFails,
       RunnerFindsNothing, RunnerPops, RunnerCreateFails, RunnerStarts,
       RunnerMarks, RunnerSeesExit, RunnerWaitFails, RunnerReadsLogs,
       RunnerPanics, RunnerCleansUp
<1> QED
  BY <1>1, <1>2, <1>3 DEF LockInv

LEMMA ProcessorLockStep == TypeOK /\ LockInv /\ ProcessorNext => LockInv'
<1> SUFFICES ASSUME TypeOK, LockInv, ProcessorNext
             PROVE  LockInv'
  OBVIOUS
<1>1. UNCHANGED <<rpc, lpc>>
  BY ProcessorKeeps DEF procFrame
<1>2. \/ ppc = "newCek" /\ cekLock = "free" /\ ppc' = "newRunner"
         /\ cekLock' = "processor" /\ runnerLock' = runnerLock
      \/ ppc = "newRunner" /\ ppc' \in {"idle", "dead"}
         /\ cekLock' = "free" /\ runnerLock' = runnerLock
      \/ ppc = "updRunner" /\ runnerLock = "free" /\ ppc' = "updCek"
         /\ runnerLock' = "processor" /\ cekLock' = cekLock
      \/ ppc = "updCek" /\ ppc' \in {"idle", "dead"}
         /\ runnerLock' = "free" /\ cekLock' = cekLock
      \/ ppc \notin {"newRunner", "updCek"} /\ ppc' \notin {"newRunner", "updCek"}
         /\ UNCHANGED <<runnerLock, cekLock>>
  BY DEF ProcessorNext, ProcDone, ProcTakesNew, ProcTakesUpdate,
       ProcTakesDelete, ProcLocksCek, ProcAdds, ProcIgnoresUpdate,
       ProcLocksRunner, ProcSkips, ProcDeletes, ProcStops
<1> QED
  BY <1>1, <1>2 DEF LockInv

LEMMA ListenerLockStep == TypeOK /\ LockInv /\ ListenerNext => LockInv'
<1> SUFFICES ASSUME TypeOK, LockInv, ListenerNext
             PROVE  LockInv'
  OBVIOUS
<1>1. UNCHANGED <<rpc, ppc>>
  BY ListenerKeeps DEF listenerFrame
<1>2. \/ lpc = "cek" /\ cekLock = "free" /\ lpc' = "runner"
         /\ cekLock' = "listener" /\ runnerLock' = runnerLock
      \/ lpc = "runner" /\ runnerLock = "free" /\ lpc' = "add"
         /\ runnerLock' = "listener" /\ cekLock' = cekLock
      \/ lpc = "runner" /\ lpc' = "dead"
         /\ cekLock' = "free" /\ runnerLock' = runnerLock
      \/ lpc = "add" /\ lpc' = "subscribe"
         /\ cekLock' = "free" /\ runnerLock' = "free"
      \/ lpc' = lpc /\ UNCHANGED <<runnerLock, cekLock>>
      \/ lpc \notin {"runner", "add"} /\ lpc' \notin {"runner", "add"}
         /\ UNCHANGED <<runnerLock, cekLock>>
  BY DEF ListenerNext, ListenerConnects, ListenerLoadsChannel,
       ListenerLoadFails, ListenerLocksCek, ListenerConverts, ListenerPanics,
       ListenerAdds, ListenerEndsLoad, LoadReleases, ListenerSubscribes,
       ListenerRetries
<1> QED
  BY <1>1, <1>2 DEF LockInv

LEMMA OutsideLockStep ==
  LockInv /\ (UserNext \/ WorldNext \/ UNCHANGED vars) => LockInv'
<1>1. UserNext \/ UNCHANGED vars
        => UNCHANGED <<runnerLock, cekLock, rpc, ppc, lpc>>
  BY UserKeeps DEF userFrame, vars
<1>2. Crash => LockInv'
  BY DEF Crash, LockInv
<1>3. WorldNext /\ ~Crash => UNCHANGED <<runnerLock, cekLock, rpc, ppc, lpc>>
  BY DEF WorldNext, worldFrame, TxLands, LateTxLands, LinkDrops, BoxExits
<1> QED
  BY <1>1, <1>2, <1>3 DEF LockInv

LEMMA LockStep == TypeOK /\ LockInv /\ [Next]_vars => LockInv'
BY RunnerLockStep, ProcessorLockStep, ListenerLockStep, OutsideLockStep
DEF Next

-----------------------------------------------------------------------------
(* What the runner works on.                                               *)
LEMMA StateForms ==
  /\ \A s \in RunStates : /\ s.st = "pending" => s = Pending
                          /\ s.st = "complete" => s = Complete(s.task)
  /\ \A t : Pending # Complete(t)
  /\ \A t, u : Processing(t) # Complete(u) /\ Failed(t) # Complete(u)
  /\ \A t, u : Complete(t) = Complete(u) => t = u
  /\ Pending.st = "pending"
  /\ \A t : /\ Processing(t).st = "processing" /\ Complete(t).st = "complete"
            /\ Failed(t).st = "error"
  /\ \A t : Processing(t).task = t /\ Failed(t).task = t
BY DEF RunStates, StatesOf, Pending, Processing, Complete, Failed

LEMMA RunnerRunStep ==
  TypeOK /\ RunIsUndisturbed /\ RunnerNext => RunIsUndisturbed'
<1> SUFFICES ASSUME TypeOK, RunIsUndisturbed, RunnerNext
             PROVE  RunIsUndisturbed'
  OBVIOUS
<1>0. state \in RunStates
  BY DEF TypeOK, SharedType
<1>1. CASE rpc' \in {"loop", "match", "dead"} /\ ~waitFailed'
  BY <1>1 DEF RunIsUndisturbed
<1>2. CASE RunnerConfirms
  BY <1>0, <1>2, StateForms DEF RunnerConfirms, RunIsUndisturbed
<1>3. CASE RunnerPops
  BY <1>0, <1>3, StateForms DEF RunnerPops, RunIsUndisturbed
<1>4. CASE RunnerStarts
  BY <1>4 DEF RunnerStarts, RunIsUndisturbed
<1>5. CASE RunnerMarks
  BY <1>5 DEF RunnerMarks, SetState, RunIsUndisturbed
<1>6. CASE RunnerSeesExit
  BY <1>6 DEF RunnerSeesExit, SetState, RunIsUndisturbed
<1>7. CASE RunnerWaitFails
  BY <1>7 DEF RunnerWaitFails, RunIsUndisturbed
<1>8. CASE RunnerReadsLogs
  BY <1>8 DEF RunnerReadsLogs, RunIsUndisturbed, StateAfterExit
<1>9. CASE RunnerLocks \/ RunnerPanics
  BY <1>1, <1>9 DEF RunnerLocks, RunnerPanics, RunIsUndisturbed
<1> QED
  BY <1>1, <1>2, <1>3, <1>4, <1>5, <1>6, <1>7, <1>8, <1>9
  DEF RunnerNext, RunnerReleases, RunnerAwaitsManual, RunnerConfirmed,
      RunnerConfirmFails, RunnerFindsNothing, RunnerCreateFails,
      RunnerCleansUp

(* The others have the mutex when they set the state.                      *)
LEMMA OthersSetState ==
  ASSUME TypeOK, LockInv, ProcessorNext \/ ListenerNext
  PROVE  /\ UNCHANGED <<rpc, rtask, waitFailed, box, tx, late, lastTask,
                        lastRead, succeeded>>
         /\ \/ UNCHANGED <<state, db>>
            \/ SetState(Pending) /\ rpc \in {"loop", "dead"}
<1>1. UNCHANGED <<rpc, rtask, waitFailed, box, tx, late, lastTask, lastRead,
                  succeeded>>
  BY ProcessorKeeps, ListenerKeeps DEF procFrame, listenerFrame
<1>2. ASSUME ProcessorNext
      PROVE  \/ UNCHANGED <<state, db>>
             \/ SetState(Pending) /\ runnerLock \in {"free", "processor"}
  <2>1. ppc = "updCek" => runnerLock = "processor"
    BY DEF LockInv
  <2>2. CASE ProcSkips
    BY <2>1, <2>2 DEF ProcSkips
  <2>3. CASE ProcDeletes
    BY <2>3 DEF ProcDeletes, DeleteMayRun
  <2> QED
    BY <1>2, <2>2, <2>3
    DEF ProcessorNext, ProcTakesNew, ProcTakesUpdate, ProcTakesDelete,
        ProcLocksCek, ProcAdds, ProcIgnoresUpdate, ProcLocksRunner, ProcStops
<1>3. ASSUME ListenerNext
      PROVE  \/ UNCHANGED <<state, db>>
             \/ SetState(Pending) /\ runnerLock = "free"
  <2>1. CASE ListenerConverts
    BY <2>1 DEF ListenerConverts
  <2> QED
    BY <1>3, <2>1
    DEF ListenerNext, ListenerConnects, ListenerLoadsChannel,
        ListenerLoadFails, ListenerLocksCek, ListenerPanics, ListenerAdds,
        ListenerEndsLoad, ListenerSubscribes, ListenerRetries
<1>4. runnerLock \in {"free", "processor"} => rpc \in {"loop", "dead"}
  BY DEF LockInv
<1> QED
  BY <1>1, <1>2, <1>3, <1>4

LEMMA OthersRunStep ==
  TypeOK /\ LockInv /\ RunIsUndisturbed /\ (ProcessorNext \/ ListenerNext)
    => RunIsUndisturbed'
BY OthersSetState DEF RunIsUndisturbed

LEMMA OutsideRunStep ==
  TypeOK /\ RunIsUndisturbed /\ (UserNext \/ WorldNext \/ UNCHANGED vars)
    => RunIsUndisturbed'
<1> SUFFICES ASSUME RunIsUndisturbed, UserNext \/ WorldNext \/ UNCHANGED vars
             PROVE  RunIsUndisturbed'
  OBVIOUS
<1>1. CASE UserNext \/ UNCHANGED vars
  <2>1. UNCHANGED <<rpc, rtask, waitFailed, state, box>>
    BY <1>1, UserKeeps DEF userFrame, vars
  <2> QED
    BY <2>1 DEF RunIsUndisturbed
<1>2. CASE Crash
  BY <1>2 DEF Crash, RunIsUndisturbed
<1>3. ASSUME NEW st \in {"ok", "failed"}, BoxExits(st)
      PROVE  RunIsUndisturbed'
  <2>1. /\ UNCHANGED <<rpc, rtask, waitFailed, state>> /\ box.st = "running"
        /\ box'.task = box.task /\ box'.st = st
    BY <1>3 DEF BoxExits, worldFrame
  <2> QED
    BY <2>1 DEF RunIsUndisturbed
<1>4. CASE TxLands \/ LinkDrops \/ \E id \in Ids : LateTxLands(id)
  <2>1. UNCHANGED <<rpc, rtask, waitFailed, state, box>>
    BY <1>4 DEF TxLands, LinkDrops, LateTxLands, worldFrame
  <2> QED
    BY <2>1 DEF RunIsUndisturbed
<1> QED
  BY <1>1, <1>2, <1>3, <1>4 DEF WorldNext

LEMMA RunStep ==
  TypeOK /\ LockInv /\ RunIsUndisturbed /\ [Next]_vars => RunIsUndisturbed'
BY RunnerRunStep, OthersRunStep, OutsideRunStep DEF Next

-----------------------------------------------------------------------------
(* What is confirmed.                                                      *)
BoxInv == box.st = "ok" => box.task \in succeeded
OutcomeInv ==
  \A t \in Ids : Complete(t) \in {state, db} => t \in succeeded

LEMMA SetStateKeepsOutcome ==
  ASSUME NEW s, SetState(s), OutcomeInv, succeeded' = succeeded,
         \A t \in Ids : s = Complete(t) => t \in succeeded
  PROVE  OutcomeInv'
BY DEF SetState, OutcomeInv

LEMMA RunnerOutcomeStep ==
  TypeOK /\ RunIsUndisturbed /\ OutcomeInv /\ BoxInv /\ RunnerNext
    => OutcomeInv'
<1> SUFFICES ASSUME TypeOK, RunIsUndisturbed, OutcomeInv, BoxInv, RunnerNext
             PROVE  OutcomeInv'
  OBVIOUS
<1>1. succeeded' = succeeded
  BY RunnerKeeps DEF runnerFrame
<1>2. CASE UNCHANGED stateVars
  BY <1>1, <1>2 DEF OutcomeInv
<1>3. CASE RunnerConfirmed
  BY <1>1, <1>3, StateForms, SetStateKeepsOutcome
  DEF RunnerConfirmed, ConfirmResets
<1>4. CASE RunnerCreateFails
  BY <1>1, <1>4, StateForms, SetStateKeepsOutcome DEF RunnerCreateFails
<1>5. CASE RunnerMarks
  BY <1>1, <1>5, StateForms, SetStateKeepsOutcome DEF RunnerMarks
<1>6. CASE RunnerSeesExit
  <2>1. /\ SetState(StateAfterExit(box.st, rtask)) /\ rpc = "wait"
        /\ box.st \in {"ok", "failed"}
    BY <1>6 DEF RunnerSeesExit
  <2>2. box.st = "ok" => rtask \in succeeded
    BY <2>1 DEF BoxInv, RunIsUndisturbed
  <2>3. \A t \in Ids :
          StateAfterExit(box.st, rtask) = Complete(t) => t \in succeeded
    BY <2>1, <2>2, StateForms DEF StateAfterExit
  <2> QED
    BY <1>1, <2>1, <2>3, SetStateKeepsOutcome
<1>7. CASE RunnerCleansUp
  BY <1>1, <1>2, <1>7, StateForms, SetStateKeepsOutcome DEF RunnerCleansUp
<1> QED
  BY <1>2, <1>3, <1>4, <1>5, <1>6, <1>7
  DEF RunnerNext, RunnerLocks, RunnerAwaitsManual, RunnerConfirms,
      RunnerConfirmFails, RunnerFindsNothing, RunnerPops, RunnerStarts,
      RunnerWaitFails, RunnerReadsLogs, RunnerPanics

LEMMA OtherOutcomeStep ==
  TypeOK /\ LockInv /\ OutcomeInv /\ (ProcessorNext \/ ListenerNext)
    => OutcomeInv'
<1> SUFFICES ASSUME TypeOK, LockInv, OutcomeInv,
                    ProcessorNext \/ ListenerNext
             PROVE  OutcomeInv'
  OBVIOUS
<1>1. CASE UNCHANGED <<state, db>>
  BY <1>1, OthersSetState DEF OutcomeInv
<1>2. CASE SetState(Pending)
  BY <1>2, OthersSetState, StateForms, SetStateKeepsOutcome
<1> QED
  BY <1>1, <1>2, OthersSetState

LEMMA OutsideOutcomeStep ==
  OutcomeInv /\ (UserNext \/ WorldNext \/ UNCHANGED vars) => OutcomeInv'
<1>1. succeeded \subseteq succeeded' /\ {state', db'} \subseteq {state, db}
        => (OutcomeInv => OutcomeInv')
  BY DEF OutcomeInv
<1>2. UserNext \/ UNCHANGED vars => UNCHANGED <<state, db, succeeded>>
  BY UserKeeps DEF userFrame, vars
<1>3. Crash => state' = db /\ UNCHANGED <<db, succeeded>>
  BY DEF Crash
<1>4. WorldNext /\ ~Crash
        => succeeded \subseteq succeeded' /\ UNCHANGED <<state, db>>
  BY DEF WorldNext, TxLands, LateTxLands, LinkDrops, BoxExits, worldFrame
<1> QED
  BY <1>1, <1>2, <1>3, <1>4

LEMMA OutcomeStep ==
  TypeOK /\ LockInv /\ RunIsUndisturbed /\ OutcomeInv /\ BoxInv /\ [Next]_vars
    => OutcomeInv'
BY RunnerOutcomeStep, OtherOutcomeStep, OutsideOutcomeStep DEF Next

(* The exit status of the container.                                       *)
LEMMA BoxStep == BoxInv /\ [Next]_vars => BoxInv'
<1> SUFFICES ASSUME BoxInv, [Next]_vars
             PROVE  BoxInv'
  OBVIOUS
<1>1. CASE UNCHANGED <<box, succeeded>>
  BY <1>1 DEF BoxInv
<1>2. UserNext \/ ProcessorNext \/ ListenerNext \/ UNCHANGED vars \/ Crash
        => UNCHANGED <<box, succeeded>>
  BY UserKeeps, ProcessorKeeps, ListenerKeeps
  DEF userFrame, procFrame, listenerFrame, vars, Crash
<1>3. CASE RunnerNext
  <2>1. succeeded' = succeeded /\ (box' = box \/ box'.st # "ok")
    BY <1>3, RunnerKeeps
    DEF runnerFrame, RunnerNext, RunnerLocks, RunnerAwaitsManual,
        RunnerConfirms, RunnerConfirmed, RunnerConfirmFails,
        RunnerFindsNothing, RunnerPops, RunnerCreateFails, RunnerStarts,
        RunnerMarks, RunnerSeesExit, RunnerWaitFails, RunnerReadsLogs,
        RunnerPanics, RunnerCleansUp, NoBox
  <2> QED
    BY <2>1 DEF BoxInv
<1>4. ASSUME WorldNext, ~Crash
      PROVE  BoxInv'
  <2>1. \/ UNCHANGED <<box, succeeded>>
        \/ \E st \in {"ok", "failed"} : BoxExits(st)
    BY <1>4 DEF WorldNext, TxLands, LateTxLands, LinkDrops, worldFrame
  <2>2. ASSUME NEW st \in {"ok", "failed"}, BoxExits(st)
        PROVE  BoxInv'
    BY <2>2 DEF BoxExits, BoxInv
  <2> QED
    BY <1>1, <2>1, <2>2
<1> QED
  BY <1>1, <1>2, <1>3, <1>4 DEF Next

(* What the cluster and the agent's memory say was done.                   *)
ToldInv ==
  /\ {lastRead, lastTask} \subseteq succeeded \cup {0}
  /\ late \subseteq succeeded

LEMMA RunnerToldStep ==
  TypeOK /\ RunIsUndisturbed /\ OutcomeInv /\ ToldInv /\ RunnerNext => ToldInv'
<1> SUFFICES ASSUME TypeOK, RunIsUndisturbed, OutcomeInv, ToldInv, RunnerNext
             PROVE  ToldInv'
  OBVIOUS
<1>1. UNCHANGED <<lastRead, succeeded>>
  BY RunnerKeeps DEF runnerFrame
<1>2. rpc = "confirm" => rtask \in succeeded
  BY DEF TypeOK, RunnerType, RunIsUndisturbed, OutcomeInv
<1>3. CASE RunnerConfirmed
  BY <1>1, <1>2, <1>3 DEF RunnerConfirmed, ToldInv
<1>4. CASE RunnerConfirmFails
  BY <1>1, <1>2, <1>4 DEF RunnerConfirmFails, ToldInv
<1>5. CASE ~RunnerConfirmed /\ ~RunnerConfirmFails
  <2>1. UNCHANGED <<late, lastTask>>
    BY <1>5
    DEF RunnerNext, RunnerLocks, RunnerAwaitsManual, RunnerConfirms,
        RunnerFindsNothing, RunnerPops, RunnerCreateFails, RunnerStarts,
        RunnerMarks, RunnerSeesExit, RunnerWaitFails, RunnerReadsLogs,
        RunnerPanics, RunnerCleansUp
  <2> QED
    BY <1>1, <2>1 DEF ToldInv
<1> QED
  BY <1>3, <1>4, <1>5

LEMMA WorldToldStep ==
  TypeOK /\ RunIsUndisturbed /\ OutcomeInv /\ ToldInv /\ WorldNext => ToldInv'
<1> SUFFICES ASSUME TypeOK, RunIsUndisturbed, OutcomeInv, ToldInv, WorldNext
             PROVE  ToldInv'
  OBVIOUS
<1>1. tx = "sent" => rtask \in succeeded
  BY DEF TypeOK, RunnerType, RunIsUndisturbed, OutcomeInv
<1>2. CASE TxLands
  BY <1>1, <1>2 DEF TxLands, Lands, worldFrame, ToldInv
<1>3. ASSUME NEW id \in Ids, LateTxLands(id)
      PROVE  ToldInv'
  BY <1>3 DEF LateTxLands, Lands, worldFrame, ToldInv
<1>4. CASE LinkDrops
  BY <1>4 DEF LinkDrops, worldFrame, ToldInv
<1>5. ASSUME NEW st \in {"ok", "failed"}, BoxExits(st)
      PROVE  ToldInv'
  BY <1>5 DEF BoxExits, worldFrame, ToldInv
<1>6. CASE Crash
  BY <1>1, <1>6 DEF Crash, ToldInv
<1> QED
  BY <1>2, <1>3, <1>4, <1>5, <1>6 DEF WorldNext

LEMMA ToldStep ==
  /\ TypeOK /\ LockInv /\ RunIsUndisturbed /\ OutcomeInv /\ ToldInv
  /\ [Next]_vars
  => ToldInv'
<1>1. UserNext \/ ProcessorNext \/ ListenerNext \/ UNCHANGED vars
        => UNCHANGED <<lastRead, lastTask, late, succeeded>>
  BY UserKeeps, ProcessorKeeps, ListenerKeeps
  DEF userFrame, procFrame, listenerFrame, vars
<1> QED
  BY <1>1, RunnerToldStep, WorldToldStep DEF Next, ToldInv

-----------------------------------------------------------------------------
(* The user's actions.                                                     *)
ChannelInv ==
  \A id \in Ids : "skip" \in {channel[id], snapshot[id]} => id \in manual
MailInv ==
  /\ \A i \in DOMAIN newQ : AsUserDid(newQ[i])
  /\ \A i \in DOMAIN updQ : AsUserDid(updQ[i])
  /\ \A i \in DOMAIN delQ : delQ[i] \in manual
EventInv ==
  /\ AsUserDid(pevt)
  /\ ppc = "delRunner" => pevt.id \in manual

(* What reaches a channel, and what is taken from one.                     *)
LEMMA ForwardKeeps ==
  ASSUME NEW S, NEW q \in Seq(S), NEW e \in S, NEW P,
         \A i \in DOMAIN q : q[i] \in P, e \in P
  PROVE  \A i \in DOMAIN Forward(q, e) : Forward(q, e)[i] \in P
<1>1. \A i \in DOMAIN Append(q, e) : Append(q, e)[i] \in P
  BY AppendProperties, LenProperties
<1> QED
  BY <1>1 DEF Forward

LEMMA TakenKeeps ==
  ASSUME NEW S, NEW q \in Seq(S), q # <<>>, NEW P,
         \A i \in DOMAIN q : q[i] \in P
  PROVE  Head(q) \in P /\ \A i \in DOMAIN Tail(q) : Tail(q)[i] \in P
BY HeadTailProperties, LenProperties

LEMMA UserManualStep ==
  ASSUME TypeOK, ChannelInv, MailInv, EventInv, UserNext
  PROVE  ChannelInv' /\ MailInv' /\ EventInv'
<1> DEFINE good == {e \in Events : e.kind = "skip" => e.id \in manual'}
<1>1. manual \subseteq manual' /\ UNCHANGED <<snapshot, pevt, ppc>>
  BY UserKeeps DEF userFrame, UserNext, Post, Update, Delete
<1>2. EventInv'
  BY <1>1 DEF EventInv, AsUserDid
<1>3. /\ newQ \in Seq(Events) /\ \A i \in DOMAIN newQ : newQ[i] \in good
      /\ updQ \in Seq(Events) /\ \A i \in DOMAIN updQ : updQ[i] \in good
      /\ delQ \in Seq(Ids) /\ \A i \in DOMAIN delQ : delQ[i] \in manual'
  BY <1>1 DEF MailInv, AsUserDid, TypeOK, MailType
<1>4. /\ \A i \in DOMAIN newQ' : newQ'[i] \in good
      /\ \A i \in DOMAIN updQ' : updQ'[i] \in good
      /\ \A i \in DOMAIN delQ' : delQ'[i] \in manual'
      => MailInv'
  BY DEF MailInv, AsUserDid
<1>5. ASSUME NEW kind \in Kinds, Post(kind)
      PROVE  ChannelInv' /\ MailInv'
  <2>1. /\ newQ' = Forward(newQ, [id |-> posted + 1, kind |-> kind])
        /\ UNCHANGED <<updQ, delQ>> /\ posted + 1 \in Ids
        /\ kind = "skip" => posted + 1 \in manual'
        /\ \A id \in Ids : channel'[id] \in
             {channel[id]} \cup (IF id = posted + 1 THEN {kind} ELSE {"absent"})
    BY <1>5, Vocabulary DEF Post, Stores, WithMessage, TypeOK, WorldType
  <2>2. [id |-> posted + 1, kind |-> kind] \in good
    <3>1. [id |-> posted + 1, kind |-> kind] \in Events
      BY <2>1, Vocabulary
    <3> QED
      BY <2>1, <3>1
  <2>3. \A i \in DOMAIN newQ' : newQ'[i] \in good
    <3>1. good \subseteq Events
      OBVIOUS
    <3> HIDE DEF good
    <3> QED
      BY <1>3, <2>1, <2>2, <3>1, ForwardKeeps
  <2>4. ChannelInv'
    BY <1>1, <2>1 DEF ChannelInv
  <2> QED
    BY <1>3, <1>4, <2>1, <2>3, <2>4
<1>6. ASSUME NEW id \in Ids, NEW kind \in Kinds, Update(id, kind)
      PROVE  ChannelInv' /\ MailInv'
  <2>1. /\ updQ' = Forward(updQ, [id |-> id, kind |-> kind])
        /\ UNCHANGED <<newQ, delQ>>
        /\ kind = "skip" => id \in manual'
        /\ \A other \in Ids : channel'[other] \in
             {channel[other]} \cup (IF other = id THEN {kind} ELSE {})
    BY <1>6 DEF Update, Stores, TypeOK, WorldType
  <2>2. [id |-> id, kind |-> kind] \in good
    <3>1. [id |-> id, kind |-> kind] \in Events
      BY Vocabulary
    <3> QED
      BY <2>1, <3>1
  <2>3. \A i \in DOMAIN updQ' : updQ'[i] \in good
    <3>1. good \subseteq Events
      OBVIOUS
    <3> HIDE DEF good
    <3> QED
      BY <1>3, <2>1, <2>2, <3>1, ForwardKeeps
  <2>4. ChannelInv'
    BY <1>1, <2>1 DEF ChannelInv
  <2> QED
    BY <1>3, <1>4, <2>1, <2>3, <2>4
<1>7. ASSUME NEW id \in Ids, Delete(id)
      PROVE  ChannelInv' /\ MailInv'
  <2>1. /\ delQ' = Forward(delQ, id) /\ UNCHANGED <<newQ, updQ>>
        /\ id \in manual'
        /\ \A other \in Ids : channel'[other] \in {"absent", channel[other]}
    BY <1>7 DEF Delete, Stores, TypeOK, WorldType
  <2>2. \A i \in DOMAIN delQ' : delQ'[i] \in manual'
    BY <1>3, <2>1, ForwardKeeps
  <2>3. ChannelInv'
    BY <1>1, <2>1 DEF ChannelInv
  <2> QED
    BY <1>3, <1>4, <2>1, <2>2, <2>3
<1> QED
  BY <1>2, <1>5, <1>6, <1>7 DEF UserNext

LEMMA ProcessorManualStep ==
  ASSUME TypeOK, ChannelInv, MailInv, EventInv, ProcessorNext
  PROVE  ChannelInv' /\ MailInv' /\ EventInv'
<1> DEFINE good == {e \in Events : AsUserDid(e)}
<1>1. UNCHANGED <<manual, channel, snapshot>>
  BY ProcessorKeeps DEF procFrame
<1>2. ChannelInv'
  BY <1>1 DEF ChannelInv
<1>3. /\ newQ \in Seq(Events) /\ \A i \in DOMAIN newQ : newQ[i] \in good
      /\ updQ \in Seq(Events) /\ \A i \in DOMAIN updQ : updQ[i] \in good
      /\ delQ \in Seq(Ids) /\ \A i \in DOMAIN delQ : delQ[i] \in manual
  BY DEF MailInv, TypeOK, MailType
<1>4. /\ \A i \in DOMAIN newQ' : newQ'[i] \in good
      /\ \A i \in DOMAIN updQ' : updQ'[i] \in good
      /\ \A i \in DOMAIN delQ' : delQ'[i] \in manual
      => MailInv'
  BY <1>1 DEF MailInv, AsUserDid
<1>5. CASE ProcTakesNew
  <2>1. /\ newQ # <<>> /\ pevt' = Head(newQ) /\ newQ' = Tail(newQ)
        /\ ppc' = "newCek" /\ UNCHANGED <<updQ, delQ>>
    BY <1>5 DEF ProcTakesNew
  <2>2. Head(newQ) \in good /\ \A i \in DOMAIN newQ' : newQ'[i] \in good
    <3> HIDE DEF good
    <3> QED
      BY <1>3, <2>1, TakenKeeps
  <2>3. EventInv'
    BY <1>1, <2>1, <2>2 DEF EventInv, AsUserDid
  <2> QED
    BY <1>2, <1>3, <1>4, <2>1, <2>2, <2>3
<1>6. CASE ProcTakesUpdate
  <2>1. /\ updQ # <<>> /\ pevt' = Head(updQ) /\ updQ' = Tail(updQ)
        /\ ppc' = "updRunner" /\ UNCHANGED <<newQ, delQ>>
    BY <1>6 DEF ProcTakesUpdate
  <2>2. Head(updQ) \in good /\ \A i \in DOMAIN updQ' : updQ'[i] \in good
    <3> HIDE DEF good
    <3> QED
      BY <1>3, <2>1, TakenKeeps
  <2>3. EventInv'
    BY <1>1, <2>1, <2>2 DEF EventInv, AsUserDid
  <2> QED
    BY <1>2, <1>3, <1>4, <2>1, <2>2, <2>3
<1>7. CASE ProcTakesDelete
  <2>1. /\ delQ # <<>> /\ pevt' = [id |-> Head(delQ), kind |-> "absent"]
        /\ delQ' = Tail(delQ) /\ UNCHANGED <<newQ, updQ>>
    BY <1>7 DEF ProcTakesDelete
  <2>2. Head(delQ) \in manual /\ \A i \in DOMAIN delQ' : delQ'[i] \in manual
    BY <1>3, <2>1, TakenKeeps
  <2>3. EventInv'
    BY <1>1, <2>1, <2>2 DEF EventInv, AsUserDid
  <2> QED
    BY <1>2, <1>3, <1>4, <2>1, <2>2, <2>3
<1>8. CASE ~ProcTakesNew /\ ~ProcTakesUpdate /\ ~ProcTakesDelete
  <2>1. \/ /\ UNCHANGED mailVars
           /\ pevt' \in {pevt, NoEvent} /\ ppc' # "delRunner"
        \/ /\ newQ' = <<>> /\ updQ' = <<>> /\ delQ' = <<>>
           /\ pevt' = NoEvent /\ ppc' # "delRunner"
    BY <1>8
    DEF ProcessorNext, ProcDone, ProcLocksCek, ProcAdds, ProcIgnoresUpdate,
        ProcLocksRunner, ProcSkips, ProcDeletes, ProcStops
  <2>2. EventInv'
    BY <1>1, <2>1 DEF EventInv, AsUserDid, NoEvent
  <2>3. MailInv'
    BY <1>1, <2>1 DEF MailInv, AsUserDid
  <2> QED
    BY <1>2, <2>2, <2>3
<1> QED
  BY <1>5, <1>6, <1>7, <1>8

LEMMA OtherManualStep ==
  ASSUME TypeOK, ChannelInv, MailInv, EventInv,
         RunnerNext \/ ListenerNext \/ WorldNext \/ UNCHANGED vars
  PROVE  ChannelInv' /\ MailInv' /\ EventInv'
<1>1. CASE Crash
  <2>1. EventInv' /\ MailInv'
    BY <1>1 DEF Crash, EventInv, MailInv, AsUserDid, NoEvent
  <2>2. \A id \in Ids : snapshot'[id] = "absent"
    BY <1>1 DEF Crash, NoChannel
  <2> QED
    BY <1>1, <2>1, <2>2 DEF Crash, ChannelInv
<1>2. CASE ~Crash
  <2>1. UNCHANGED <<channel, newQ, updQ, delQ, pevt, ppc, manual>>
    BY <1>2, RunnerKeeps, ListenerKeeps, WorldKeeps
    DEF runnerFrame, listenerFrame, worldFrame, vars
  <2>2. snapshot' \in {snapshot, channel, NoChannel}
    <3>1. RunnerNext \/ WorldNext \/ UNCHANGED vars => snapshot' = snapshot
      BY <1>2, RunnerKeeps, WorldKeeps DEF runnerFrame, worldFrame, vars
    <3>2. ListenerNext => snapshot' \in {snapshot, channel, NoChannel}
      BY DEF ListenerNext, ListenerConnects, ListenerLoadsChannel,
           ListenerLoadFails, ListenerLocksCek, ListenerConverts,
           ListenerPanics, ListenerAdds, ListenerEndsLoad,
           ListenerSubscribes, ListenerRetries
    <3> QED
      BY <3>1, <3>2
  <2>3. \A id \in Ids : snapshot'[id] \in {snapshot[id], channel[id], "absent"}
    BY <2>2 DEF NoChannel
  <2>4. ChannelInv'
    BY <2>1, <2>3 DEF ChannelInv
  <2> QED
    BY <2>1, <2>4 DEF MailInv, EventInv, AsUserDid
<1> QED
  BY <1>1, <1>2

(* The state and the database.                                             *)
DbInv == ~LossyDb => db = state
LEMMA SetStateWrites == ASSUME NEW s, SetState(s) PROVE DbInv'
BY DEF SetState, DbInv

LEMMA DbStep ==
  ASSUME TypeOK, LockInv, DbInv, [Next]_vars
  PROVE  DbInv'
<1>1. CASE UNCHANGED <<state, db>>
  BY <1>1 DEF DbInv
<1>2. CASE Crash
  BY <1>2 DEF Crash, DbInv
<1>3. UserNext \/ (WorldNext /\ ~Crash) \/ UNCHANGED vars
        => UNCHANGED <<state, db>>
  BY UserKeeps, WorldKeeps DEF userFrame, worldFrame, vars
<1>4. CASE ProcessorNext \/ ListenerNext
  BY <1>1, <1>4, OthersSetState, SetStateWrites
<1>5. CASE RunnerNext
  <2>1. CASE RunnerConfirmed
    BY <2>1, SetStateWrites DEF RunnerConfirmed, ConfirmResets
  <2>2. CASE RunnerCreateFails
    BY <2>2, SetStateWrites DEF RunnerCreateFails
  <2>3. CASE RunnerMarks
    BY <2>3, SetStateWrites DEF RunnerMarks
  <2>4. CASE RunnerSeesExit
    BY <2>4, SetStateWrites DEF RunnerSeesExit
  <2>5. CASE RunnerCleansUp
    BY <1>1, <2>5, SetStateWrites DEF RunnerCleansUp
  <2> QED
    BY <1>1, <1>5, <2>1, <2>2, <2>3, <2>4, <2>5
    DEF RunnerNext, RunnerLocks, RunnerAwaitsManual, RunnerConfirms,
        RunnerConfirmFails, RunnerFindsNothing, RunnerPops, RunnerStarts,
        RunnerWaitFails, RunnerReadsLogs, RunnerPanics
<1> QED
  BY <1>1, <1>2, <1>3, <1>4, <1>5 DEF Next

-----------------------------------------------------------------------------
(* The processor between the two mutexes of an update.                     *)
LEMMA RunnerUpdateStep ==
  TypeOK /\ LockInv /\ UpdateInv /\ RunnerNext => UpdateInv'
<1> SUFFICES ASSUME TypeOK, LockInv, UpdateInv, RunnerNext
             PROVE  UpdateInv'
  OBVIOUS
<1>1. UNCHANGED <<ppc, updQ, edits>>
  BY RunnerKeeps DEF runnerFrame
<1>2. ppc = "updCek" => rpc \in {"loop", "dead"} /\ runnerLock # "free"
  BY DEF LockInv
<1>3. rpc \in {"loop", "dead"} /\ runnerLock # "free" => state' = state
  BY DEF RunnerNext, RunnerLocks, RunnerAwaitsManual, RunnerConfirms,
       RunnerConfirmed, RunnerConfirmFails, RunnerFindsNothing, RunnerPops,
       RunnerCreateFails, RunnerStarts, RunnerMarks, RunnerSeesExit,
       RunnerWaitFails, RunnerReadsLogs, RunnerPanics, RunnerCleansUp
<1> QED
  BY <1>1, <1>2, <1>3 DEF UpdateInv, AwaitsManual

LEMMA ProcessorUpdateStep ==
  TypeOK /\ UpdateInv /\ ProcessorNext => UpdateInv'
<1> SUFFICES ASSUME TypeOK, UpdateInv, ProcessorNext
             PROVE  UpdateInv'
  OBVIOUS
<1>1. UNCHANGED <<edits>>
  BY ProcessorKeeps DEF procFrame
<1>2. CASE ProcTakesUpdate
  BY <1>1, <1>2 DEF ProcTakesUpdate, UpdateInv
<1>3. CASE ProcLocksRunner
  BY <1>1, <1>3 DEF ProcLocksRunner, UpdateInv, AwaitsManual
<1>4. ASSUME ~ProcTakesUpdate, ~ProcLocksRunner
      PROVE  /\ ppc' \notin {"updRunner", "updCek"}
             /\ updQ' = updQ \/ updQ' = <<>>
  BY <1>4
  DEF ProcessorNext, ProcDone, ProcTakesNew, ProcTakesDelete, ProcLocksCek,
      ProcAdds, ProcIgnoresUpdate, ProcSkips, ProcDeletes, ProcStops
<1> QED
  BY <1>1, <1>2, <1>3, <1>4 DEF UpdateInv

LEMMA ListenerUpdateStep ==
  TypeOK /\ LockInv /\ UpdateInv /\ ListenerNext => UpdateInv'
<1> SUFFICES ASSUME TypeOK, LockInv, UpdateInv, ListenerNext
             PROVE  UpdateInv'
  OBVIOUS
<1>1. UNCHANGED <<ppc, updQ, edits>>
  BY ListenerKeeps DEF listenerFrame
<1>2. ppc = "updCek" => runnerLock # "free"
  BY DEF LockInv
<1>3. runnerLock # "free" => state' = state
  BY DEF ListenerNext, ListenerConnects, ListenerLoadsChannel,
       ListenerLoadFails, ListenerLocksCek, ListenerConverts, ListenerPanics,
       ListenerAdds, ListenerEndsLoad, ListenerSubscribes, ListenerRetries
<1> QED
  BY <1>1, <1>2, <1>3 DEF UpdateInv, AwaitsManual

LEMMA OutsideUpdateStep ==
  TypeOK /\ UpdateInv /\ (UserNext \/ WorldNext \/ UNCHANGED vars)
    => UpdateInv'
<1> SUFFICES ASSUME TypeOK, UpdateInv,
                    UserNext \/ WorldNext \/ UNCHANGED vars
             PROVE  UpdateInv'
  OBVIOUS
<1>1. CASE UserNext
  <2>1. UNCHANGED <<state, ppc>>
    BY <1>1, UserKeeps DEF userFrame
  <2>2. edits \in Nat
    BY DEF TypeOK, WorldType
  <2>3. \/ updQ' = updQ /\ edits' \in {edits, edits + 1}
        \/ edits' = edits + 1
    BY <1>1 DEF UserNext, Post, Update, Delete
  <2>4. edits' > 0 \/ (edits' = edits /\ updQ' = updQ)
    BY <2>2, <2>3
  <2> QED
    BY <2>1, <2>4 DEF UpdateInv, AwaitsManual
<1>2. CASE Crash
  BY <1>2 DEF Crash, UpdateInv
<1>3. CASE ~Crash /\ ~UserNext
  <2>1. UNCHANGED <<state, ppc, updQ, edits>>
    BY <1>3, WorldKeeps DEF worldFrame, vars
  <2> QED
    BY <2>1 DEF UpdateInv, AwaitsManual
<1> QED
  BY <1>1, <1>2, <1>3

LEMMA UpdateStep == TypeOK /\ LockInv /\ UpdateInv /\ [Next]_vars => UpdateInv'
BY RunnerUpdateStep, ProcessorUpdateStep, ListenerUpdateStep,
   OutsideUpdateStep DEF Next

-----------------------------------------------------------------------------
(* The parts put together.                                                 *)
LEMMA InductiveParts ==
  Inductive <=> /\ TypeOK /\ LockInv /\ RunIsUndisturbed /\ OutcomeInv
                /\ ToldInv /\ BoxInv /\ ChannelInv /\ MailInv /\ EventInv
                /\ DbInv /\ UpdateInv
BY DEF Inductive, ConfirmedSucceeded, OutcomeInv, ToldInv, BoxInv, ManualInv,
       ChannelInv, MailInv, EventInv, DbInv

LEMMA InitInductive == Init => Inductive
<1> SUFFICES ASSUME Init
             PROVE  Inductive
  OBVIOUS
<1>1. TypeOK
  BY InitTypeOK
<1>2. LockInv /\ RunIsUndisturbed
  BY DEF Init, LockInv, RunIsUndisturbed
<1>3. OutcomeInv /\ ToldInv
  BY StateForms DEF Init, OutcomeInv, ToldInv
<1>4. BoxInv /\ DbInv /\ UpdateInv
  BY DEF Init, BoxInv, NoBox, DbInv, UpdateInv
<1>5. MailInv /\ EventInv
  BY DEF Init, MailInv, EventInv, AsUserDid, NoEvent
<1>6. ChannelInv
  BY DEF Init, ChannelInv, NoChannel
<1> QED
  BY <1>1, <1>2, <1>3, <1>4, <1>5, <1>6, InductiveParts

LEMMA NextInductive == Inductive /\ [Next]_vars => Inductive'
<1> SUFFICES ASSUME Inductive, [Next]_vars
             PROVE  Inductive'
  OBVIOUS
<1>1. /\ TypeOK /\ LockInv /\ RunIsUndisturbed /\ OutcomeInv /\ ToldInv
      /\ BoxInv /\ ChannelInv /\ MailInv /\ EventInv /\ DbInv /\ UpdateInv
  BY InductiveParts
<1>2. TypeOK' /\ LockInv' /\ RunIsUndisturbed' /\ BoxInv'
  BY <1>1, NextTypeOK, LockStep, RunStep, BoxStep
<1>3. OutcomeInv' /\ ToldInv' /\ DbInv' /\ UpdateInv'
  BY <1>1, OutcomeStep, ToldStep, DbStep, UpdateStep
<1>4. ChannelInv' /\ MailInv' /\ EventInv'
  BY <1>1, UserManualStep, ProcessorManualStep, OtherManualStep DEF Next
<1> QED
  BY <1>2, <1>3, <1>4
  DEF Inductive, ConfirmedSucceeded, OutcomeInv, ToldInv, BoxInv, ManualInv,
      ChannelInv, MailInv, EventInv, DbInv

(* The inductive invariant: the owners of the mutexes, what the runner     *)
(* works on, what is confirmed, and what the user did.                     *)
THEOREM AgentInductive == Spec => []Inductive
BY InitInductive, NextInductive, PTL DEF Spec

(* Nothing disturbs an iteration of command_runner that got past the match:*)
(* the state and the container are its own until it releases the mutex.    *)
THEOREM AgentRunIsUndisturbed == Spec => []RunIsUndisturbed
<1>1. Inductive => RunIsUndisturbed
  BY DEF Inductive
<1> QED
  BY <1>1, AgentInductive, PTL

(* Only a task whose container exited with status 0 is confirmed to the    *)
(* cluster, or held as Complete by the state or by the database.           *)
THEOREM AgentConfirmedSucceeded == Spec => []ConfirmedSucceeded
<1>1. Inductive => ConfirmedSucceeded
  BY DEF Inductive
<1> QED
  BY <1>1, AgentInductive, PTL

-----------------------------------------------------------------------------
(* Who can lock whom out.  Nobody stuck waits for the runner, which holds  *)
(* its mutex only while it waits for none: the other two wait for each     *)
(* other.                                                                  *)
LEMMA WhoHolds ==
  ASSUME TypeOK, LockInv, NEW S \in SUBSET TokioTasks, Stuck(S)
  PROVE  ppc = "updCek" /\ lpc = "runner"
<1>1. \A a \in S : Blocker(a) \in S
  BY DEF Stuck
<1>2. \A a : Blocker(a) = "runner" => Blocker("runner") = "free"
  BY DEF Blocker, WantsRunner, WantsCek, LockInv, TypeOK, SharedType
<1>3. "free" \notin S
  BY DEF TokioTasks
<1>4. \A a \in S : Blocker(a) \in {"processor", "listener"} \cap S
  BY <1>1, <1>2, <1>3 DEF TokioTasks
<1>5. CASE "processor" \in S
  <2>1. Blocker("processor") = "processor" \/ "listener" \in S
    BY <1>4, <1>5
  <2>2. Blocker("processor") # "processor"
    BY DEF Blocker, WantsRunner, WantsCek, LockInv
  <2>3. Blocker("processor") = "listener" /\ Blocker("listener") \in {"processor", "listener"}
    BY <1>4, <1>5, <2>1, <2>2
  <2> QED
    BY <2>3 DEF Blocker, WantsRunner, WantsCek, LockInv
<1>6. CASE "listener" \in S /\ "processor" \notin S
  <2>1. Blocker("listener") = "listener"
    BY <1>4, <1>6
  <2> QED
    BY <2>1 DEF Blocker, WantsRunner, WantsCek, LockInv
<1>7. "processor" \in S \/ "listener" \in S
  BY <1>4 DEF Stuck
<1> QED
  BY <1>5, <1>6, <1>7

(* The only way in which tasks of the agent lock each other out for good   *)
(* is an update applied while a task waits for the user, at the moment the *)
(* channel is loaded.                                                      *)
THEOREM AgentOnlyUpdateBlocks == Spec => []OnlyUpdateBlocks
<1>1. Inductive => OnlyUpdateBlocks
  BY WhoHolds DEF Inductive, UpdateInv, OnlyUpdateBlocks, Blocked
<1> QED
  BY <1>1, AgentInductive, PTL

Unedited == edits = 0
NeverStuck == \A S \in SUBSET TokioTasks : ~Stuck(S)

(* An agent whose user only posts messages never locks itself out, through *)
(* any number of runs, failures, reconnections and crashes: the mutexes    *)
(* alone never stop it.                                                    *)
THEOREM AgentNeverStuck ==
  ASSUME MaxEdits = 0
  PROVE  Spec => []NeverStuck
<1>1. Init => Unedited
  BY DEF Init, Unedited
<1>2. Unedited /\ [Next]_vars => Unedited'
  <2> SUFFICES ASSUME edits = 0, [Next]_vars
               PROVE  edits' = 0
    BY DEF Unedited
  <2>1. CASE UserNext
    <3>1. ~(edits < MaxEdits)
      OBVIOUS
    <3>2. \A kind \in Kinds : Post(kind) => edits' = edits
      BY <3>1, Zenon DEF Post
    <3>3. \A id \in Ids, kind \in Kinds : ~Update(id, kind)
      BY <3>1, Zenon DEF Update
    <3>4. \A id \in Ids : ~Delete(id)
      BY <3>1, Zenon DEF Delete
    <3> QED
      BY <2>1, <3>2, <3>3, <3>4 DEF UserNext
  <2>2. CASE ~UserNext
    BY <2>2, RunnerKeeps, ProcessorKeeps, ListenerKeeps, WorldKeeps
    DEF Next, runnerFrame, procFrame, listenerFrame, worldFrame, Crash, vars
  <2> QED
    BY <2>1, <2>2
<1>3. Unedited /\ Inductive => NeverStuck
  BY WhoHolds DEF Inductive, UpdateInv, Unedited, NeverStuck
<1> QED
  BY <1>1, <1>2, <1>3, AgentInductive, PTL DEF Spec

-----------------------------------------------------------------------------
(* What the state says of a task.                                          *)
RunsOutcome ==
  /\ state = Processing(rtask) /\ rpc \in {"wait", "cleanup"}
  /\ state' \in {Complete(rtask), Failed(rtask)}
IsConfirmed == state.st = "complete" /\ lastTask' = state.task
ByUser == state.task \in manual
LostInCrash == LossyDb /\ crashes' # crashes
Kept == state # Pending /\ state' # state
          => RunsOutcome \/ IsConfirmed \/ ByUser \/ LostInCrash

LEMMA RunnerKeepsOutcome ==
  ASSUME Inductive, RunnerNext, state # Pending, state' # state
  PROVE  RunsOutcome \/ IsConfirmed
<1>1. RunIsUndisturbed /\ state' # state
  BY DEF Inductive
<1>2. rpc \notin {"create", "mark"}
  BY <1>1 DEF RunIsUndisturbed
<1>3. CASE RunnerConfirmed
  BY <1>1, <1>3, StateForms
  DEF RunnerConfirmed, RunIsUndisturbed, Complete, IsConfirmed
<1>4. CASE RunnerSeesExit
  BY <1>1, <1>4
  DEF RunnerSeesExit, SetState, StateAfterExit, RunIsUndisturbed, RunsOutcome
<1>5. CASE RunnerCleansUp
  BY <1>1, <1>5 DEF RunnerCleansUp, SetState, RunIsUndisturbed, RunsOutcome
<1> QED
  BY <1>1, <1>2, <1>3, <1>4, <1>5
  DEF RunnerNext, RunnerLocks, RunnerAwaitsManual, RunnerConfirms,
      RunnerConfirmFails, RunnerFindsNothing, RunnerPops, RunnerCreateFails,
      RunnerStarts, RunnerMarks, RunnerWaitFails, RunnerReadsLogs,
      RunnerPanics

LEMMA ProcessorKeepsOutcome ==
  ASSUME Inductive, ProcessorNext, state' # state
  PROVE  ByUser
<1>1. (pevt.kind = "skip" \/ ppc = "delRunner") => pevt.id \in manual
  BY DEF Inductive, ManualInv, AsUserDid
<1>2. CASE ProcSkips
  BY <1>1, <1>2 DEF ProcSkips, IsCurrent, ByUser
<1>3. CASE ProcDeletes
  BY <1>1, <1>3 DEF ProcDeletes, IsCurrent, ByUser
<1> QED
  BY <1>2, <1>3
  DEF ProcessorNext, ProcTakesNew, ProcTakesUpdate, ProcTakesDelete,
      ProcLocksCek, ProcAdds, ProcIgnoresUpdate, ProcLocksRunner, ProcStops

LEMMA ListenerKeepsOutcome ==
  ASSUME Inductive, ListenerNext, state' # state
  PROVE  ByUser
<1>1. CASE ListenerConverts
  <2>1. LoadNeedsReset
    BY <1>1 DEF ListenerConverts
  <2>2. PICK id \in Ids : snapshot[id] = "skip" /\ IsCurrent(id)
    BY <2>1 DEF LoadNeedsReset, Unread
  <2> QED
    BY <2>2 DEF IsCurrent, Inductive, ManualInv, ByUser
<1> QED
  BY <1>1
  DEF ListenerNext, ListenerConnects, ListenerLoadsChannel,
      ListenerLoadFails, ListenerLocksCek, ListenerPanics, ListenerAdds,
      ListenerEndsLoad, ListenerSubscribes, ListenerRetries

(* What the state says of a task stays until its run has an outcome, its   *)
(* success is confirmed, or the user skips or deletes it; only a crash     *)
(* that loses a write ends it otherwise.                                   *)
THEOREM AgentOutcomeIsKept == Spec => OutcomeIsKept
<1>1. Inductive /\ [Next]_vars => [Kept]_vars
  <2> SUFFICES ASSUME Inductive, [Next]_vars, state # Pending, state' # state
               PROVE  RunsOutcome \/ IsConfirmed \/ ByUser \/ LostInCrash
    BY DEF Kept
  <2>1. UserNext \/ (WorldNext /\ ~Crash) \/ UNCHANGED vars
          => state' = state
    BY UserKeeps, WorldKeeps DEF userFrame, worldFrame, vars
  <2>2. ASSUME Crash
        PROVE  LostInCrash
    <3>1. state' = db /\ crashes' = crashes + 1 /\ crashes \in Nat
      BY <2>2 DEF Crash, Inductive, TypeOK, WorldType
    <3>2. LossyDb
      BY <3>1 DEF Inductive, ManualInv
    <3> QED
      BY <3>1, <3>2 DEF LostInCrash
  <2> QED
    BY <2>1, <2>2, RunnerKeepsOutcome, ProcessorKeepsOutcome,
       ListenerKeepsOutcome DEF Next
<1> QED
  BY <1>1, AgentInductive, PTL
  DEF Spec, OutcomeIsKept, Kept, RunsOutcome, IsConfirmed, ByUser, LostInCrash
=============================================================================
