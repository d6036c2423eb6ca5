-------------------------- MODULE TaskQueueProofs --------------------------
(***************************************************************************)
(* What the queue promises, proved for any number of ids.  The invariant   *)
(* TakenInOrder is inductive once the queue and the taken ids are known to *)
(* be sequences of naturals.                                               *)
(***************************************************************************)
EXTENDS TaskQueue, TaskQueueOpsProofs

IndInv == TypeOK /\ TakenInOrder

(* A sequence of ids is a sequence of naturals.                            *)
LEMMA SeqIdsNat ==
  ASSUME MaxId \in Nat, NEW q \in Seq(Ids)
  PROVE  q \in Seq(Nat) /\ \A x \in Queued(q) : x \in Ids
<1>1. Ids \subseteq Nat
  BY DEF Ids
<1>2. q \in Seq(Nat)
  BY <1>1, SeqMonotonic
<1>3. \A i \in DOMAIN q : q[i] \in Ids
  BY ElementOfSeq, LenProperties
<1> QED
  BY <1>2, <1>3, QueuedMember

(* Conversely, naturals that are all ids make a sequence of ids.           *)
LEMMA SeqNatIds ==
  ASSUME NEW q \in Seq(Nat), \A x \in Queued(q) : x \in Ids
  PROVE  q \in Seq(Ids)
<1>1. Len(q) \in Nat /\ DOMAIN q = 1..Len(q) /\ q \in [1..Len(q) -> Nat]
  BY LenProperties
<1>2. \A i \in DOMAIN q : q[i] \in Ids
  BY QueuedMember
<1>3. q \in [1..Len(q) -> Ids]
  BY <1>1, <1>2
<1> QED
  BY <1>1, <1>3, IsASeq

(* Appending a larger id at the end keeps a sequence rising.               *)
LEMMA AppendRising ==
  ASSUME NEW q \in Seq(Nat), NEW id \in Nat, Ascending(q),
         \A x \in Queued(q) : x < id
  PROVE  /\ Append(q, id) \in Seq(Nat)
         /\ Ascending(Append(q, id))
         /\ \A x \in Queued(Append(q, id)) : x \in Queued(q) \/ x = id
<1> DEFINE r == Append(q, id)
<1>1. /\ r \in Seq(Nat) /\ Len(q) \in Nat
      /\ DOMAIN q = 1..Len(q) /\ DOMAIN r = 1..(Len(q) + 1)
      /\ \A i \in 1..Len(q) : r[i] = q[i]
      /\ r[Len(q) + 1] = id
  BY AppendProperties, LenProperties
<1> HIDE DEF r
<1>2. ASSUME NEW i \in DOMAIN r, NEW j \in DOMAIN r, i < j
      PROVE  r[i] < r[j]
  <2>1. CASE j = Len(q) + 1
    <3>1. i \in DOMAIN q /\ r[i] = q[i] /\ r[j] = id
      BY <1>1, <1>2, <2>1
    <3> QED
      BY <3>1, QueuedMember
  <2>2. CASE j # Len(q) + 1
    <3>1. i \in DOMAIN q /\ j \in DOMAIN q
      BY <1>1, <1>2, <2>2
    <3>2. q[i] < q[j]
      BY <1>2, <3>1 DEF Ascending
    <3> QED
      BY <1>1, <3>1, <3>2
  <2> QED
    BY <2>1, <2>2
<1>3. ASSUME NEW x \in Queued(r)
      PROVE  x \in Queued(q) \/ x = id
  <2>1. PICK i \in DOMAIN r : r[i] = x
    BY QueuedMember
  <2>2. CASE i = Len(q) + 1
    BY <1>1, <2>1, <2>2
  <2>3. CASE i # Len(q) + 1
    <3>1. i \in DOMAIN q /\ q[i] = x
      BY <1>1, <2>1, <2>3
    <3> QED
      BY <3>1, QueuedMember
  <2> QED
    BY <2>2, <2>3
<1> QED
  BY <1>1, <1>2, <1>3 DEF r, Ascending

(* Nothing is in an empty queue.                                           *)
LEMMA EmptyQueue == Ascending(<<>>) /\ Queued(<<>>) = {} /\ <<>> \in Seq(Ids)
BY DEF Ascending, Queued

-----------------------------------------------------------------------------
LEMMA InitInv ==
  ASSUME MaxId \in Nat
  PROVE  Init => IndInv
<1> SUFFICES ASSUME Init
             PROVE  IndInv
  OBVIOUS
<1> QED
  BY EmptyQueue DEF Init, IndInv, TypeOK, TakenInOrder

LEMMA NextInv ==
  ASSUME MaxId \in Nat
  PROVE  IndInv /\ [Next]_queueVars => IndInv'
<1> SUFFICES ASSUME IndInv, [Next]_queueVars
             PROVE  IndInv'
  OBVIOUS
<1>0. /\ queue \in Seq(Ids) /\ popped \in Seq(Ids)
      /\ queue \in Seq(Nat) /\ popped \in Seq(Nat)
      /\ lastAdded \in Nat /\ lastAdded \in 0..MaxId /\ MaxId \in Nat
      /\ \A x \in Queued(queue) \cup Queued(popped) : x \in Ids /\ x \in Nat
      /\ Ascending(popped) /\ Ascending(queue)
      /\ \A x \in Queued(popped), y \in Queued(queue) : x < y
      /\ \A x \in Queued(popped) \cup Queued(queue) : x <= lastAdded
  BY SeqIdsNat DEF IndInv, TypeOK, TakenInOrder, Ids
<1>1. ASSUME NEW id \in Ids, Add(id)
      PROVE  IndInv'
  <2>1. id \in Nat /\ id <= MaxId
    BY <1>0 DEF Ids
  <2>2. /\ queue' = AddTask(queue, lastAdded, id) /\ popped' = popped
        /\ lastAdded' = LastAdded(lastAdded, id)
    BY <1>1 DEF Add
  <2>3. /\ queue' \in Seq(Nat) /\ lastAdded' \in Nat /\ lastAdded <= lastAdded'
        /\ Ascending(queue')
        /\ \A x \in Queued(queue') : x <= lastAdded'
        /\ Queued(queue') =
             IF id > lastAdded THEN Queued(queue) \cup {id} ELSE Queued(queue)
    BY <1>0, <2>1, <2>2, AddTaskProperties
  <2>4. queue' \in Seq(Ids)
    BY <1>0, <2>3, SeqNatIds
  <2>5. lastAdded' \in 0..MaxId
    BY <1>0, <2>1, <2>2 DEF LastAdded, CanAddTask
  <2>6. \A x \in Queued(popped), y \in Queued(queue') : x < y
    BY <1>0, <2>1, <2>3
  <2>7. \A x \in Queued(popped) : x <= lastAdded'
    BY <1>0, <2>3
  <2> QED
    BY <1>0, <2>2, <2>3, <2>4, <2>5, <2>6, <2>7
    DEF IndInv, TypeOK, TakenInOrder
<1>2. ASSUME NEW id \in Ids, Delete(id)
      PROVE  IndInv'
  <2>1. id \in Nat
    BY <1>0 DEF Ids
  <2>2. queue' = DeleteTask(queue, id) /\ UNCHANGED <<lastAdded, popped>>
    BY <1>2 DEF Delete
  <2>3. /\ queue' \in Seq(Nat) /\ Ascending(queue')
        /\ \A x \in Queued(queue') : x \in Queued(queue)
    BY <1>0, <2>1, <2>2, DeleteTaskProperties
  <2>4. queue' \in Seq(Ids)
    BY <1>0, <2>3, SeqNatIds
  <2> QED
    BY <1>0, <2>2, <2>3, <2>4 DEF IndInv, TypeOK, TakenInOrder
<1>3. ASSUME DedupQueue
      PROVE  IndInv'
  <2>1. queue' = queue
    BY <1>0, <1>3, DedupIdentity DEF DedupQueue
  <2> QED
    BY <1>0, <1>3, <2>1 DEF DedupQueue, IndInv, TypeOK, TakenInOrder
<1>4. ASSUME Clear
      PROVE  IndInv'
  BY <1>0, <1>4, EmptyQueue DEF Clear, IndInv, TypeOK, TakenInOrder
<1>5. ASSUME Pop
      PROVE  IndInv'
  <2>1. /\ queue # <<>> /\ queue' = Tail(queue)
        /\ popped' = Append(popped, Head(queue)) /\ lastAdded' = lastAdded
    BY <1>5 DEF Pop
  <2>2. /\ Head(queue) \in Nat /\ queue' \in Seq(Nat) /\ Ascending(queue')
        /\ Queued(queue) = {Head(queue)} \cup Queued(queue')
        /\ \A x \in Queued(queue') : Head(queue) < x
    BY <1>0, <2>1, PopProperties
  <2>3. /\ popped' \in Seq(Nat) /\ Ascending(popped')
        /\ \A x \in Queued(popped') : x \in Queued(popped) \/ x = Head(queue)
    BY <1>0, <2>1, <2>2, AppendRising
  <2>4. queue' \in Seq(Ids) /\ popped' \in Seq(Ids)
    BY <1>0, <2>2, <2>3, SeqNatIds
  <2>5. \A x \in Queued(popped'), y \in Queued(queue') : x < y
    BY <1>0, <2>2, <2>3
  <2>6. \A x \in Queued(popped') \cup Queued(queue') : x <= lastAdded'
    BY <1>0, <2>1, <2>2, <2>3
  <2> QED
    BY <1>0, <2>1, <2>2, <2>3, <2>4, <2>5, <2>6
    DEF IndInv, TypeOK, TakenInOrder
<1>6. ASSUME Restart
      PROVE  IndInv'
  BY <1>0, <1>6, EmptyQueue DEF Restart, IndInv, TypeOK, TakenInOrder
<1>7. CASE UNCHANGED queueVars
  BY <1>7 DEF queueVars, IndInv, TypeOK, TakenInOrder
<1> QED
  BY <1>1, <1>2, <1>3, <1>4, <1>5, <1>6, <1>7 DEF Next

LEMMA SpecInv ==
  ASSUME MaxId \in Nat
  PROVE  Spec => []IndInv
BY InitInv, NextInv, PTL DEF Spec

-----------------------------------------------------------------------------
(* The queue's variables keep their types.                                 *)
THEOREM QueueTypeOK ==
  ASSUME MaxId \in Nat
  PROVE  Spec => []TypeOK
<1>1. IndInv => TypeOK
  BY DEF IndInv
<1> QED
  BY <1>1, SpecInv, PTL

(* Tasks are taken in the order of their ids, each at most once.           *)
THEOREM QueueTakenInOrder ==
  ASSUME MaxId \in Nat
  PROVE  Spec => []TakenInOrder
<1>1. IndInv => TakenInOrder
  BY DEF IndInv
<1> QED
  BY <1>1, SpecInv, PTL

(* The dedup of load_tasks never removes anything.                         *)
THEOREM QueueDedupRemovesNothing ==
  ASSUME MaxId \in Nat
  PROVE  Spec => []DedupRemovesNothing
<1>1. IndInv => DedupRemovesNothing
  BY SeqIdsNat, DedupIdentity
  DEF IndInv, TypeOK, TakenInOrder, DedupRemovesNothing
<1> QED
  BY <1>1, SpecInv, PTL

(* A task that left the queue does not come back before a restart.         *)
THEOREM QueueNeverReadmitted ==
  ASSUME MaxId \in Nat
  PROVE  Spec => NeverReadmitted
<1> DEFINE Stays ==
      \/ lastAdded' = 0 /\ popped' = <<>>
      \/ \A x \in Ids : x <= lastAdded /\ x \notin Queued(queue)
                          => x <= lastAdded' /\ x \notin Queued(queue')
<1>1. IndInv /\ [Next]_queueVars => [Stays]_queueVars
  <2> SUFFICES ASSUME IndInv, Next
               PROVE  Stays
    BY DEF queueVars
  <2>0. /\ queue \in Seq(Nat) /\ lastAdded \in Nat /\ Ascending(queue)
        /\ \A x \in Queued(queue) : x <= lastAdded
        /\ \A x \in Ids : x \in Nat
    BY SeqIdsNat DEF IndInv, TypeOK, TakenInOrder, Ids
  <2>1. ASSUME NEW id \in Ids, Add(id)
        PROVE  Stays
    <3>1. /\ lastAdded <= lastAdded' /\ lastAdded' \in Nat
          /\ Queued(queue') =
               IF id > lastAdded THEN Queued(queue) \cup {id} ELSE Queued(queue)
      BY <2>0, <2>1, AddTaskProperties DEF Add
    <3> QED
      BY <2>0, <3>1
  <2>2. ASSUME NEW id \in Ids, Delete(id)
        PROVE  Stays
    <3>1. lastAdded' = lastAdded /\ Queued(queue') = Queued(queue) \ {id}
      BY <2>0, <2>2, DeleteTaskProperties DEF Delete
    <3> QED
      BY <3>1
  <2>3. ASSUME DedupQueue
        PROVE  Stays
    BY <2>0, <2>3, DedupIdentity DEF DedupQueue
  <2>4. ASSUME Clear
        PROVE  Stays
    BY <2>4, EmptyQueue DEF Clear
  <2>5. ASSUME Pop
        PROVE  Stays
    <3>1. queue # <<>> /\ queue' = Tail(queue) /\ lastAdded' = lastAdded
      BY <2>5 DEF Pop
    <3>2. Queued(queue) = {Head(queue)} \cup Queued(queue')
      BY <2>0, <3>1, PopProperties
    <3> QED
      BY <3>1, <3>2
  <2>6. ASSUME Restart
        PROVE  Stays
    BY <2>6 DEF Restart
  <2> QED
    BY <2>1, <2>2, <2>3, <2>4, <2>5, <2>6 DEF Next
<1> QED
  BY <1>1, SpecInv, PTL DEF Spec, NeverReadmitted
=============================================================================
