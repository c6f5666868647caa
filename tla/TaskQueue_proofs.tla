--------------------------- MODULE TaskQueue_proofs ---------------------------
(***************************************************************************)
(* Proofs about TaskQueue for every number of producers and consumers, any *)
(* mix of timed and untimed PopBlocking and any length of the queue.       *)
(***************************************************************************)
EXTENDS TaskQueue, FiniteSetTheorems, TLAPS

(* An empty queue in the initial state has every part in its type. *)
LEMMA TypeInit == Init => TypeOK
<1> SUFFICES ASSUME Init PROVE TypeOK
  OBVIOUS
<1>1. q \in Seq(Tasks)
  BY DEF Init
<1> QED BY <1>1 DEF Init, TypeOK

(* Every critical section and every notification keeps the types. *)
LEMMA TypeNext == TypeOK /\ [Next]_vars => TypeOK'
<1> SUFFICES ASSUME TypeOK, [Next]_vars PROVE TypeOK'
  OBVIOUS
<1> USE DEF TypeOK
<1>1. ASSUME NEW p \in Producers, NEW t \in Tasks, Push(p, t) PROVE TypeOK'
  BY <1>1 DEF Push
<1>2. ASSUME NEW p \in Producers, NotifyOne(p) PROVE TypeOK'
  BY <1>2 DEF NotifyOne, Waiting
<1>3. ASSUME NEW c \in Consumers, PopCall(c) \/ PopSleep(c) \/ PopFail(c)
                                  \/ PopExpire(c) \/ SpuriousWake(c)
      PROVE  TypeOK'
  BY <1>3 DEF PopCall, PopSleep, PopFail, PopExpire, SpuriousWake
<1>4. ASSUME NEW c \in Consumers, PopTake(c) PROVE TypeOK'
  <2>1. Head(q) \in Tasks /\ Tail(q) \in Seq(Tasks)
    BY <1>4 DEF PopTake
  <2> QED BY <1>4, <2>1 DEF PopTake
<1>5. CASE Clear \/ Shutdown
  <2>1. <<>> \in Seq(Tasks)
    OBVIOUS
  <2> QED BY <1>5, <2>1 DEF Clear, Shutdown
<1>6. CASE NotifyAll
  BY <1>6 DEF NotifyAll
<1>7. CASE UNCHANGED vars
  BY <1>7 DEF vars
<1> QED BY <1>1, <1>2, <1>3, <1>4, <1>5, <1>6, <1>7 DEF Next, PopStep

(* The queue, its flag and what PopBlocking returns keep their types: in   *)
(* particular a successful PopBlocking returns a task that was pushed.     *)
THEOREM TypeCorrect == Spec => []TypeOK
  BY TypeInit, TypeNext, PTL DEF Spec
-----------------------------------------------------------------------------
(* The sets that are counted are finite. *)
LEMMA Counted ==
  /\ IsFiniteSet(Notifying) /\ Cardinality(Notifying) \in Nat
  /\ IsFiniteSet(Woken) /\ Cardinality(Woken) \in Nat
<1>1. Notifying \in SUBSET Producers /\ Woken \in SUBSET Consumers
  BY DEF Notifying, Woken
<1>2. IsFiniteSet(Notifying) /\ IsFiniteSet(Woken)
  BY <1>1, TaskQueueAssumption, FS_Subset
<1> QED BY <1>2, FS_CardinalityType

(* Every step keeps a notification on its way for each queued task. *)
LEMMA WakeupNext == TypeOK /\ WakeupPending /\ [Next]_vars => WakeupPending'
<1> SUFFICES ASSUME TypeOK, WakeupPending, [Next]_vars, Waiting' # {}
             PROVE  Len(q') <= Cardinality(Notifying') + Cardinality(Woken')
  BY DEF WakeupPending
<1> DEFINE Goal == Len(q') <= Cardinality(Notifying') + Cardinality(Woken')
<1>q. Len(q) \in Nat
  BY DEF TypeOK
<1>c. Cardinality(Notifying) \in Nat /\ Cardinality(Woken) \in Nat
  BY Counted
<1>c1. IsFiniteSet(Notifying) /\ IsFiniteSet(Woken)
  BY Counted
<1>t. TypeOK'
  BY TypeNext
<1>c2. Cardinality(Notifying') \in Nat /\ Cardinality(Woken') \in Nat
  <2>1. Notifying' \in SUBSET Producers /\ Woken' \in SUBSET Consumers
    BY DEF Notifying, Woken
  <2>2. IsFiniteSet(Notifying') /\ IsFiniteSet(Woken')
    BY <2>1, TaskQueueAssumption, FS_Subset
  <2> QED BY <2>2, FS_CardinalityType
<1>1. ASSUME NEW p \in Producers, NEW t \in Tasks, Push(p, t) PROVE Goal
  <2>1. CASE shutdown
    <3>1. q' = q /\ Notifying' = Notifying /\ Woken' = Woken /\ Waiting' = Waiting
      BY <1>1, <2>1 DEF Push, Notifying, Woken, Waiting
    <3> QED BY <3>1 DEF WakeupPending
  <2>2. CASE ~shutdown
    <3>1. /\ q' = Append(q, t) /\ ppc' = [ppc EXCEPT ![p] = "notify"]
          /\ cpc' = cpc /\ ppc[p] = "idle"
      BY <1>1, <2>2 DEF Push
    <3>2. Notifying' = Notifying \cup {p} /\ p \notin Notifying
      BY <3>1 DEF Notifying, TypeOK
    <3>3. Woken' = Woken /\ Waiting' = Waiting
      BY <3>1 DEF Woken, Waiting
    <3>4. Cardinality(Notifying') = Cardinality(Notifying) + 1
      BY <3>2, <1>c1, FS_AddElement
    <3>5. Len(q') = Len(q) + 1
      BY <3>1 DEF TypeOK
    <3> QED BY <3>3, <3>4, <3>5, <1>q, <1>c DEF WakeupPending
  <2> QED BY <2>1, <2>2
<1>2. ASSUME NEW p \in Producers, NotifyOne(p) PROVE Goal
  <2>1. q' = q /\ Notifying' = Notifying \ {p} /\ p \in Notifying
    BY <1>2 DEF NotifyOne, Notifying, TypeOK
  <2>2. Cardinality(Notifying') = Cardinality(Notifying) - 1
    BY <2>1, <1>c1, FS_RemoveElement
  <2>3. Waiting # {}
    BY <1>2 DEF NotifyOne, Waiting
  <2>4. PICK c \in Waiting : cpc' = [cpc EXCEPT ![c] = "woken"]
    BY <1>2, <2>3 DEF NotifyOne
  <2>5. Woken' = Woken \cup {c} /\ c \notin Woken
    BY <2>4 DEF Woken, Waiting, TypeOK
  <2>6. Cardinality(Woken') = Cardinality(Woken) + 1
    BY <2>5, <1>c1, FS_AddElement
  <2> QED BY <2>1, <2>2, <2>3, <2>6, <1>q, <1>c DEF WakeupPending
<1>3. ASSUME NEW c \in Consumers, PopCall(c) \/ PopExpire(c) PROVE Goal
  <2>1. /\ q' = q /\ Notifying' = Notifying
        /\ Woken' = Woken
        /\ Waiting' \subseteq Waiting
    BY <1>3 DEF PopCall, PopExpire, Notifying, Woken, Waiting, TypeOK
  <2> QED BY <2>1 DEF WakeupPending
<1>4. ASSUME NEW c \in Consumers, SpuriousWake(c) PROVE Goal
  <2>1. /\ q' = q /\ Notifying' = Notifying
        /\ Woken' = Woken \cup {c} /\ c \notin Woken /\ Waiting # {}
    BY <1>4 DEF SpuriousWake, Notifying, Woken, Waiting, TypeOK
  <2>2. Cardinality(Woken') = Cardinality(Woken) + 1
    BY <2>1, <1>c1, FS_AddElement
  <2> QED BY <2>1, <2>2, <1>q, <1>c DEF WakeupPending
<1>5. ASSUME NEW c \in Consumers, PopTake(c) PROVE Goal
  <2>1. /\ Notifying' = Notifying /\ Waiting' = Waiting
        /\ Woken' = Woken \ {c}
    BY <1>5 DEF PopTake, Notifying, Woken, Waiting, TypeOK
  <2>2. Len(q') = Len(q) - 1
    BY <1>5 DEF PopTake, TypeOK
  <2>3. Cardinality(Woken \ {c}) = IF c \in Woken THEN Cardinality(Woken) - 1
                                                ELSE Cardinality(Woken)
    BY <1>c1, FS_RemoveElement
  <2> QED BY <2>1, <2>2, <2>3, <1>q, <1>c, <1>c2 DEF WakeupPending
<1>6. CASE Len(q') = 0
  BY <1>6, <1>c2
<1>7. ASSUME NEW c \in Consumers, PopSleep(c) \/ PopFail(c) PROVE Goal
  <2>1. Len(q') = 0
    BY <1>7 DEF PopSleep, PopFail
  <2> QED BY <2>1, <1>6
<1>8. CASE Clear
  <2>1. Len(q') = 0
    BY <1>8 DEF Clear
  <2> QED BY <2>1, <1>6
<1>9. CASE Shutdown \/ UNCHANGED vars
  <2>1. q' = q /\ Notifying' = Notifying /\ Woken' = Woken /\ Waiting' = Waiting
    BY <1>9 DEF Shutdown, vars, Notifying, Woken, Waiting
  <2> QED BY <2>1 DEF WakeupPending
<1>10. CASE NotifyAll
  <2>1. Waiting' = {}
    BY <1>10 DEF NotifyAll, Waiting, TypeOK
  <2> QED BY <2>1
<1> QED
  BY <1>1, <1>2, <1>3, <1>4, <1>5, <1>7, <1>8, <1>9, <1>10 DEF Next, PopStep

(* No lost wake-up, although Push notifies after it has released mu_ and   *)
(* Waiting consumers time out: while a consumer sleeps each queued task    *)
(* has a notification on its way (TaskQueue::Push / PopBlocking).          *)
THEOREM NoLostWakeup == Spec => []WakeupPending
<1>1. Init => WakeupPending
  BY DEF Init, WakeupPending, Waiting
<1> QED BY TypeCorrect, WakeupNext, <1>1, PTL DEF Spec
-----------------------------------------------------------------------------
(* The flag of the queue and the progress of Shutdown belong together. *)
ClosingInv ==
  /\ shutdown <=> closer # "idle"
  /\ ShutdownWakes

(* Every step keeps sleepers of a shut-down queue within notify_all's reach. *)
LEMMA ClosingNext == TypeOK /\ ClosingInv /\ [Next]_vars => ClosingInv'
<1> SUFFICES ASSUME TypeOK, ClosingInv, [Next]_vars PROVE ClosingInv'
  OBVIOUS
<1> USE DEF ClosingInv, ShutdownWakes, Waiting, TypeOK
<1>1. ASSUME NEW p \in Producers, NEW t \in Tasks, Push(p, t) PROVE ClosingInv'
  BY <1>1 DEF Push
<1>2. ASSUME NEW p \in Producers, NotifyOne(p) PROVE ClosingInv'
  BY <1>2 DEF NotifyOne
<1>3. ASSUME NEW c \in Consumers, PopCall(c) PROVE ClosingInv'
  BY <1>3 DEF PopCall
<1>4. ASSUME NEW c \in Consumers, PopStep(c) PROVE ClosingInv'
  <2>1. CASE PopSleep(c)  BY <2>1 DEF PopSleep
  <2>2. CASE PopTake(c)   BY <2>2 DEF PopTake
  <2>3. CASE PopFail(c)   BY <2>3 DEF PopFail
  <2> QED BY <1>4, <2>1, <2>2, <2>3 DEF PopStep
<1>5. ASSUME NEW c \in Consumers, PopExpire(c) \/ SpuriousWake(c) PROVE ClosingInv'
  BY <1>5 DEF PopExpire, SpuriousWake
<1>6. CASE Clear \/ Shutdown \/ NotifyAll
  BY <1>6 DEF Clear, Shutdown, NotifyAll
<1>7. CASE UNCHANGED vars
  BY <1>7 DEF vars
<1> QED BY <1>1, <1>2, <1>3, <1>4, <1>5, <1>6, <1>7 DEF Next

(* A consumer that sleeps in a shut-down queue is one that notify_all is   *)
(* still to wake: none is left behind (TaskQueue::Shutdown, which notifies *)
(* outside mu_).                                                           *)
THEOREM NobodyLeftAsleep == Spec => []ShutdownWakes
<1>1. Init => ClosingInv
  BY DEF Init, ClosingInv, ShutdownWakes, Waiting
<1>2. ClosingInv => ShutdownWakes
  BY DEF ClosingInv
<1> QED BY TypeCorrect, ClosingNext, <1>1, <1>2, PTL DEF Spec
-----------------------------------------------------------------------------
(* Every step of the queue is a step of the abstract queue or none. *)
LEMMA FifoNext == [Next]_vars => [Fifo!FNext]_(Fifo!fvars)
<1> SUFFICES ASSUME [Next]_vars PROVE Fifo!FNext \/ UNCHANGED <<q, shutdown, out>>
  BY DEF Fifo!fvars
<1>1. ASSUME NEW p \in Producers, NEW t \in Tasks, Push(p, t)
      PROVE  Fifo!Put(t) \/ UNCHANGED <<q, shutdown, out>>
  BY <1>1 DEF Push, Fifo!Put, Fifo!HasRoom
<1>2. ASSUME NEW c \in Consumers, PopTake(c) PROVE Fifo!Take(c)
  BY <1>2 DEF PopTake, Fifo!Take
<1>3. CASE Clear
  BY <1>3 DEF Clear, Fifo!Drop, Fifo!FNext
<1>4. CASE Shutdown
  BY <1>4 DEF Shutdown, Fifo!Close, Fifo!FNext
<1>5. CASE UNCHANGED <<q, shutdown, out>>
  BY <1>5
<1> QED
  BY <1>1, <1>2, <1>3, <1>4, <1>5
     DEF Next, NotifyOne, PopCall, PopStep, PopSleep, PopFail, PopExpire,
         SpuriousWake, NotifyAll, vars, Fifo!FNext

(* The mutex-and-condition-variable queue implements the abstract closable *)
(* first-in first-out queue: tasks leave in order, each to one consumer,   *)
(* and nothing is accepted after Shutdown.                                 *)
THEOREM ImplementsFifo == Spec => FifoSpec
<1>1. Init => Fifo!FInit
  BY DEF Init, Fifo!FInit
<1> QED BY <1>1, FifoNext, PTL DEF Spec, FifoSpec, Fifo!FSpec
=============================================================================
