------------------------ MODULE BlockingQueue_proofs ------------------------
(***************************************************************************)
(* Proofs about BlockingQueue for every capacity, every number of          *)
(* consumers and any mix of Pop with and without a timeout.                *)
(***************************************************************************)
EXTENDS BlockingQueue, FiniteSetTheorems, TLAPS

USE DEF vars

(* The constructor. *)
LEMMA TypeInit == Init => TypeOK
<1> SUFFICES ASSUME Init PROVE TypeOK
  OBVIOUS
<1>1. queue \in Seq(Messages)
  BY DEF Init
<1> QED BY <1>1 DEF Init, TypeOK

(* Every call under mutex_ keeps the types. *)
LEMMA TypeNext == TypeOK /\ [Next]_vars => TypeOK'
<1> SUFFICES ASSUME TypeOK, [Next]_vars PROVE TypeOK'
  OBVIOUS
<1> USE DEF TypeOK
<1>1. ASSUME NEW m \in Messages, Push(m) PROVE TypeOK'
  BY <1>1 DEF Push, NotifyOne, Waiting
<1>2. ASSUME NEW c \in Consumers, PopCall(c) \/ PopSleep(c) \/ PopFail(c)
                                  \/ PopExpire(c) \/ SpuriousWake(c)
      PROVE  TypeOK'
  BY <1>2 DEF PopCall, PopSleep, PopFail, PopExpire, SpuriousWake
<1>3. ASSUME NEW c \in Consumers, PopTake(c) PROVE TypeOK'
  <2>1. Head(queue) \in Messages /\ Tail(queue) \in Seq(Messages)
    BY <1>3 DEF PopTake
  <2> QED BY <1>3, <2>1 DEF PopTake
<1>4. CASE Clear
  <2>1. queue' \in Seq(Messages)
    BY <1>4 DEF Clear
  <2> QED BY <1>4, <2>1 DEF Clear
<1>5. CASE Shutdown
  BY <1>5 DEF Shutdown, Waiting
<1>6. CASE UNCHANGED vars
  BY <1>6
<1> QED BY <1>1, <1>2, <1>3, <1>4, <1>5, <1>6 DEF Next, PopStep

(* A successful Pop returns an element that was pushed, and the queue      *)
(* holds nothing else.                                                     *)
THEOREM TypeCorrect == Spec => []TypeOK
BY TypeInit, TypeNext, PTL DEF Spec
-----------------------------------------------------------------------------
(* The woken consumers can be counted, now and after a step. *)
LEMMA Counted ==
  ASSUME NEW S \in SUBSET Consumers
  PROVE  IsFiniteSet(S) /\ Cardinality(S) \in Nat
BY BlockingQueueAssumption, FS_Subset, FS_CardinalityType

(* Every call keeps a woken thread for each element somebody could sleep   *)
(* through, and nobody asleep in a queue that is shut down.                *)
LEMMA SleepersNext == TypeOK /\ SleepersAreSafe /\ [Next]_vars => SleepersAreSafe'
<1> SUFFICES ASSUME TypeOK, SleepersAreSafe, [Next]_vars, Waiting' # {}
             PROVE  ~shutdown' /\ Len(queue') <= Cardinality(Woken')
  BY DEF SleepersAreSafe
<1> DEFINE Goal == ~shutdown' /\ Len(queue') <= Cardinality(Woken')
<1>q. Len(queue) \in Nat
  BY DEF TypeOK
<1>c. IsFiniteSet(Woken) /\ Cardinality(Woken) \in Nat /\ Cardinality(Woken') \in Nat
  BY Counted DEF Woken
<1>1. ASSUME NEW m \in Messages, Push(m) PROVE Goal
  <2>1. Len(queue') = Len(queue) + 1 /\ ~shutdown'
    BY <1>1 DEF Push, TypeOK
  <2>2. Waiting # {}
    BY <1>1 DEF Push, NotifyOne, Waiting
  <2>3. PICK c \in Waiting : cpc' = [cpc EXCEPT ![c] = "woken"]
    BY <1>1, <2>2 DEF Push, NotifyOne
  <2>4. Woken' = Woken \cup {c} /\ c \notin Woken
    BY <2>3 DEF Woken, Waiting, TypeOK
  <2>5. Cardinality(Woken') = Cardinality(Woken) + 1
    BY <2>4, <1>c, FS_AddElement
  <2> QED BY <2>1, <2>2, <2>5, <1>q, <1>c DEF SleepersAreSafe
<1>2. ASSUME NEW c \in Consumers, PopCall(c) \/ PopExpire(c) PROVE Goal
  <2>1. queue' = queue /\ shutdown' = shutdown /\ Woken' = Woken /\ Waiting' \subseteq Waiting
    BY <1>2 DEF PopCall, PopExpire, Woken, Waiting, TypeOK
  <2> QED BY <2>1 DEF SleepersAreSafe
<1>3. ASSUME NEW c \in Consumers, SpuriousWake(c) PROVE Goal
  <2>1. /\ queue' = queue /\ shutdown' = shutdown
        /\ Woken' = Woken \cup {c} /\ c \notin Woken /\ Waiting # {}
    BY <1>3 DEF SpuriousWake, Woken, Waiting, TypeOK
  <2>2. Cardinality(Woken') = Cardinality(Woken) + 1
    BY <2>1, <1>c, FS_AddElement
  <2> QED BY <2>1, <2>2, <1>q, <1>c DEF SleepersAreSafe
<1>4. ASSUME NEW c \in Consumers, PopTake(c) PROVE Goal
  <2>1. Waiting' = Waiting /\ Woken' = Woken \ {c} /\ shutdown' = shutdown
    BY <1>4 DEF PopTake, Woken, Waiting, TypeOK
  <2>2. Len(queue') = Len(queue) - 1
    BY <1>4 DEF PopTake, TypeOK
  <2>3. Cardinality(Woken \ {c}) = IF c \in Woken THEN Cardinality(Woken) - 1
                                                  ELSE Cardinality(Woken)
    BY <1>c, FS_RemoveElement
  <2> QED BY <2>1, <2>2, <2>3, <1>q, <1>c DEF SleepersAreSafe
<1>5. ASSUME NEW c \in Consumers, PopSleep(c) PROVE Goal
  <2>1. Len(queue') = 0 /\ ~shutdown'
    BY <1>5 DEF PopSleep
  <2> QED BY <2>1, <1>c
<1>6. ASSUME NEW c \in Consumers, PopFail(c) PROVE Goal
  <2>1. Len(queue') = 0 /\ shutdown' = shutdown /\ Waiting' \subseteq Waiting
    BY <1>6 DEF PopFail, Waiting, TypeOK
  <2> QED BY <2>1, <1>c DEF SleepersAreSafe
<1>7. CASE Clear
  <2>1. Len(queue') = 0 /\ shutdown' = shutdown /\ Waiting' = Waiting
    BY <1>7 DEF Clear, Waiting
  <2> QED BY <2>1, <1>c DEF SleepersAreSafe
<1>8. CASE Shutdown
  <2>1. Waiting' = {}
    BY <1>8 DEF Shutdown, Waiting, TypeOK
  <2> QED BY <2>1
<1>9. CASE UNCHANGED vars
  BY <1>9 DEF SleepersAreSafe, Waiting, Woken
<1> QED BY <1>1, <1>2, <1>3, <1>4, <1>5, <1>6, <1>7, <1>8, <1>9 DEF Next, PopStep

(* No Pop sleeps through an element or through Shutdown (Push notifies one *)
(* thread per element, Shutdown all), whoever times out, is woken          *)
(* spuriously or takes an element another thread was woken for.            *)
THEOREM NobodySleepsThrough == Spec => []SleepersAreSafe
<1>1. Init => SleepersAreSafe
  BY DEF Init, SleepersAreSafe, Waiting
<1> QED BY TypeCorrect, SleepersNext, <1>1, PTL DEF Spec
-----------------------------------------------------------------------------
(* Every step of the queue is a step of the abstract queue or none. *)
LEMMA FifoNext == TypeOK /\ [Next]_vars => [Fifo!FNext]_(Fifo!fvars)
<1> SUFFICES ASSUME TypeOK, [Next]_vars
             PROVE  Fifo!FNext \/ UNCHANGED <<queue, shutdown, out>>
  BY DEF Fifo!fvars
<1>1. ASSUME NEW m \in Messages, Push(m) PROVE Fifo!Put(m)
  <2>1. MaxSize = 0 \/ Len(queue) < MaxSize
    BY <1>1, BlockingQueueAssumption DEF Push, Full, TypeOK
  <2> QED BY <1>1, <2>1 DEF Push, Fifo!Put, Fifo!HasRoom
<1>2. ASSUME NEW c \in Consumers, PopTake(c) PROVE Fifo!Take(c)
  BY <1>2 DEF PopTake, Fifo!Take
<1>3. CASE Clear
  BY <1>3 DEF Clear, Fifo!Drop, Fifo!FNext
<1>4. CASE Shutdown
  BY <1>4 DEF Shutdown, Fifo!Close, Fifo!FNext
<1>5. CASE UNCHANGED <<queue, shutdown, out>>
  BY <1>5
<1>6. \/ \E m \in Messages : Push(m)
      \/ \E c \in Consumers : PopTake(c)
      \/ Clear \/ Shutdown \/ UNCHANGED <<queue, shutdown, out>>
  BY DEF Next, PopCall, PopStep, PopSleep, PopFail, PopExpire, SpuriousWake
<1> QED BY <1>1, <1>2, <1>3, <1>4, <1>5, <1>6 DEF Fifo!FNext

(* The bounded queue of FastMQTT implements the abstract closable queue of *)
(* capacity max_size_ (unbounded for 0): elements leave in order, each to  *)
(* one Pop, never more than max_size_ are held and none enters after       *)
(* Shutdown.                                                               *)
THEOREM ImplementsFifo == Spec => FifoSpec
<1>1. Init => Fifo!FInit
  BY DEF Init, Fifo!FInit
<1> QED BY <1>1, FifoNext, TypeCorrect, PTL DEF Spec, FifoSpec, Fifo!FSpec
=============================================================================
