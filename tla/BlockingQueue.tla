--------------------------- MODULE BlockingQueue ----------------------------
(***************************************************************************)
(* fast_mqtt::BlockingQueue<T> (src/src/util/my_fast_MQTT/                 *)
(* BlockingQueue.hpp): the bounded queue between the callers of FastMQTT   *)
(* and its sender thread, and between its receiver and dispatcher threads. *)
(*                                                                         *)
(* Unlike TaskQueue it notifies while it holds mutex_, so Push and         *)
(* Shutdown are single steps, and it refuses an item when it is full.      *)
(***************************************************************************)
EXTENDS Naturals, Sequences, FiniteSets

CONSTANTS Messages,    \* the queued elements
          Consumers,   \* threads that call Pop
          Timed,       \* the consumers that call Pop(out, timeout_ms)
          MaxSize,     \* max_size_: 0 means unlimited
          MaxLen,      \* bound of the model on an unlimited queue
          None

ASSUME BlockingQueueAssumption ==
    /\ IsFiniteSet(Consumers)
    /\ Timed \subseteq Consumers
    /\ MaxSize \in Nat
    /\ MaxLen \in Nat
    /\ None \notin Messages

VARIABLES queue,       \* queue_
          shutdown,    \* shutdown_
          cpc,         \* where a consumer is in Pop (as in TaskQueue)
          out          \* out[c]: what c's last successful Pop returned

vars == <<queue, shutdown, cpc, out>>

Waiting == {c \in Consumers : cpc[c] = "waiting"}
Woken   == {c \in Consumers : cpc[c] = "woken"}

Init ==
    /\ queue = <<>>
    /\ shutdown = FALSE
    /\ cpc = [c \in Consumers |-> "idle"]
    /\ out = [c \in Consumers |-> None]

(* A plausible slip: the capacity test lets one element too many in. *)
FullOffByOne == MaxSize # 0 /\ Len(queue) > MaxSize

Full == MaxSize # 0 /\ Len(queue) >= MaxSize

(* not_empty_.notify_one, under the mutex. *)
NotifyOne ==
    \/ Waiting = {} /\ UNCHANGED cpc
    \/ \E c \in Waiting : cpc' = [cpc EXCEPT ![c] = "woken"]

(* A plausible slip: the element is queued but nobody is notified. *)
PushSilently(m) ==
    /\ ~shutdown /\ ~Full
    /\ Len(queue) < MaxLen
    /\ queue' = Append(queue, m)
    /\ UNCHANGED <<shutdown, cpc, out>>

(* Push returns true.  (false, when shut down or full, changes nothing.) *)
Push(m) ==
    /\ ~shutdown /\ ~Full
    /\ Len(queue) < MaxLen
    /\ queue' = Append(queue, m)
    /\ NotifyOne
    /\ UNCHANGED <<shutdown, out>>

PopCall(c) ==
    /\ cpc[c] = "idle"
    /\ cpc' = [cpc EXCEPT ![c] = "enter"]
    /\ UNCHANGED <<queue, shutdown, out>>

PopSleep(c) ==
    /\ cpc[c] \in {"enter", "woken"}
    /\ ~shutdown /\ queue = <<>>
    /\ cpc' = [cpc EXCEPT ![c] = "waiting"]
    /\ UNCHANGED <<queue, shutdown, out>>

PopTake(c) ==
    /\ cpc[c] \in {"enter", "woken", "expired"}
    /\ queue # <<>>
    /\ queue' = Tail(queue)
    /\ out' = [out EXCEPT ![c] = Head(queue)]
    /\ cpc' = [cpc EXCEPT ![c] = "idle"]
    /\ UNCHANGED shutdown

PopFail(c) ==
    /\ cpc[c] \in {"enter", "woken", "expired"}
    /\ queue = <<>>
    /\ shutdown \/ cpc[c] = "expired"
    /\ cpc' = [cpc EXCEPT ![c] = "idle"]
    /\ UNCHANGED <<queue, shutdown, out>>

PopExpire(c) ==
    /\ c \in Timed
    /\ cpc[c] = "waiting"
    /\ cpc' = [cpc EXCEPT ![c] = "expired"]
    /\ UNCHANGED <<queue, shutdown, out>>

SpuriousWake(c) ==
    /\ cpc[c] = "waiting"
    /\ cpc' = [cpc EXCEPT ![c] = "woken"]
    /\ UNCHANGED <<queue, shutdown, out>>

Clear ==
    /\ queue # <<>>
    /\ queue' = <<>>
    /\ UNCHANGED <<shutdown, cpc, out>>

(* A plausible slip: only one of the sleeping threads is woken. *)
ShutdownWakesOne ==
    /\ shutdown' = TRUE
    /\ NotifyOne
    /\ UNCHANGED <<queue, out>>

Shutdown ==
    /\ shutdown' = TRUE
    /\ cpc' = [c \in Consumers |-> IF c \in Waiting THEN "woken" ELSE cpc[c]]
    /\ UNCHANGED <<queue, out>>

PopStep(c) == PopSleep(c) \/ PopTake(c) \/ PopFail(c)

Next ==
    \/ \E m \in Messages : Push(m)
    \/ \E c \in Consumers : PopCall(c) \/ PopStep(c) \/ PopExpire(c) \/ SpuriousWake(c)
    \/ Clear
    \/ Shutdown

Fairness == \A c \in Consumers : WF_vars(PopStep(c))

Spec == Init /\ [][Next]_vars
FairSpec == Spec /\ Fairness
-----------------------------------------------------------------------------
TypeOK ==
    /\ queue \in Seq(Messages)
    /\ shutdown \in BOOLEAN
    /\ cpc \in [Consumers -> {"idle", "enter", "waiting", "woken", "expired"}]
    /\ out \in [Consumers -> Messages \union {None}]

(* While a Pop sleeps, every queued element has woken a thread that has    *)
(* still to look at the queue, and the queue is not shut down.             *)
SleepersAreSafe ==
    Waiting # {} => ~shutdown /\ Len(queue) <= Cardinality(Woken)

(* Every Pop in progress at Shutdown returns, the untimed ones included.   *)
PopReturnsAfterShutdown ==
    \A c \in Consumers : (shutdown /\ cpc[c] # "idle") ~> cpc[c] = "idle"

(* The queue implements the abstract hand-over with capacity max_size_.    *)
Fifo == INSTANCE ClosableFifo WITH
            Items <- Messages, Takers <- Consumers, Capacity <- MaxSize,
            items <- queue, closed <- shutdown, got <- out
FifoSpec == Fifo!FSpec
=============================================================================
