----------------------------- MODULE TaskQueue ------------------------------
(***************************************************************************)
(* my_control::TaskQueue (src/src/util/my_control/TaskQueue.{h,cpp}): the  *)
(* mutex + condition_variable queue between an Edge (producers) and the    *)
(* Workflow thread of a device (consumers).                                *)
(*                                                                         *)
(* A section under mu_ is one step.  Push and Shutdown notify AFTER they   *)
(* have released mu_, so the notification is a step of its own and other   *)
(* threads run in between.  A consumer inside PopBlocking is               *)
(*   "enter"   about to evaluate the wait predicate for the first time,    *)
(*   "waiting" asleep on cv_,                                              *)
(*   "woken"   notified (or woken spuriously), about to re-evaluate it,    *)
(*   "expired" past its deadline, about to evaluate it a last time.        *)
(***************************************************************************)
EXTENDS Naturals, Sequences, FiniteSets

CONSTANTS Tasks,       \* the tasks that are pushed
          Producers,   \* threads that call Push
          Consumers,   \* threads that call PopBlocking
          Timed,       \* the consumers that pass timeout_ms >= 0
          MaxLen,      \* bound of the model on the length of q_
          None

ASSUME TaskQueueAssumption ==
    /\ IsFiniteSet(Producers)
    /\ IsFiniteSet(Consumers)
    /\ Timed \subseteq Consumers
    /\ MaxLen \in Nat
    /\ None \notin Tasks

VARIABLES q,           \* q_
          shutdown,    \* shutdown_
          ppc,         \* ppc[p]: "idle", or "notify" between unlock and notify_one
          cpc,         \* cpc[c]: where c is in PopBlocking, "idle" outside
          out,         \* out[c]: the task c's last successful PopBlocking returned
          closer       \* Shutdown: "idle", "notify" before notify_all, "done"

vars == <<q, shutdown, ppc, cpc, out, closer>>

Waiting   == {c \in Consumers : cpc[c] = "waiting"}
Woken     == {c \in Consumers : cpc[c] = "woken"}
Notifying == {p \in Producers : ppc[p] = "notify"}

Init ==
    /\ q = <<>>
    /\ shutdown = FALSE
    /\ ppc = [p \in Producers |-> "idle"]
    /\ cpc = [c \in Consumers |-> "idle"]
    /\ out = [c \in Consumers |-> None]
    /\ closer = "idle"

(* A plausible slip: notify only when the queue was empty. *)
PushNotifyOnEmpty(p, t) ==
    /\ ppc[p] = "idle"
    /\ ~shutdown
    /\ Len(q) < MaxLen
    /\ q' = Append(q, t)
    /\ ppc' = [ppc EXCEPT ![p] = IF q = <<>> THEN "notify" ELSE "idle"]
    /\ UNCHANGED <<shutdown, cpc, out, closer>>

(* Push under mu_: refused after Shutdown, otherwise appended. *)
Push(p, t) ==
    /\ ppc[p] = "idle"
    /\ \/ /\ shutdown
          /\ UNCHANGED <<q, ppc>>
       \/ /\ ~shutdown
          /\ Len(q) < MaxLen
          /\ q' = Append(q, t)
          /\ ppc' = [ppc EXCEPT ![p] = "notify"]
    /\ UNCHANGED <<shutdown, cpc, out, closer>>

(* cv_.notify_one: some sleeping consumer, if there is one, is woken. *)
NotifyOne(p) ==
    /\ ppc[p] = "notify"
    /\ ppc' = [ppc EXCEPT ![p] = "idle"]
    /\ \/ Waiting = {} /\ UNCHANGED cpc
       \/ \E c \in Waiting : cpc' = [cpc EXCEPT ![c] = "woken"]
    /\ UNCHANGED <<q, shutdown, out, closer>>

PopCall(c) ==
    /\ cpc[c] = "idle"
    /\ cpc' = [cpc EXCEPT ![c] = "enter"]
    /\ UNCHANGED <<q, shutdown, ppc, out, closer>>

(* The predicate does not hold: go (back) to sleep, releasing mu_. *)
PopSleep(c) ==
    /\ cpc[c] \in {"enter", "woken"}
    /\ ~shutdown /\ q = <<>>
    /\ cpc' = [cpc EXCEPT ![c] = "waiting"]
    /\ UNCHANGED <<q, shutdown, ppc, out, closer>>

(* A plausible slip: the newest task is taken. *)
PopTakeNewest(c) ==
    /\ cpc[c] \in {"enter", "woken", "expired"}
    /\ q # <<>>
    /\ q' = SubSeq(q, 1, Len(q) - 1)
    /\ out' = [out EXCEPT ![c] = q[Len(q)]]
    /\ cpc' = [cpc EXCEPT ![c] = "idle"]
    /\ UNCHANGED <<shutdown, ppc, closer>>

(* A task is there, shut down or not: it is popped and returned. *)
PopTake(c) ==
    /\ cpc[c] \in {"enter", "woken", "expired"}
    /\ q # <<>>
    /\ q' = Tail(q)
    /\ out' = [out EXCEPT ![c] = Head(q)]
    /\ cpc' = [cpc EXCEPT ![c] = "idle"]
    /\ UNCHANGED <<shutdown, ppc, closer>>

(* PopBlocking returns false: shut down and empty, or past the deadline. *)
PopFail(c) ==
    /\ cpc[c] \in {"enter", "woken", "expired"}
    /\ q = <<>>
    /\ shutdown \/ cpc[c] = "expired"
    /\ cpc' = [cpc EXCEPT ![c] = "idle"]
    /\ UNCHANGED <<q, shutdown, ppc, out, closer>>

(* wait_until reaches its deadline.  A thread that was notified as well is  *)
(* in "woken": it evaluates the predicate before it looks at the clock.    *)
PopExpire(c) ==
    /\ c \in Timed
    /\ cpc[c] = "waiting"
    /\ cpc' = [cpc EXCEPT ![c] = "expired"]
    /\ UNCHANGED <<q, shutdown, ppc, out, closer>>

(* A condition variable may wake a thread without a notification. *)
SpuriousWake(c) ==
    /\ cpc[c] = "waiting"
    /\ cpc' = [cpc EXCEPT ![c] = "woken"]
    /\ UNCHANGED <<q, shutdown, ppc, out, closer>>

Clear ==
    /\ q # <<>>
    /\ q' = <<>>
    /\ UNCHANGED <<shutdown, ppc, cpc, out, closer>>

(* Shutdown under mu_; a second call returns at once. *)
Shutdown ==
    /\ closer = "idle"
    /\ shutdown' = TRUE
    /\ closer' = "notify"
    /\ UNCHANGED <<q, ppc, cpc, out>>

(* A plausible slip: notify_one instead of notify_all. *)
NotifyAllAsOne ==
    /\ closer = "notify"
    /\ closer' = "done"
    /\ \/ Waiting = {} /\ UNCHANGED cpc
       \/ \E c \in Waiting : cpc' = [cpc EXCEPT ![c] = "woken"]
    /\ UNCHANGED <<q, shutdown, ppc, out>>

NotifyAll ==
    /\ closer = "notify"
    /\ closer' = "done"
    /\ cpc' = [c \in Consumers |-> IF c \in Waiting THEN "woken" ELSE cpc[c]]
    /\ UNCHANGED <<q, shutdown, ppc, out>>

PopStep(c) == PopSleep(c) \/ PopTake(c) \/ PopFail(c)

Next ==
    \/ \E p \in Producers, t \in Tasks : Push(p, t)
    \/ \E p \in Producers : NotifyOne(p)
    \/ \E c \in Consumers : PopCall(c) \/ PopStep(c) \/ PopExpire(c) \/ SpuriousWake(c)
    \/ Clear
    \/ Shutdown
    \/ NotifyAll

(* The threads that hold or are about to take mu_ run; callers need not call. *)
Fairness ==
    /\ \A p \in Producers : WF_vars(NotifyOne(p))
    /\ \A c \in Consumers : WF_vars(PopStep(c))
    /\ WF_vars(NotifyAll)

Spec == Init /\ [][Next]_vars
FairSpec == Spec /\ Fairness
-----------------------------------------------------------------------------
TypeOK ==
    /\ q \in Seq(Tasks)
    /\ shutdown \in BOOLEAN
    /\ ppc \in [Producers -> {"idle", "notify"}]
    /\ cpc \in [Consumers -> {"idle", "enter", "waiting", "woken", "expired"}]
    /\ out \in [Consumers -> Tasks \union {None}]
    /\ closer \in {"idle", "notify", "done"}

(* No lost wake-up.  While a consumer sleeps, every queued task has a      *)
(* notification on its way: a producer still to call notify_one or a       *)
(* consumer already woken (Push notifies outside mu_).                     *)
WakeupPending ==
    Waiting # {} => Len(q) <= Cardinality(Notifying) + Cardinality(Woken)

(* After the flag is set nobody sleeps for good: as long as a consumer     *)
(* sleeps in a shut-down queue, Shutdown has still to call notify_all.     *)
ShutdownWakes ==
    shutdown /\ Waiting # {} => closer = "notify"

(* Once the queue is shut down, every PopBlocking in progress returns,     *)
(* whatever timeout it was called with (TaskQueue.h:26).                   *)
PopReturnsAfterShutdown ==
    \A c \in Consumers : (shutdown /\ cpc[c] # "idle") ~> cpc[c] = "idle"

(* The queue implements the abstract first-in first-out hand-over.         *)
Fifo == INSTANCE ClosableFifo WITH
            Items <- Tasks, Takers <- Consumers, Capacity <- 0,
            items <- q, closed <- shutdown, got <- out
FifoSpec == Fifo!FSpec
=============================================================================
