------------------------------ MODULE SelfTask ------------------------------
(***************************************************************************)
(* The self tasks of my_edge::BaseEdge (src/src/util/my_edge/BaseEdge.cpp):*)
(* the monitor thread (SelfTaskMonitorLoop / FetchSelfTask) moves one task *)
(* at a time from the self queue into the slot self_task, the action       *)
(* thread (SelfActionLoop / ExecuteSelfTask) executes it.  They hand over  *)
(* through self_task_run_state_, an atomic that SayHelloAction stores too. *)
(* Init, Start and Shutdown appear as far as they touch these threads; the *)
(* devices and the snapshot thread are in BaseEdge.                        *)
(*                                                                         *)
(* The TaskQueue object behind queues_[self_device_id_] is named by a      *)
(* generation number, 0 when there is none: Init and Shutdown destroy it,  *)
(* while FetchSelfTask keeps a raw pointer to it outside rw_mutex_.        *)
(***************************************************************************)
EXTENDS Naturals, Sequences

CONSTANTS
    Tasks,      \* the self tasks; each is appended at most once
    Hello,      \* the ones whose handler is the built-in SayHelloAction
    MaxInits,   \* bound of the model: calls of Init
    None

ASSUME SelfTaskAssumption ==
    /\ Hello \subseteq Tasks
    /\ MaxInits \in Nat
    /\ None \notin Tasks

VARIABLES
    runState,   \* run_state_
    op,         \* the Init or Shutdown that holds rw_mutex_, "none" otherwise
    inits,      \* number of calls of Init
    selfQ,      \* generation of the self queue in queues_, 0 = none
    sq,         \* its q_
    qshut,      \* its shutdown_
    state,      \* self_task_run_state_
    slot,       \* self_task
    mpc,        \* monitor thread; "off": not joinable, "exit": left its loop
    ptr,        \* the generation FetchSelfTask's raw pointer q refers to
    mtask,      \* the task FetchSelfTask has popped
    apc,        \* action thread
    atask,      \* its current_task
    selfStop,   \* self_action_stop_
    appended,   \* history: tasks handed to the self queue
    fetched,    \* history: tasks popped by the monitor, in order
    executed    \* history: tasks given to a handler, in order

life    == <<runState, op, inits>>
queue   == <<selfQ, sq, qshut>>
monitor == <<mpc, ptr, mtask>>
action  == <<apc, atask>>
vars    == <<life, queue, state, slot, monitor, action, selfStop,
             appended, fetched, executed>>

LockFree     == op = "none"
Waiting      == state \in {"Initializing", "Ready"}
Dangling     == ptr # selfQ
RangeOf(s)   == {s[i] : i \in DOMAIN s}

Init0 ==
    /\ runState = "Initializing"
    /\ op = "none"
    /\ inits = 0
    /\ selfQ = 0
    /\ sq = <<>>
    /\ qshut = FALSE
    /\ state = "RunOver"
    /\ slot = None
    /\ mpc = "off"
    /\ ptr = 0
    /\ mtask = None
    /\ apc = "off"
    /\ atask = None
    /\ selfStop = FALSE
    /\ appended = {}
    /\ fetched = <<>>
    /\ executed = <<>>
-----------------------------------------------------------------------------
(* The monitor thread.  self_task_monitor_stop_ is never set: its only     *)
(* writer, StopSelfTaskMonitorThreadLocked, is not called.                 *)

(* A plausible slip: the state of the last task is not tested. *)
MonCheckDropped ==
    /\ mpc = "head"
    /\ mpc' = "lookup"
    /\ UNCHANGED <<life, queue, state, slot, ptr, mtask, action, selfStop,
                   appended, fetched, executed>>

(* FetchSelfTask goes on only in RunOver; otherwise sleep and try again. *)
MonCheck ==
    /\ mpc = "head"
    /\ state = "RunOver"
    /\ mpc' = "lookup"
    /\ UNCHANGED <<life, queue, state, slot, ptr, mtask, action, selfStop,
                   appended, fetched, executed>>

(* Under rw_mutex_: the pointer is taken, or the loop is left. *)
MonLookup ==
    /\ mpc = "lookup"
    /\ LockFree
    /\ IF selfQ = 0 THEN mpc' = "exit" /\ UNCHANGED ptr
                    ELSE mpc' = "probe" /\ ptr' = selfQ
    /\ UNCHANGED <<life, queue, state, slot, mtask, action, selfStop,
                   appended, fetched, executed>>

(* q->IsShutdown(), on whatever q points to by now. *)
MonProbe ==
    /\ mpc = "probe"
    /\ mpc' \in IF Dangling THEN {"exit", "pop"}
                ELSE {IF qshut THEN "exit" ELSE "pop"}
    /\ UNCHANGED <<life, queue, state, slot, ptr, mtask, action, selfStop,
                   appended, fetched, executed>>

(* q->PopBlocking(out, 1000) returns a task. *)
MonPop ==
    /\ mpc = "pop"
    /\ ~Dangling
    /\ sq # <<>>
    /\ sq' = Tail(sq)
    /\ mtask' = Head(sq)
    /\ fetched' = Append(fetched, Head(sq))
    /\ mpc' = "store"
    /\ UNCHANGED <<life, selfQ, qshut, state, slot, ptr, action, selfStop,
                   appended, executed>>

(* A plausible slip: a timeout ends the loop like a missing queue. *)
MonPopFailLeaves ==
    /\ mpc = "pop"
    /\ ~Dangling
    /\ sq = <<>>
    /\ mpc' = "exit"
    /\ UNCHANGED <<life, queue, state, slot, ptr, mtask, action, selfStop,
                   appended, fetched, executed>>

(* It returns false (timeout or shut down alike: FetchSelfTask returns 2). *)
MonPopFail ==
    /\ mpc = "pop"
    /\ ~Dangling
    /\ sq = <<>>
    /\ mpc' = "head"
    /\ UNCHANGED <<life, queue, state, slot, ptr, mtask, action, selfStop,
                   appended, fetched, executed>>

(* The queue is gone: the call reads freed memory, it may return false or  *)
(* wait on what is no longer a mutex for ever.                             *)
MonPopDangling ==
    /\ mpc = "pop"
    /\ Dangling
    /\ mpc' \in {"head", "hung"}
    /\ UNCHANGED <<life, queue, state, slot, ptr, mtask, action, selfStop,
                   appended, fetched, executed>>

(* Under rw_mutex_self_task_. *)
MonStore ==
    /\ mpc = "store"
    /\ slot' = mtask
    /\ state' = "Initializing"
    /\ mtask' = None
    /\ mpc' = "head"
    /\ UNCHANGED <<life, queue, ptr, action, selfStop,
                   appended, fetched, executed>>

Monitor ==
    \/ MonCheck \/ MonLookup \/ MonProbe \/ MonPop \/ MonPopFail
    \/ MonPopDangling \/ MonStore
-----------------------------------------------------------------------------
(* The action thread. *)

(* A plausible slip: self_action_stop_ is not tested by the loop. *)
ActHeadUnstoppable ==
    /\ apc = "head"
    /\ Waiting
    /\ apc' = "settle"
    /\ UNCHANGED <<life, queue, state, slot, monitor, atask, selfStop,
                   appended, fetched, executed>>

(* while (!self_action_stop_) ExecuteSelfTask(): first test of the state. *)
ActHead ==
    /\ apc = "head"
    /\ selfStop \/ Waiting
    /\ apc' = IF selfStop THEN "exit" ELSE "settle"
    /\ UNCHANGED <<life, queue, state, slot, monitor, atask, selfStop,
                   appended, fetched, executed>>

(* ExecuteSelfTaskLocked, a second later: test again. *)
ActSettle ==
    /\ apc = "settle"
    /\ apc' = IF Waiting THEN "copy" ELSE "head"
    /\ UNCHANGED <<life, queue, state, slot, monitor, atask, selfStop,
                   appended, fetched, executed>>

(* current_task = self_task under rw_mutex_self_task_. *)
ActCopy ==
    /\ apc = "copy"
    /\ atask' = slot
    /\ apc' = "invoke"
    /\ UNCHANGED <<life, queue, state, slot, monitor, selfStop,
                   appended, fetched, executed>>

(* TryInvokeSelfTaskHandler: SayHelloAction refuses a state that is not    *)
(* waiting and marks the task Running; the other handlers, an unknown      *)
(* action or one that throws leave the state alone, and the empty task of  *)
(* an Init that came in between is refused.                                *)
ActInvoke ==
    /\ apc = "invoke"
    /\ executed' = IF atask = None THEN executed ELSE Append(executed, atask)
    /\ \/ /\ atask \in Hello /\ Waiting
          /\ state' = "Running"
          /\ apc' = "hello"
       \/ /\ ~(atask \in Hello /\ Waiting)
          /\ apc' = "finish"
          /\ UNCHANGED state
    /\ UNCHANGED <<life, queue, slot, monitor, atask, selfStop,
                   appended, fetched>>

(* SayHelloAction completes its five rounds, or sees self_action_stop_. *)
ActHello ==
    /\ apc = "hello"
    /\ state' \in {"RunOver"} \union (IF selfStop THEN {"Stopped"} ELSE {})
    /\ apc' = "finish"
    /\ UNCHANGED <<life, queue, slot, monitor, atask, selfStop,
                   appended, fetched, executed>>

(* A plausible slip: the state is left as it is. *)
FinishSelfTaskForgotten ==
    /\ apc = "finish"
    /\ apc' = "head"
    /\ atask' = None
    /\ UNCHANGED <<life, queue, state, slot, monitor, selfStop,
                   appended, fetched, executed>>

(* Under rw_mutex_self_task_: RunOver unless stopped. *)
FinishSelfTask ==
    /\ apc = "finish"
    /\ apc' = "head"
    /\ atask' = None
    /\ state' = IF state \in {"Stopping", "Stopped"} THEN state ELSE "RunOver"
    /\ UNCHANGED <<life, queue, slot, monitor, selfStop,
                   appended, fetched, executed>>

Action ==
    \/ ActHead \/ ActSettle \/ ActCopy \/ ActInvoke \/ ActHello \/ FinishSelfTask
-----------------------------------------------------------------------------
(* The lifecycle and the callers. *)

(* Init, first half: the hand-over state is reset. *)
InitReset ==
    /\ LockFree
    /\ inits < MaxInits
    /\ inits' = inits + 1
    /\ runState' = "Initializing"
    /\ op' = "init"
    /\ state' = "RunOver"
    /\ slot' = None
    /\ UNCHANGED <<queue, monitor, action, selfStop, appended, fetched, executed>>

(* Init, second half: the old self queue is destroyed, a new one made. *)
InitQueues ==
    /\ op = "init"
    /\ selfQ' = inits
    /\ sq' = <<>>
    /\ qshut' = FALSE
    /\ runState' = "Ready"
    /\ op' = "none"
    /\ UNCHANGED <<inits, state, slot, monitor, action, selfStop,
                   appended, fetched, executed>>

(* Start: a thread that is still joinable, running or not, is kept. *)
Start ==
    /\ LockFree
    /\ runState = "Ready"
    /\ runState' = "Running"
    /\ mpc' = IF mpc = "off" THEN "head" ELSE mpc
    /\ apc' = IF apc = "off" THEN "head" ELSE apc
    /\ selfStop' = IF apc = "off" THEN FALSE ELSE selfStop
    /\ UNCHANGED <<op, inits, queue, state, slot, ptr, mtask, atask,
                   appended, fetched, executed>>

ShutBegin ==
    /\ LockFree
    /\ runState \notin {"Stopped", "Stopping"}
    /\ runState' = "Stopping"
    /\ op' = "joinSelf"
    /\ selfStop' = TRUE
    /\ UNCHANGED <<inits, queue, state, slot, monitor, action,
                   appended, fetched, executed>>

ShutJoinSelf ==
    /\ op = "joinSelf"
    /\ apc \in {"off", "exit"}
    /\ apc' = "off"
    /\ op' = "shutQueue"
    /\ UNCHANGED <<runState, inits, queue, state, slot, monitor, atask, selfStop,
                   appended, fetched, executed>>

ShutQueue ==
    /\ op = "shutQueue"
    /\ qshut' = TRUE
    /\ op' = "clear"
    /\ UNCHANGED <<runState, inits, selfQ, sq, state, slot, monitor, action,
                   selfStop, appended, fetched, executed>>

(* queues_.clear(): the monitor thread is neither stopped nor joined. *)
ShutClear ==
    /\ op = "clear"
    /\ selfQ' = 0
    /\ sq' = <<>>
    /\ runState' = "Stopped"
    /\ op' = "none"
    /\ UNCHANGED <<inits, qshut, state, slot, monitor, action, selfStop,
                   appended, fetched, executed>>

(* AppendTask with device_id = self_device_id_. *)
AppendTask(t) ==
    /\ LockFree
    /\ t \notin appended
    /\ selfQ # 0
    /\ ~qshut
    /\ sq' = Append(sq, t)
    /\ appended' = appended \union {t}
    /\ UNCHANGED <<life, selfQ, qshut, state, slot, monitor, action, selfStop,
                   fetched, executed>>

Exclusive == InitQueues \/ ShutJoinSelf \/ ShutQueue \/ ShutClear

Next ==
    \/ Monitor
    \/ Action
    \/ InitReset \/ Start \/ ShutBegin
    \/ Exclusive
    \/ \E t \in Tasks : AppendTask(t)

Spec == Init0 /\ [][Next]_vars

(* Both threads and the holder of rw_mutex_ run; the handlers return. *)
FairSpec == Spec /\ WF_vars(Monitor) /\ WF_vars(Action) /\ WF_vars(Exclusive)
-----------------------------------------------------------------------------
TypeOK ==
    /\ runState \in {"Initializing", "Ready", "Running", "Stopping", "Stopped"}
    /\ op \in {"none", "init", "joinSelf", "shutQueue", "clear"}
    /\ inits \in 0..MaxInits
    /\ selfQ \in 0..MaxInits
    /\ sq \in Seq(Tasks)
    /\ qshut \in BOOLEAN
    /\ state \in {"Initializing", "Running", "Stopped", "RunOver"}
    /\ slot \in Tasks \union {None}
    /\ mpc \in {"off", "head", "lookup", "probe", "pop", "store", "hung", "exit"}
    /\ ptr \in 0..MaxInits
    /\ mtask \in Tasks \union {None}
    /\ apc \in {"off", "head", "settle", "copy", "invoke", "hello", "finish", "exit"}
    /\ atask \in Tasks \union {None}
    /\ selfStop \in BOOLEAN
    /\ appended \in SUBSET Tasks
    /\ fetched \in Seq(Tasks)
    /\ executed \in Seq(Tasks)

AfterHello(t) ==
    \E i \in 2..Len(fetched) : fetched[i] = t /\ fetched[i - 1] \in Hello

(* In the first life of the edge only the task fetched right after one of  *)
(* SayHelloAction can be lost: every other handler leaves the hand-over    *)
(* state to FinishSelfTask.                                                *)
LostOnlyAfterHello ==
    inits = 1 =>
        \A t \in RangeOf(fetched) \ RangeOf(executed) :
            \/ mpc = "store" /\ mtask = t
            \/ slot = t /\ Waiting
            \/ AfterHello(t)

(* No self task is executed twice, although the state is tested outside    *)
(* the lock that protects the slot and twice before the slot is read.      *)
AtMostOnce ==
    \A i, j \in DOMAIN executed : executed[i] = executed[j] => i = j

(* FetchSelfTask uses the queue it looked up only while it exists.         *)
QueueOutlivesUse == mpc \in {"probe", "pop"} => ~Dangling

(* Shutdown ends: the action thread it joins leaves its handler.           *)
ShutdownCompletes == (runState = "Stopping") ~> (runState = "Stopped")

(* In the first life of the edge a queued self task is executed unless the  *)
(* edge stops, but for a task SayHelloAction may have cost: the monitor and *)
(* the action thread never wait for each other.  (After Shutdown, Init and  *)
(* Start nobody serves the queue: the ended monitor thread stays joinable   *)
(* and is taken for a running one.)                                         *)
ServedInFirstLife ==
    \A t \in Tasks :
        (runState = "Running" /\ inits = 1 /\ t \in RangeOf(sq))
            ~> (t \in RangeOf(executed) \/ AfterHello(t) \/ runState # "Running")
=============================================================================
