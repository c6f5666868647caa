------------------------------ MODULE UUVEdge ------------------------------
(***************************************************************************)
(* my_edge::demo::UUVEdge (src/src/util/my_edge/demo/UUVEdge.cpp): the     *)
(* life of an edge that does not derive from BaseEdge, with its snapshot   *)
(* thread (snap) and its self-action thread (act).  Both take rw_mutex_;   *)
(* Shutdown holds it exclusively while it joins them.  The devices and     *)
(* their Workflows are those of BaseEdge and are left out here.  Module    *)
(* Pipeline composes the edges with their manager and the process.         *)
(***************************************************************************)
EXTENDS Integers

CONSTANTS
    Edges,           \* the edges of the configuration
    SnapshotEnable,  \* status_snapshot_enable_ and an initialized MyDB
    MaxTaskQueueSize,  \* max_task_queue_size, 1000 in the code
    MaxAppends       \* bound of the model: self tasks appended to an edge

ASSUME UUVEdgeAssumption ==
    SnapshotEnable \in BOOLEAN /\ MaxTaskQueueSize \in Nat /\ MaxAppends \in Nat

VARIABLES
    run,      \* run_state_; "absent" while the edge is not registered
    stage,    \* where Shutdown is, which holds rw_mutex_ from the first on
    snap,     \* the snapshot thread
    act,      \* the self-action thread
    selfq,    \* number of tasks in the self queue
    appended  \* history: self tasks accepted so far

edgeVars == <<run, stage, snap, act, selfq, appended>>

EdgeInit ==
    /\ run = [e \in Edges |-> "absent"]
    /\ stage = [e \in Edges |-> "off"]
    /\ snap = [e \in Edges |-> "off"]
    /\ act = [e \in Edges |-> "off"]
    /\ selfq = [e \in Edges |-> 0]
    /\ appended = [e \in Edges |-> 0]

(* rw_mutex_ can be taken. *)
LockFree(e) == stage[e] = "off"

(* snapshot_stop_ and self_action_stop_. *)
SnapStop(e) == run[e] \in {"Stopping", "Stopped"}
SelfStop(e) == stage[e] \in {"joinSelf", "devices"} \/ run[e] = "Stopped"
-----------------------------------------------------------------------------
(* The constructor calls Init.  The state is that of the last device: Ready *)
(* if it could be created, whatever happened to the ones before it.         *)
Create(e) ==
    /\ run[e] = "absent"
    /\ \E s \in {"Ready", "Initializing"} : run' = [run EXCEPT ![e] = s]
    /\ UNCHANGED <<stage, snap, act, selfq, appended>>

(* A plausible slip: only a running edge is refused. *)
StartedAnyway(e, ok) ==
    run[e] \in {"Initializing", "Ready", "Stopped"} /\ ok

(* Start is accepted and every device starts. *)
Started(e, ok) == run[e] = "Ready" /\ ok

(* Start of the edges whose devices start (ok); the others stay Ready. *)
StartEdges(ok) ==
    /\ run' = [e \in Edges |-> IF Started(e, ok[e]) THEN "Running" ELSE run[e]]
    /\ snap' = [e \in Edges |-> IF Started(e, ok[e]) /\ SnapshotEnable /\ snap[e] = "off"
                                THEN "test" ELSE snap[e]]
    /\ act' = [e \in Edges |-> IF Started(e, ok[e]) /\ act[e] = "off"
                               THEN "test" ELSE act[e]]
    /\ UNCHANGED <<stage, selfq, appended>>

(* AppendTask for the edge's own queue, which exists from Init to Shutdown: *)
(* there is room in it, or the task is refused.  AppendTask takes rw_mutex_ *)
(* shared twice in one thread; the second time succeeds even with a writer  *)
(* (SetEStop of the self-action thread) waiting, since the shared_mutex of  *)
(* the platform prefers readers.                                            *)
AppendTask(e) ==
    /\ LockFree(e)
    /\ \/ /\ run[e] \notin {"absent", "Stopped"} /\ selfq[e] < MaxTaskQueueSize
          /\ appended[e] < MaxAppends
          /\ appended' = [appended EXCEPT ![e] = @ + 1]
          /\ selfq' = [selfq EXCEPT ![e] = @ + 1]
          /\ UNCHANGED <<run, stage, snap, act>>
       \/ /\ run[e] \in {"absent", "Stopped"} \/ selfq[e] >= MaxTaskQueueSize
          /\ UNCHANGED edgeVars
-----------------------------------------------------------------------------
(* The snapshot thread. *)

SnapTest(e) ==
    /\ snap[e] = "test"
    /\ snap' = [snap EXCEPT ![e] = IF SnapStop(e) THEN "exit" ELSE "lock"]
    /\ UNCHANGED <<run, stage, act, selfq, appended>>

(* GetStatusSnapshot under the lock, then the inserts and the sleep. *)
SnapRound(e) ==
    /\ snap[e] = "lock"
    /\ LockFree(e)
    /\ snap' = [snap EXCEPT ![e] = "test"]
    /\ UNCHANGED <<run, stage, act, selfq, appended>>

StatusSnapshotLoop(e) == SnapTest(e) \/ SnapRound(e)
-----------------------------------------------------------------------------
(* The self-action thread. *)

ActTest(e) ==
    /\ act[e] = "test"
    /\ act' = [act EXCEPT ![e] = IF SelfStop(e) THEN "exit" ELSE "lookup"]
    /\ UNCHANGED <<run, stage, snap, selfq, appended>>

(* GetSelfTask copies the pointer to the queue under the lock. *)
ActLookup(e) ==
    /\ act[e] = "lookup"
    /\ LockFree(e)
    /\ act' = [act EXCEPT ![e] = IF run[e] = "Stopped" THEN "test" ELSE "pop"]
    /\ UNCHANGED <<run, stage, snap, selfq, appended>>

(* PopBlocking returns a task, also from a queue that was shut down.  An    *)
(* unknown action is only logged.                                           *)
ActPop(e) ==
    /\ act[e] = "pop"
    /\ selfq[e] > 0
    /\ selfq' = [selfq EXCEPT ![e] = @ - 1]
    /\ \E pc \in {"exec", "test"} : act' = [act EXCEPT ![e] = pc]
    /\ UNCHANGED <<run, stage, snap, appended>>

(* Timeout or shut-down queue. *)
ActPopFail(e) ==
    /\ act[e] = "pop"
    /\ selfq[e] = 0
    /\ act' = [act EXCEPT ![e] = "test"]
    /\ UNCHANGED <<run, stage, snap, selfq, appended>>

(* ExecuteSelfTask: get_status, set_estop and dump_info take rw_mutex_. *)
ActExecute(e) ==
    /\ act[e] = "exec"
    /\ LockFree(e)
    /\ act' = [act EXCEPT ![e] = "test"]
    /\ UNCHANGED <<run, stage, snap, selfq, appended>>

SelfActionLoop(e) ==
    ActTest(e) \/ ActLookup(e) \/ ActPop(e) \/ ActPopFail(e) \/ ActExecute(e)
-----------------------------------------------------------------------------
(* Shutdown, called by the manager. *)

(* A stopped edge returns at once; otherwise take rw_mutex_ and set the     *)
(* flag of the snapshot thread.                                             *)
ShutBegin(e) ==
    /\ run[e] \notin {"absent", "Stopping", "Stopped"}
    /\ LockFree(e)
    /\ run' = [run EXCEPT ![e] = "Stopping"]
    /\ stage' = [stage EXCEPT ![e] = "joinSnap"]
    /\ UNCHANGED <<snap, act, selfq, appended>>

(* The snapshot thread is joined; shut the self queue down and set the flag *)
(* of the self-action thread.                                               *)
ShutJoinSnap(e) ==
    /\ stage[e] = "joinSnap"
    /\ snap[e] \in {"off", "exit"}
    /\ snap' = [snap EXCEPT ![e] = "off"]
    /\ stage' = [stage EXCEPT ![e] = "joinSelf"]
    /\ UNCHANGED <<run, act, selfq, appended>>

(* A plausible slip: the self-action thread is only asked to stop. *)
ShutJoinSelfLater(e) ==
    /\ stage[e] = "joinSelf"
    /\ stage' = [stage EXCEPT ![e] = "devices"]
    /\ UNCHANGED <<run, snap, act, selfq, appended>>

ShutJoinSelf(e) ==
    /\ stage[e] = "joinSelf"
    /\ act[e] \in {"off", "exit"}
    /\ act' = [act EXCEPT ![e] = "off"]
    /\ stage' = [stage EXCEPT ![e] = "devices"]
    /\ UNCHANGED <<run, snap, selfq, appended>>

(* Stop and join the devices, destroy the queues, release the lock. *)
ShutEnd(e) ==
    /\ stage[e] = "devices"
    /\ run' = [run EXCEPT ![e] = "Stopped"]
    /\ selfq' = [selfq EXCEPT ![e] = 0]
    /\ stage' = [stage EXCEPT ![e] = "off"]
    /\ UNCHANGED <<snap, act, appended>>

Shutdown(e) == ShutJoinSnap(e) \/ ShutJoinSelf(e) \/ ShutEnd(e)

(* Shutdown waits for a thread that waits for the lock Shutdown holds. *)
Stuck(e) ==
    \/ stage[e] = "joinSnap" /\ snap[e] = "lock"
    \/ stage[e] = "joinSelf" /\ act[e] \in {"lookup", "exec"}
=============================================================================
