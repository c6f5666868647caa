------------------------------ MODULE BaseEdge ------------------------------
(***************************************************************************)
(* my_edge::BaseEdge (src/src/util/my_edge/BaseEdge.{h,cpp}) with the      *)
(* devices it owns: their queues (my_control::TaskQueue), their Workflow   *)
(* threads (my_control/demo/Workflow.cpp) and the status each device       *)
(* reports (my_device/demo/uuv/UUVDevice.cpp).  The self-task threads of   *)
(* an edge are modelled in SelfTask.                                       *)
(*                                                                         *)
(* rw_mutex_ is held exclusively by Init, Start and Shutdown for as long   *)
(* as they run, and they wait for threads while they hold it: op names the *)
(* one in progress and its stage, "none" when the lock is free.  Submit,   *)
(* AppendTask and SetEStop never block inside the lock and are one step.   *)
(* The Workflow threads do not take rw_mutex_: they interleave with        *)
(* everything.                                                             *)
(***************************************************************************)
EXTENDS Naturals, Sequences, FiniteSets

CONSTANTS
    Devices,          \* the device ids of cfg["devices"]
    NoControl,        \* devices whose Init may fail: device.Start fails then
    Absent,           \* ids of an unknown type: a queue but no device object
    AllowQueueWhenEStop,  \* allow_queue_when_estop_
    SnapshotEnable,   \* snapshot_enable_
    MaxTasks,         \* bound of the model: tasks accepted in a behaviour
    MaxInits,         \* bound of the model: calls of Init
    None

ASSUME BaseEdgeAssumption ==
    /\ NoControl \subseteq Devices
    /\ Absent \subseteq Devices
    /\ NoControl \intersect Absent = {}
    /\ AllowQueueWhenEStop \in BOOLEAN
    /\ SnapshotEnable \in BOOLEAN
    /\ MaxTasks \in Nat
    /\ MaxInits \in Nat
    /\ None \notin Nat
    /\ None \notin Devices

VARIABLES
    runState,   \* run_state_
    estop,      \* estop_
    wired,      \* queues_/devices_/device_type_by_id_ are filled
    queue,      \* queue[d]: q_ of d's TaskQueue
    qshut,      \* qshut[d]: shutdown_ of d's TaskQueue
    wpc,        \* wpc[d]: where d's Workflow thread is, "off" when there is none
    stop,       \* stop[d]: stop_ of d's Workflow
    cur,        \* cur[d]: the task d's Workflow has popped and not finished
    status,     \* status[d]: status_.work_state and running_task_id of d
    spc,        \* snapshot thread
    snapStop,   \* snapshot_stop_
    apc,        \* self action thread (see SelfTask): "off", "run", "exit"
    selfStop,   \* self_action_stop_
    op,         \* the Init / Start / Shutdown that holds rw_mutex_
    todo,       \* Start: the devices still to be started
    reap,       \* the device whose Workflow is being stopped and joined
    inits,      \* number of calls of Init
    broken,     \* the devices the last Init left without a control_
    nextTask,   \* the id of the next task a caller hands over
    accepted,   \* history: accepted[d], the tasks queued for d, in order
    done,       \* history: done[d], the tasks d has finished, in order
    late        \* history: late[d], tasks d took since EStop became active

edge    == <<runState, estop, wired, op, todo, reap, inits, broken>>
queues  == <<queue, qshut>>
threads == <<spc, snapStop, apc, selfStop>>
work    == <<wpc, stop, cur, status>>
hist    == <<nextTask, accepted, done, late>>
vars    == <<edge, queues, threads, work, hist>>

Alive(d)   == wpc[d] \notin {"off", "exit"}
LockFree   == op = "none"
Idle       == [state |-> "Idle", task |-> None]

Init0 ==
    /\ runState = "Initializing"
    /\ estop = FALSE
    /\ wired = FALSE
    /\ queue = [d \in Devices |-> <<>>]
    /\ qshut = [d \in Devices |-> FALSE]
    /\ wpc = [d \in Devices |-> "off"]
    /\ stop = [d \in Devices |-> FALSE]
    /\ cur = [d \in Devices |-> None]
    /\ status = [d \in Devices |-> Idle]
    /\ spc = "off"
    /\ snapStop = FALSE
    /\ apc = "off"
    /\ selfStop = FALSE
    /\ op = "none"
    /\ todo = {}
    /\ reap = None
    /\ inits = 0
    /\ broken = {}
    /\ nextTask = 1
    /\ accepted = [d \in Devices |-> <<>>]
    /\ done = [d \in Devices |-> <<>>]
    /\ late = [d \in Devices |-> 0]
-----------------------------------------------------------------------------
(* The Workflow thread of device d. *)

(* while (!stop_.load()) *)
WfCheckStop(d) ==
    /\ wpc[d] = "check"
    /\ wpc' = [wpc EXCEPT ![d] = IF stop[d] THEN "exit" ELSE "estop"]
    /\ UNCHANGED <<edge, queues, threads, stop, cur, status, hist>>

(* A plausible slip: EStop is not looked at before a task is taken. *)
WfCheckEStopDropped(d) ==
    /\ wpc[d] = "estop"
    /\ wpc' = [wpc EXCEPT ![d] = "pop"]
    /\ UNCHANGED <<edge, queues, threads, stop, cur, status, hist>>

(* EStop: sleep and go round the loop; otherwise call PopBlocking. *)
WfCheckEStop(d) ==
    /\ wpc[d] = "estop"
    /\ wpc' = [wpc EXCEPT ![d] = IF estop THEN "check" ELSE "pop"]
    /\ UNCHANGED <<edge, queues, threads, stop, cur, status, hist>>

(* A plausible slip: the newest task is taken. *)
WfPopNewest(d) ==
    /\ wpc[d] = "pop"
    /\ queue[d] # <<>>
    /\ queue' = [queue EXCEPT ![d] = SubSeq(@, 1, Len(@) - 1)]
    /\ cur' = [cur EXCEPT ![d] = queue[d][Len(queue[d])]]
    /\ late' = [late EXCEPT ![d] = IF estop THEN @ + 1 ELSE @]
    /\ wpc' = [wpc EXCEPT ![d] = "start"]
    /\ UNCHANGED <<edge, qshut, threads, stop, status, nextTask, accepted,
                   done>>

(* PopBlocking returns a task (whenever there is one, shut down or not). *)
WfPop(d) ==
    /\ wpc[d] = "pop"
    /\ queue[d] # <<>>
    /\ queue' = [queue EXCEPT ![d] = Tail(@)]
    /\ cur' = [cur EXCEPT ![d] = Head(queue[d])]
    /\ late' = [late EXCEPT ![d] = IF estop THEN @ + 1 ELSE @]
    /\ wpc' = [wpc EXCEPT ![d] = "start"]
    /\ UNCHANGED <<edge, qshut, threads, stop, status, nextTask, accepted,
                   done>>

(* PopBlocking returns false: past 1234 ms, or shut down and empty. *)
WfPopFail(d) ==
    /\ wpc[d] = "pop"
    /\ queue[d] = <<>>
    /\ wpc' = [wpc EXCEPT ![d] = "failed"]
    /\ UNCHANGED <<edge, queues, threads, stop, cur, status, hist>>

(* A plausible slip: a timeout is taken for a shut-down queue. *)
WfAfterFailBreaks(d) ==
    /\ wpc[d] = "failed"
    /\ wpc' = [wpc EXCEPT ![d] = "exit"]
    /\ UNCHANGED <<edge, queues, threads, stop, cur, status, hist>>

(* if (queue_.IsShutdown()) break; otherwise go round the loop. *)
WfAfterFail(d) ==
    /\ wpc[d] = "failed"
    /\ wpc' = [wpc EXCEPT ![d] = IF qshut[d] THEN "exit" ELSE "check"]
    /\ UNCHANGED <<edge, queues, threads, stop, cur, status, hist>>

(* on_start_ = UpdateOnTaskStart, then DoTask begins. *)
WfStart(d) ==
    /\ wpc[d] = "start"
    /\ status' = [status EXCEPT ![d] = [state |-> "Busy", task |-> cur[d]]]
    /\ wpc' = [wpc EXCEPT ![d] = "do"]
    /\ UNCHANGED <<edge, queues, threads, stop, cur, hist>>

(* A plausible slip: an exception of DoTask leaves the loop body early, so *)
(* on_finish_ is not called and the device stays Busy.                     *)
WfFinishSkipped(d) ==
    /\ wpc[d] = "do"
    /\ cur' = [cur EXCEPT ![d] = None]
    /\ done' = [done EXCEPT ![d] = Append(@, cur[d])]
    /\ wpc' = [wpc EXCEPT ![d] = "check"]
    /\ UNCHANGED <<edge, queues, threads, stop, status, nextTask, accepted,
                   late>>

(* DoTask returns (an exception becomes InternalError), and on_finish_ =   *)
(* UpdateOnTaskFinish clears the running task.                             *)
WfFinish(d) ==
    /\ wpc[d] = "do"
    /\ \E s \in {"Idle", "Faulted"} :
          status' = [status EXCEPT ![d] = [state |-> s, task |-> None]]
    /\ cur' = [cur EXCEPT ![d] = None]
    /\ done' = [done EXCEPT ![d] = Append(@, cur[d])]
    /\ wpc' = [wpc EXCEPT ![d] = "check"]
    /\ UNCHANGED <<edge, queues, threads, stop, nextTask, accepted, late>>

Workflow(d) ==
    \/ WfCheckStop(d) \/ WfCheckEStop(d) \/ WfPop(d) \/ WfPopFail(d)
    \/ WfAfterFail(d) \/ WfStart(d) \/ WfFinish(d)
-----------------------------------------------------------------------------
(* The snapshot thread: test the flag, take rw_mutex_ to report, sleep.    *)

SnapCheck ==
    /\ spc = "check"
    /\ spc' = IF snapStop THEN "exit" ELSE "lock"
    /\ UNCHANGED <<edge, queues, snapStop, apc, selfStop, work, hist>>

SnapReport ==
    /\ spc = "lock"
    /\ LockFree
    /\ spc' = "check"
    /\ UNCHANGED <<edge, queues, snapStop, apc, selfStop, work, hist>>

(* SelfActionLoop leaves its loop once self_action_stop_ is set. *)
SelfActionExit ==
    /\ apc = "run"
    /\ selfStop
    /\ apc' = "exit"
    /\ UNCHANGED <<edge, queues, spc, snapStop, selfStop, work, hist>>
-----------------------------------------------------------------------------
(* The calls of other threads: REST API, MQTT, Pipeline. *)

Enqueue(d) ==
    /\ nextTask <= MaxTasks
    /\ nextTask' = nextTask + 1
    /\ queue' = [queue EXCEPT ![d] = Append(@, nextTask)]
    /\ accepted' = [accepted EXCEPT ![d] = Append(@, nextTask)]

(* AppendTaskToQueueLocked: the queue exists and is not shut down. *)
CanAppend(d) == wired /\ ~qshut[d]

(* Submit answers Ok: the edge runs, EStop does not forbid it, the device  *)
(* is known and its type has a normalizer, and the queue takes the task.   *)
SubmitAccepts(d) ==
    /\ runState = "Running"
    /\ estop => AllowQueueWhenEStop
    /\ d \notin Absent
    /\ CanAppend(d)

Submit(d) ==
    /\ LockFree
    /\ SubmitAccepts(d)
    /\ Enqueue(d)
    /\ UNCHANGED <<edge, qshut, threads, work, done, late>>

(* AppendTask looks neither at run_state_ nor at estop_. *)
AppendTask(d) ==
    /\ LockFree
    /\ CanAppend(d)
    /\ Enqueue(d)
    /\ UNCHANGED <<edge, qshut, threads, work, done, late>>

SetEStop(active) ==
    /\ LockFree
    /\ estop' = active
    /\ late' = IF active /\ ~estop THEN [d \in Devices |-> 0] ELSE late
    /\ UNCHANGED <<runState, wired, op, todo, reap, inits, broken, queues,
                   threads, work, nextTask, accepted, done>>
-----------------------------------------------------------------------------
(* Init: lock, destroy the old devices (~UUVDevice stops and joins its     *)
(* Workflow, one device after the other), then fill the maps again.        *)

InitBegin ==
    /\ LockFree
    /\ inits < MaxInits
    /\ inits' = inits + 1
    /\ runState' = "Initializing"
    /\ op' = "init"
    /\ UNCHANGED <<estop, wired, todo, reap, broken, queues, threads, work,
                   hist>>

(* Workflow::Stop, called by Init and Start on a Workflow they replace. *)
ReapStop(d) ==
    /\ op = "init" \/ (op = "start" /\ d \in todo \ broken)
    /\ reap = None
    /\ wpc[d] # "off"
    /\ reap' = d
    /\ stop' = [stop EXCEPT ![d] = TRUE]
    /\ UNCHANGED <<runState, estop, wired, op, todo, inits, broken, queues,
                   threads, wpc, cur, status, hist>>

(* Workflow::Join returns. *)
ReapJoin(d) ==
    /\ reap = d
    /\ wpc[d] = "exit"
    /\ reap' = None
    /\ wpc' = [wpc EXCEPT ![d] = "off"]
    /\ UNCHANGED <<runState, estop, wired, op, todo, inits, broken, queues,
                   threads, stop, cur, status, hist>>

(* The containers are emptied or refilled: queued tasks go with them. *)
ClearMaps ==
    /\ queue' = [d \in Devices |-> <<>>]
    /\ cur' = [d \in Devices |-> None]
    /\ status' = [d \in Devices |-> Idle]
    /\ accepted' = [d \in Devices |-> <<>>]
    /\ done' = [d \in Devices |-> <<>>]
    /\ late' = [d \in Devices |-> 0]
    /\ UNCHANGED nextTask

(* A plausible slip: the queues of the last run are kept, shut down. *)
InitEndKeepsQueues ==
    /\ op = "init"
    /\ reap = None
    /\ \A d \in Devices : wpc[d] = "off"
    /\ ClearMaps
    /\ broken' \in SUBSET NoControl
    /\ wired' = TRUE
    /\ runState' = "Ready"
    /\ op' = "none"
    /\ UNCHANGED <<qshut, estop, todo, reap, inits, threads, wpc, stop>>

InitEnd ==
    /\ op = "init"
    /\ reap = None
    /\ \A d \in Devices : wpc[d] = "off"
    /\ ClearMaps
    /\ broken' \in SUBSET NoControl
    /\ qshut' = [d \in Devices |-> FALSE]
    /\ wired' = TRUE
    /\ runState' = "Ready"
    /\ op' = "none"
    /\ UNCHANGED <<estop, todo, reap, inits, threads, wpc, stop>>

(* Start: refused unless Ready; starts the two loops unless a joinable     *)
(* thread is still there, then the devices in the order of the map.        *)
StartBegin ==
    /\ LockFree
    /\ runState = "Ready"
    /\ op' = "start"
    /\ todo' = Devices \ Absent
    /\ apc' = IF apc = "off" THEN "run" ELSE apc
    /\ selfStop' = IF apc = "off" THEN FALSE ELSE selfStop
    /\ spc' = IF SnapshotEnable /\ spc = "off" THEN "check" ELSE spc
    /\ snapStop' = IF SnapshotEnable /\ spc = "off" THEN FALSE ELSE snapStop
    /\ UNCHANGED <<runState, estop, wired, reap, inits, broken, queues, work,
                   hist>>

StartDevice(d) ==
    /\ op = "start"
    /\ d \in todo \ broken
    /\ reap = None
    /\ wpc[d] = "off"
    /\ todo' = todo \ {d}
    /\ wpc' = [wpc EXCEPT ![d] = "check"]
    /\ stop' = [stop EXCEPT ![d] = FALSE]
    /\ UNCHANGED <<runState, estop, wired, op, reap, inits, broken, queues,
                   threads, cur, status, hist>>

(* A plausible slip: the failure is logged and the edge set Running. *)
StartFailGoesOn(d) ==
    /\ op = "start"
    /\ d \in todo \intersect broken
    /\ reap = None
    /\ todo' = todo \ {d}
    /\ UNCHANGED <<runState, estop, wired, op, reap, inits, broken, queues,
                   threads, work, hist>>

(* device.Start fails: Start returns false, the edge stays Ready and what  *)
(* was started keeps running.                                              *)
StartFail(d) ==
    /\ op = "start"
    /\ d \in todo \intersect broken
    /\ reap = None
    /\ todo' = {}
    /\ op' = "none"
    /\ UNCHANGED <<runState, estop, wired, reap, inits, broken, queues,
                   threads, work, hist>>

StartEnd ==
    /\ op = "start"
    /\ todo = {}
    /\ reap = None
    /\ runState' = "Running"
    /\ op' = "none"
    /\ UNCHANGED <<estop, wired, todo, reap, inits, broken, queues, threads,
                   work, hist>>
-----------------------------------------------------------------------------
(* Shutdown, stage by stage; rw_mutex_ stays locked throughout. *)

ShutBegin ==
    /\ LockFree
    /\ runState \notin {"Stopped", "Stopping"}
    /\ runState' = "Stopping"
    /\ snapStop' = TRUE
    /\ op' = "joinSnap"
    /\ UNCHANGED <<estop, wired, todo, reap, inits, broken, queues, spc, apc,
                   selfStop, work, hist>>

ShutJoinSnap ==
    /\ op = "joinSnap"
    /\ spc \in {"off", "exit"}
    /\ spc' = "off"
    /\ selfStop' = TRUE
    /\ op' = "joinSelf"
    /\ UNCHANGED <<runState, estop, wired, todo, reap, inits, broken, queues,
                   snapStop, apc, work, hist>>

ShutJoinSelf ==
    /\ op = "joinSelf"
    /\ apc \in {"off", "exit"}
    /\ apc' = "off"
    /\ op' = "stopDevices"
    /\ UNCHANGED <<runState, estop, wired, todo, reap, inits, broken, queues,
                   spc, snapStop, selfStop, work, hist>>

(* A plausible slip: closing the queues is thought to be enough. *)
ShutStopDevicesSkipped ==
    /\ op = "stopDevices"
    /\ op' = "shutQueues"
    /\ UNCHANGED <<runState, estop, wired, todo, reap, inits, broken, queues,
                   threads, work, hist>>

ShutStopDevices ==
    /\ op = "stopDevices"
    /\ stop' = [d \in Devices |-> stop[d] \/ Alive(d)]
    /\ op' = "shutQueues"
    /\ UNCHANGED <<runState, estop, wired, todo, reap, inits, broken, queues,
                   threads, wpc, cur, status, hist>>

ShutQueues ==
    /\ op = "shutQueues"
    /\ qshut' = [d \in Devices |-> TRUE]
    /\ op' = "joinDevices"
    /\ UNCHANGED <<runState, estop, wired, todo, reap, inits, broken, queue,
                   threads, work, hist>>

(* A plausible slip: the maps are cleared without joining the devices. *)
ShutEndUnjoined ==
    /\ op = "joinDevices"
    /\ ClearMaps
    /\ wired' = FALSE
    /\ runState' = "Stopped"
    /\ op' = "none"
    /\ UNCHANGED <<estop, todo, reap, inits, broken, qshut, threads, wpc,
                   stop>>

ShutEnd ==
    /\ op = "joinDevices"
    /\ \A d \in Devices : ~Alive(d)
    /\ ClearMaps
    /\ wpc' = [d \in Devices |-> "off"]
    /\ wired' = FALSE
    /\ runState' = "Stopped"
    /\ op' = "none"
    /\ UNCHANGED <<estop, todo, reap, inits, broken, qshut, threads, stop>>
-----------------------------------------------------------------------------
Exclusive ==
    \/ InitEnd
    \/ StartEnd
    \/ \E d \in Devices : \/ ReapStop(d) \/ ReapJoin(d)
                         \/ StartDevice(d) \/ StartFail(d)
    \/ ShutJoinSnap \/ ShutJoinSelf \/ ShutStopDevices \/ ShutQueues \/ ShutEnd

Calls ==
    \/ InitBegin
    \/ StartBegin
    \/ ShutBegin
    \/ \E d \in Devices : Submit(d) \/ AppendTask(d)
    \/ \E b \in BOOLEAN : SetEStop(b)

Next ==
    \/ Calls
    \/ Exclusive
    \/ \E d \in Devices : Workflow(d)
    \/ SnapCheck
    \/ SnapReport
    \/ SelfActionExit

Spec == Init0 /\ [][Next]_vars

(* The operating system runs every thread; DoTask and the self-task        *)
(* handlers return.  Nobody is obliged to call the edge.                   *)
Fairness ==
    /\ WF_vars(Exclusive)
    /\ WF_vars(SnapCheck)
    /\ WF_vars(SnapReport)
    /\ WF_vars(SelfActionExit)
    /\ \A d \in Devices : WF_vars(Workflow(d))

FairSpec == Spec /\ Fairness
-----------------------------------------------------------------------------
RunStates == {"Initializing", "Ready", "Running", "Stopping", "Stopped"}
WfStates  == {"off", "check", "estop", "pop", "failed", "start", "do", "exit"}
Ops       == {"none", "init", "start", "joinSnap", "joinSelf", "stopDevices",
              "shutQueues", "joinDevices"}

TypeOK ==
    /\ runState \in RunStates
    /\ estop \in BOOLEAN
    /\ wired \in BOOLEAN
    /\ queue \in [Devices -> Seq(Nat)]
    /\ qshut \in [Devices -> BOOLEAN]
    /\ wpc \in [Devices -> WfStates]
    /\ stop \in [Devices -> BOOLEAN]
    /\ cur \in [Devices -> Nat \union {None}]
    /\ status \in [Devices -> [state : {"Idle", "Busy", "Faulted"},
                               task : Nat \union {None}]]
    /\ spc \in {"off", "check", "lock", "exit"}
    /\ snapStop \in BOOLEAN
    /\ apc \in {"off", "run", "exit"}
    /\ selfStop \in BOOLEAN
    /\ op \in Ops
    /\ todo \in SUBSET Devices
    /\ reap \in Devices \union {None}
    /\ inits \in Nat
    /\ broken \in SUBSET NoControl
    /\ nextTask \in Nat
    /\ accepted \in [Devices -> Seq(Nat)]
    /\ done \in [Devices -> Seq(Nat)]
    /\ late \in [Devices -> Nat]

(* A Workflow holds a task exactly from its Pop to the end of DoTask. *)
HoldsTask ==
    \A d \in Devices : (wpc[d] \in {"start", "do"}) <=> (cur[d] # None)

(* Between the moment EStop becomes active and its release a device takes  *)
(* at most one more task: the one its Workflow was already waiting for in  *)
(* PopBlocking when SetEStop stored the flag (Workflow::RunLoop).          *)
OneTaskAfterEStop == \A d \in Devices : late[d] <= 1

(* Nothing is lost, repeated or reordered between Submit / AppendTask and  *)
(* the end of DoTask: what a device was given is what it has finished, the *)
(* task its Workflow holds and what is still queued, in that order.        *)
InHand(d) == IF cur[d] = None THEN <<>> ELSE <<cur[d]>>
OrderPreserved ==
    \A d \in Devices : accepted[d] = done[d] \o InHand(d) \o queue[d]

(* The status a device reports (Busy, running_task_id) is that of the task *)
(* its Workflow executes, and no device that executes nothing is Busy, not *)
(* even when its Workflow was stopped or replaced half way.                *)
StatusMatches ==
    \A d \in Devices :
        /\ (status[d].state = "Busy") <=> (wpc[d] = "do")
        /\ status[d].task = IF wpc[d] = "do" THEN cur[d] ELSE None

(* A task that Submit can accept has a consumer: while the edge runs, each *)
(* device with an object has a Workflow thread that was not asked to stop  *)
(* and an open queue, after any sequence of failed starts, restarts and    *)
(* shutdowns.                                                              *)
AcceptedHasConsumer ==
    runState = "Running" =>
        /\ wired
        /\ \A d \in Devices \ Absent : Alive(d) /\ ~stop[d] /\ ~qshut[d]

(* Once Shutdown has set Stopped no thread it is responsible for is left   *)
(* that could touch the cleared queues_ and devices_.                      *)
StoppedIsQuiet ==
    runState = "Stopped" =>
        /\ \A d \in Devices : wpc[d] = "off"
        /\ spc = "off" /\ apc = "off" /\ ~wired

(* A Shutdown that has begun ends in Stopped (it joins every thread while  *)
(* it holds rw_mutex_).                                                    *)
ShutdownCompletes == (runState = "Stopping") ~> (runState = "Stopped")

(* The same for an edge with a snapshot thread: the only way not to end is  *)
(* that thread, inside its round and waiting for the lock Shutdown holds.   *)
(* Workflows, whatever they are doing, never keep Shutdown from its end.    *)
ShutdownEndsUnlessLocked ==
    (runState = "Stopping") ~> \/ runState = "Stopped"
                               \/ op = "joinSnap" /\ spc = "lock"

(* A queued task of a running edge is executed, unless EStop or the end of *)
(* the run intervene.                                                      *)
SubmittedRuns ==
    \A d \in Devices \ Absent, t \in 1..MaxTasks :
        (runState = "Running" /\ t \in {queue[d][i] : i \in DOMAIN queue[d]})
            ~> (\/ t \in {done[d][i] : i \in DOMAIN done[d]}
                \/ estop
                \/ runState # "Running")
=============================================================================
