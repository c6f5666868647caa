------------------------------ MODULE Pipeline ------------------------------
(***************************************************************************)
(* The process: main.cpp and tools/pipeline/Pipeline.cpp start the enabled *)
(* nodes, wait for SIGINT or SIGTERM and stop everything in a fixed order; *)
(* MyEdgeManager owns the edges (module UUVEdge) behind one mutex;         *)
(* HeartbeatManager and the REST server (MyAPI) are threads that go        *)
(* through that mutex while the edges are being stopped; JsonComm sits on  *)
(* FastMQTT.                                                               *)
(*                                                                         *)
(* The order of the nodes in the configuration is free: Launch picks any.  *)
(* FastMQTT is seen through what JsonComm asks of it (started, ready) and  *)
(* through its dispatcher thread.  A REST request runs in a thread of its  *)
(* own, which oatpp detaches.                                              *)
(***************************************************************************)
EXTENDS UUVEdge

CONSTANTS
    Nodes,     \* the enabled nodes, a subset of AllNodes
    Requests   \* request threads of the REST server

AllNodes == {"heartbeat", "edge", "edge_monitor", "rest_api", "fast_mqtt",
             "2536_comm"}

ASSUME PipelineAssumption == Nodes \subseteq AllNodes

VARIABLES
    main,       \* the main thread
    todo,       \* nodes LaunchRoBot has not reached yet
    toCreate,   \* edges LaunchEdge has not created yet
    exitReq,    \* g_exit_requested
    mutex,      \* MyEdgeManager::mutex_ is held by stopAllEdges
    hbRun, hb,  \* HeartbeatManager: running_ and the worker thread
    apiRun, srv,  \* MyAPI: is_running_ and the server thread
    req,        \* req[r]: the call a request thread is about to make
    port,       \* the REST port is "free" or "busy" (another process)
    mqtt,       \* FastMQTT: "off", "started", "ready"
    comm,       \* JsonComm: running_, and with it the entries of its topics and
                \* their registration at FastMQTT
    disp,       \* FastMQTT's dispatcher: where it is in a message
    late        \* history: calls of OnRawMessage whose business callbacks started
                \* after JsonComm::Stop had returned

beats == <<hbRun, hb>>
api   == <<apiRun, srv>>
msgs  == <<mqtt, comm, disp, late>>
vars  == <<edgeVars, main, todo, toCreate, exitReq, mutex, beats, api, req, port,
           msgs>>

Init ==
    /\ EdgeInit
    /\ main = "launch" /\ todo = Nodes /\ toCreate = {}
    /\ exitReq = FALSE
    /\ mutex = FALSE
    /\ hbRun = FALSE /\ hb = "off"
    /\ apiRun = FALSE /\ srv = "off"
    /\ req = [r \in Requests |-> "none"]
    /\ port \in {"free", "busy"}
    /\ mqtt = "off" /\ comm = FALSE /\ disp = "off" /\ late = 0

(* The process has threads: main has not returned and not been terminated. *)
Alive == main \notin {"exited", "terminated"}
-----------------------------------------------------------------------------
(* MyEdgeManager: each call holds mutex_ from its beginning to its end. *)

startAllEdges ==
    /\ ~mutex
    /\ \E ok \in [Edges -> BOOLEAN] : StartEdges(ok)

(* GetHeartbeatInfo and the other calls that only read. *)
GetHeartbeatInfo == ~mutex /\ UNCHANGED edgeVars

appendTaskToEdgeByIdV2 == ~mutex /\ \E e \in Edges : AppendTask(e)
-----------------------------------------------------------------------------
(* Launching the nodes, one after another; a failing node is only logged. *)

(* LaunchRoBot reaches the next node. *)
Launch(n, pc) ==
    /\ main = "launch"
    /\ n \in todo
    /\ todo' = todo \ {n}
    /\ main' = pc

(* A plausible slip: the handler around the whole loop is the only one; it *)
(* ends the loop.                                                          *)
LaunchFailsLast(n) ==
    /\ Launch(n, "wait")
    /\ UNCHANGED <<edgeVars, toCreate, exitReq, mutex, beats, api, req, port, msgs>>

(* The node's configuration or its first step fails or throws: a handler   *)
(* per node, and most Launch functions have one too.                       *)
LaunchFails(n) ==
    /\ Launch(n, "launch")
    /\ UNCHANGED <<edgeVars, toCreate, exitReq, mutex, beats, api, req, port, msgs>>

(* running_ is set before the thread is created, which may throw. *)
LaunchHeartbeat ==
    /\ Launch("heartbeat", "launch")
    /\ hbRun' = TRUE
    /\ hb' \in {"test", "off"}
    /\ UNCHANGED <<edgeVars, toCreate, exitReq, mutex, api, req, port, msgs>>

(* Initialize and Start; the threads connect later, if ever.  Creating     *)
(* them may throw before the dispatcher exists.                            *)
LaunchFastMQTT ==
    /\ Launch("fast_mqtt", "launch")
    /\ mqtt' = "started"
    /\ disp' \in {"idle", "off"}
    /\ UNCHANGED <<edgeVars, toCreate, exitReq, mutex, beats, api, req, port, comm, late>>

(* JsonComm registers its topics only if FastMQTT is ready now; nobody     *)
(* calls its Start again.                                                  *)
Launch2536Comm ==
    /\ Launch("2536_comm", "launch")
    /\ comm' = (mqtt = "ready")
    /\ UNCHANGED <<edgeVars, toCreate, exitReq, mutex, beats, api, req, port, mqtt, disp,
                   late>>

LaunchEdge ==
    /\ Launch("edge", "create")
    /\ toCreate' = Edges
    /\ UNCHANGED <<edgeVars, exitReq, mutex, beats, api, req, port, msgs>>

(* Create and register one edge; an edge of unknown type is skipped. *)
CreateEdge(e) ==
    /\ main = "create"
    /\ ~mutex
    /\ e \in toCreate
    /\ toCreate' = toCreate \ {e}
    /\ Create(e) \/ UNCHANGED edgeVars
    /\ UNCHANGED <<main, todo, exitReq, mutex, beats, api, req, port, msgs>>

(* All are created, or appendEdge has thrown at a duplicate id. *)
CreateEnds ==
    /\ main = "create"
    /\ toCreate' = {}
    /\ main' = "startEdges"
    /\ UNCHANGED <<edgeVars, todo, exitReq, mutex, beats, api, req, port, msgs>>

LaunchStartEdges ==
    /\ main = "startEdges"
    /\ startAllEdges
    /\ main' = "launch"
    /\ UNCHANGED <<todo, toCreate, exitReq, mutex, beats, api, req, port, msgs>>

LaunchEdgeMonitor ==
    /\ Launch("edge_monitor", "launch")
    /\ startAllEdges
    /\ UNCHANGED <<toCreate, exitReq, mutex, beats, api, req, port, msgs>>

LaunchRestAPI ==
    /\ Launch("rest_api", "restPort")
    /\ UNCHANGED <<edgeVars, toCreate, exitReq, mutex, beats, api, req, port, msgs>>

(* MyAPI::Start: nothing if is_running_; assigning to a std::thread that   *)
(* is still joinable terminates the process.                               *)
ApiStart(pc) ==
    /\ main' = IF ~apiRun /\ srv # "off" THEN "terminated" ELSE pc
    /\ srv' = IF ~apiRun /\ srv = "off" THEN "starting" ELSE srv
    /\ apiRun' = TRUE

(* LaunchRestAPI waits until the port is free, for ever if need be, calls  *)
(* Start, leaves the loop and calls Start a second time.                   *)
RestFirst ==
    /\ main = "restPort"
    /\ port = "free"
    /\ ApiStart("restAgain")
    /\ UNCHANGED <<edgeVars, todo, toCreate, exitReq, mutex, beats, req, port, msgs>>

RestAgain ==
    /\ main = "restAgain"
    /\ ApiStart("launch")
    /\ UNCHANGED <<edgeVars, todo, toCreate, exitReq, mutex, beats, req, port, msgs>>

LaunchEnds ==
    /\ main = "launch"
    /\ todo = {}
    /\ main' = "wait"
    /\ UNCHANGED <<edgeVars, todo, toCreate, exitReq, mutex, beats, api, req, port, msgs>>

LaunchRoBot ==
    \/ (\E n \in AllNodes : LaunchFails(n))
    \/ LaunchHeartbeat \/ LaunchFastMQTT \/ Launch2536Comm
    \/ LaunchEdge \/ (\E e \in Edges : CreateEdge(e)) \/ CreateEnds
    \/ LaunchStartEdges \/ LaunchEdgeMonitor
    \/ LaunchRestAPI \/ RestFirst \/ RestAgain \/ LaunchEnds
-----------------------------------------------------------------------------
(* Pipeline::Stop, in its order. *)

(* WaitForExitRequest sees the signal. *)
StopBegin ==
    /\ main = "wait"
    /\ exitReq
    /\ main' = "stopComm"
    /\ UNCHANGED <<edgeVars, todo, toCreate, exitReq, mutex, beats, api, req, port, msgs>>

(* A plausible slip: only running_ is cleared, the entries are kept. *)
StopCommKeepsEntries ==
    /\ main = "stopComm"
    /\ main' = "stopMqtt"
    /\ UNCHANGED <<edgeVars, todo, toCreate, exitReq, mutex, beats, api, req, port, msgs>>

(* JsonComm unregisters and forgets its topics, under its mutex_; what the *)
(* dispatcher has copied before is not taken back.                         *)
StopComm ==
    /\ main = "stopComm"
    /\ comm' = FALSE
    /\ main' = "stopMqtt"
    /\ UNCHANGED <<edgeVars, todo, toCreate, exitReq, mutex, beats, api, req, port, mqtt,
                   disp, late>>

(* FastMQTT::Destroy joins the dispatcher. *)
StopMqtt ==
    /\ main = "stopMqtt"
    /\ disp \in {"off", "idle"}
    /\ disp' = "off"
    /\ mqtt' = "off"
    /\ main' = "lockEdges"
    /\ UNCHANGED <<edgeVars, todo, toCreate, exitReq, mutex, beats, api, req, port, comm,
                   late>>

(* stopAllEdges: take mutex_, *)
StopEdgesLock ==
    /\ main = "lockEdges"
    /\ ~mutex
    /\ mutex' = TRUE
    /\ main' = "stopEdges"
    /\ UNCHANGED <<edgeVars, todo, toCreate, exitReq, beats, api, req, port, msgs>>

(* shut the edges down one by one, *)
StopEdge ==
    /\ main = "stopEdges"
    /\ \E e \in Edges :
          \/ (\A f \in Edges : LockFree(f)) /\ ShutBegin(e)
          \/ Shutdown(e)
    /\ UNCHANGED <<main, todo, toCreate, exitReq, mutex, beats, api, req, port, msgs>>

(* A plausible slip: mutex_ stays locked. *)
StopEdgesEndLocked ==
    /\ main = "stopEdges"
    /\ \A e \in Edges : run[e] \in {"absent", "Stopped"}
    /\ main' = "stopBeat"
    /\ UNCHANGED <<edgeVars, todo, toCreate, exitReq, mutex, beats, api, req, port, msgs>>

(* and release it. *)
StopEdgesEnd ==
    /\ main = "stopEdges"
    /\ \A e \in Edges : run[e] \in {"absent", "Stopped"}
    /\ mutex' = FALSE
    /\ main' = "stopBeat"
    /\ UNCHANGED <<edgeVars, todo, toCreate, exitReq, beats, api, req, port, msgs>>

StopBeat ==
    /\ main = "stopBeat"
    /\ hbRun' = FALSE
    /\ main' = IF hbRun THEN "joinBeat" ELSE "stopApi"
    /\ UNCHANGED <<edgeVars, todo, toCreate, exitReq, mutex, hb, api, req, port, msgs>>

JoinBeat ==
    /\ main = "joinBeat"
    /\ hb \in {"off", "exit"}
    /\ hb' = "off"
    /\ main' = "stopApi"
    /\ UNCHANGED <<edgeVars, todo, toCreate, exitReq, mutex, hbRun, api, req, port, msgs>>

StopApi ==
    /\ main = "stopApi"
    /\ apiRun' = FALSE
    /\ main' = "joinApi"
    /\ UNCHANGED <<edgeVars, todo, toCreate, exitReq, mutex, beats, srv, req, port, msgs>>

JoinApi ==
    /\ main = "joinApi"
    /\ srv \in {"off", "ended"}
    /\ srv' = "off"
    /\ main' = "exited"
    /\ UNCHANGED <<edgeVars, todo, toCreate, exitReq, mutex, beats, apiRun, req, port,
                   msgs>>

Stop ==
    \/ StopBegin \/ StopComm \/ StopMqtt
    \/ StopEdgesLock \/ StopEdge \/ StopEdgesEnd
    \/ StopBeat \/ JoinBeat \/ StopApi \/ JoinApi
-----------------------------------------------------------------------------
(* The other threads. *)

(* HeartbeatManager::WorkerLoop. *)
BeatTest ==
    /\ hb = "test"
    /\ hb' = IF hbRun THEN "build" ELSE "exit"
    /\ UNCHANGED <<edgeVars, mutex, hbRun>>

(* BuildHeartbeat goes through the manager's mutex_. *)
BuildHeartbeat ==
    /\ hb = "build"
    /\ GetHeartbeatInfo
    /\ hb' = "test"
    /\ UNCHANGED <<mutex, hbRun>>

WorkerLoop ==
    /\ Alive
    /\ BeatTest \/ BuildHeartbeat
    /\ UNCHANGED <<main, todo, toCreate, exitReq, api, req, port, msgs>>

(* MyAPI::ServerThread: set-up and bind, *)
ServerStarts ==
    /\ srv = "starting"
    /\ port = "free"
    /\ srv' = "serving"
    /\ UNCHANGED apiRun

(* or an exception, *)
ServerFails ==
    /\ srv = "starting"
    /\ srv' = "ended"
    /\ apiRun' = FALSE

(* and the end of server.run. *)
ServerEnds ==
    /\ srv = "serving"
    /\ ~apiRun
    /\ srv' = "ended"
    /\ UNCHANGED apiRun

ServerThread ==
    /\ Alive
    /\ ServerStarts \/ ServerFails \/ ServerEnds
    /\ UNCHANGED <<edgeVars, main, todo, toCreate, exitReq, mutex, beats, req, port, msgs>>

(* The server accepts a request for one of the controllers. *)
Accept(r, call) ==
    /\ Alive
    /\ srv = "serving"
    /\ req[r] = "none"
    /\ req' = [req EXCEPT ![r] = call]
    /\ UNCHANGED <<edgeVars, main, todo, toCreate, exitReq, mutex, beats, api, port, msgs>>

(* EdgesController makes the call. *)
Handle(r) ==
    /\ Alive
    /\ \/ req[r] = "read" /\ GetHeartbeatInfo
       \/ req[r] = "start" /\ startAllEdges
       \/ req[r] = "append" /\ appendTaskToEdgeByIdV2
    /\ req' = [req EXCEPT ![r] = "none"]
    /\ UNCHANGED <<main, todo, toCreate, exitReq, mutex, beats, api, port, msgs>>

(* FastMQTT's dispatcher.  DispatchToCallbacks copies the registrations a   *)
(* message from the queue matches, with or without a connection,            *)
DispatchMatch ==
    /\ disp = "idle" /\ comm
    /\ disp' = "raw"
    /\ UNCHANGED late

(* and calls OnRawMessage for each.  That copies the business callbacks of  *)
(* the topic under JsonComm's mutex_, if they are still there and the       *)
(* message is JSON,                                                         *)
OnRawMessage ==
    /\ disp = "raw"
    /\ disp' = "idle" \/ (comm /\ disp' = "copied")
    /\ UNCHANGED late

(* and starts them after the unlock: JsonComm::Stop may have returned.      *)
CallbackStarts ==
    /\ disp = "copied"
    /\ disp' = "callback"
    /\ late' = IF main = "stopMqtt" THEN late + 1 ELSE late

(* The next registration of the message, or the end of it. *)
CallbackEnds ==
    /\ disp = "callback"
    /\ disp' \in {"raw", "idle"}
    /\ UNCHANGED late

Dispatcher ==
    /\ Alive
    /\ DispatchMatch \/ OnRawMessage \/ CallbackStarts \/ CallbackEnds
    /\ UNCHANGED <<edgeVars, main, todo, toCreate, exitReq, mutex, beats, api, req, port,
                   mqtt, comm>>

(* The connection to the broker comes and goes. *)
Connection ==
    /\ Alive
    /\ mqtt # "off"
    /\ mqtt' = IF mqtt = "ready" THEN "started" ELSE "ready"
    /\ UNCHANGED <<edgeVars, main, todo, toCreate, exitReq, mutex, beats, api, req, port,
                   comm, disp, late>>

(* The threads of an edge. *)
SnapThread(e) ==
    /\ Alive
    /\ StatusSnapshotLoop(e)
    /\ UNCHANGED <<main, todo, toCreate, exitReq, mutex, beats, api, req, port, msgs>>

SelfThread(e) ==
    /\ Alive
    /\ SelfActionLoop(e)
    /\ UNCHANGED <<main, todo, toCreate, exitReq, mutex, beats, api, req, port, msgs>>

HandleExitSignal ==
    /\ Alive
    /\ ~exitReq
    /\ exitReq' = TRUE
    /\ UNCHANGED <<edgeVars, main, todo, toCreate, mutex, beats, api, req, port, msgs>>

(* Another process takes or leaves the port. *)
PortChanges ==
    /\ Alive
    /\ srv # "serving"
    /\ port' = IF port = "free" THEN "busy" ELSE "free"
    /\ UNCHANGED <<edgeVars, main, todo, toCreate, exitReq, mutex, beats, api, req, msgs>>

Next ==
    \/ LaunchRoBot
    \/ Stop
    \/ WorkerLoop
    \/ ServerThread
    \/ \E r \in Requests, call \in {"read", "start", "append"} : Accept(r, call)
    \/ \E r \in Requests : Handle(r)
    \/ Dispatcher
    \/ Connection
    \/ \E e \in Edges : SnapThread(e) \/ SelfThread(e)
    \/ HandleExitSignal
    \/ PortChanges

Spec == Init /\ [][Next]_vars

(* The scheduler runs main and every thread.  Requests, the broker, the    *)
(* port and the signal are the environment's.                              *)
FairSpec ==
    /\ Spec
    /\ WF_vars(LaunchRoBot)
    /\ WF_vars(Stop)
    /\ WF_vars(WorkerLoop)
    /\ WF_vars(ServerThread)
    /\ WF_vars(Dispatcher)
    /\ \A e \in Edges : WF_vars(SnapThread(e)) /\ WF_vars(SelfThread(e))
-----------------------------------------------------------------------------
TypeOK ==
    /\ run \in [Edges -> {"absent", "Initializing", "Ready", "Running", "Stopping",
                          "Stopped"}]
    /\ stage \in [Edges -> {"off", "joinSnap", "joinSelf", "devices"}]
    /\ snap \in [Edges -> {"off", "test", "lock", "exit"}]
    /\ act \in [Edges -> {"off", "test", "lookup", "pop", "exec", "exit"}]
    /\ selfq \in [Edges -> 0..MaxTaskQueueSize]
    /\ appended \in [Edges -> 0..MaxAppends]
    /\ main \in {"launch", "create", "startEdges", "restPort", "restAgain", "wait",
                 "stopComm", "stopMqtt", "lockEdges", "stopEdges", "stopBeat",
                 "joinBeat", "stopApi", "joinApi", "exited", "terminated"}
    /\ todo \subseteq AllNodes
    /\ toCreate \subseteq Edges
    /\ exitReq \in BOOLEAN /\ mutex \in BOOLEAN /\ hbRun \in BOOLEAN
    /\ apiRun \in BOOLEAN /\ comm \in BOOLEAN
    /\ hb \in {"off", "test", "build", "exit"}
    /\ srv \in {"off", "starting", "serving", "ended"}
    /\ req \in [Requests -> {"none", "read", "start", "append"}]
    /\ port \in {"free", "busy"}
    /\ mqtt \in {"off", "started", "ready"}
    /\ disp \in {"off", "idle", "raw", "copied", "callback"}
    /\ late \in Nat

(* Once stopAllEdges has returned every edge is stopped and has no thread  *)
(* left, although REST still accepts startAllEdges until the very end.     *)
EdgesStayStopped ==
    main \in {"stopBeat", "joinBeat", "stopApi", "joinApi", "exited"} =>
        \A e \in Edges : /\ run[e] \in {"absent", "Stopped"}
                         /\ snap[e] = "off" /\ act[e] = "off"

(* The self-action thread uses the queue whose pointer it copied only      *)
(* while Shutdown has not destroyed it (BaseEdge does not keep this).      *)
SelfQueueAlive ==
    \A e \in Edges : act[e] = "pop" => run[e] \in {"Running", "Stopping"}

(* After JsonComm::Stop has returned business callbacks may still start,   *)
(* but only those of one call of OnRawMessage, the one that had copied     *)
(* them before; no message queued or matched behind it reaches one,        *)
(* whatever FastMQTT has in its receive queue.  Once FastMQTT is destroyed *)
(* there is no dispatcher and none runs.                                   *)
CallbacksEnd ==
    /\ late <= 1
    /\ main \in {"lockEdges", "stopEdges", "stopBeat", "joinBeat", "stopApi", "joinApi",
                 "exited"} => disp = "off"

(* After a signal main returns, whatever heartbeat, requests and edges are *)
(* doing, unless an edge's Shutdown waits for a thread that waits for its  *)
(* lock.                                                                   *)
ExitCompletes ==
    (main = "wait" /\ exitReq) ~> (main = "exited" \/ \E e \in Edges : Stuck(e))

(* No failing node keeps the nodes after it from being launched: if the    *)
(* REST port is free in the end, LaunchRoBot gets to the last node and     *)
(* main waits for the signal, unless the second MyAPI::Start, after the    *)
(* server thread of the first has failed, terminates the process.          *)
LaunchFinishes ==
    <>[](port = "free") => <>(\/ main = "wait" /\ todo = {}
                              \/ main = "terminated" /\ srv = "ended")
=============================================================================
