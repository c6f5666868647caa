--------------------------- MODULE Pipeline_proofs ---------------------------
(***************************************************************************)
(* Proofs about Pipeline for every set of edges, nodes and request threads *)
(* and any number of self tasks.                                           *)
(***************************************************************************)
EXTENDS Pipeline, TLAPS

USE DEF edgeVars, beats, api, msgs, vars

(* An edge has threads only while it runs or is being shut down; Shutdown  *)
(* takes them away one after the other, under the lock.                    *)
LifeInv ==
    /\ run \in [Edges -> {"absent", "Initializing", "Ready", "Running", "Stopping",
                          "Stopped"}]
    /\ stage \in [Edges -> {"off", "joinSnap", "joinSelf", "devices"}]
    /\ snap \in [Edges -> {"off", "test", "lock", "exit"}]
    /\ act \in [Edges -> {"off", "test", "lookup", "pop", "exec", "exit"}]
    /\ \A e \in Edges :
          /\ (snap[e] # "off" \/ act[e] # "off") => run[e] \in {"Running", "Stopping"}
          /\ stage[e] # "off" => run[e] = "Stopping"
          /\ stage[e] = "devices" => act[e] = "off"
          /\ stage[e] \in {"joinSelf", "devices"} => snap[e] = "off"

(* Nothing is registered or started before its constructor. *)
LEMMA LifeInit == Init => LifeInv /\ EdgesStayStopped
  BY DEF Init, EdgeInit, LifeInv, EdgesStayStopped

(* The steps of an edge's threads. *)
LEMMA LifeThreads ==
  ASSUME LifeInv, NEW e \in Edges,
         StatusSnapshotLoop(e) \/ SelfActionLoop(e)
  PROVE  LifeInv' /\ run' = run /\ stage' = stage
         /\ (snap[e] # "off" \/ act[e] # "off")
<1>1. CASE SnapTest(e)    BY <1>1 DEF SnapTest, LifeInv
<1>2. CASE SnapRound(e)   BY <1>2 DEF SnapRound, LifeInv
<1>3. CASE ActTest(e)     BY <1>3 DEF ActTest, LifeInv
<1>4. CASE ActLookup(e)   BY <1>4 DEF ActLookup, LifeInv
<1>5. CASE ActPop(e)
  <2>1. PICK pc \in {"exec", "test"} : act' = [act EXCEPT ![e] = pc]
    BY <1>5 DEF ActPop
  <2> QED BY <1>5, <2>1 DEF ActPop, LifeInv
<1>6. CASE ActPopFail(e)  BY <1>6 DEF ActPopFail, LifeInv
<1>7. CASE ActExecute(e)  BY <1>7 DEF ActExecute, LifeInv
<1> QED BY <1>1, <1>2, <1>3, <1>4, <1>5, <1>6, <1>7
        DEF StatusSnapshotLoop, SelfActionLoop

(* Start only adds threads to Ready edges. *)
LEMMA LifeStart ==
  ASSUME LifeInv, NEW ok \in [Edges -> BOOLEAN], StartEdges(ok)
  PROVE  /\ LifeInv'
         /\ \A e \in Edges : run[e] \in {"absent", "Stopped"} =>
               run'[e] = run[e] /\ snap'[e] = snap[e] /\ act'[e] = act[e]
  BY DEF StartEdges, Started, LifeInv

(* Shutdown, from its first step to its last. *)
LEMMA LifeShutdown ==
  ASSUME LifeInv, NEW e \in Edges, ShutBegin(e) \/ Shutdown(e)
  PROVE  LifeInv'
<1>1. CASE ShutBegin(e)     BY <1>1 DEF ShutBegin, LifeInv, LockFree
<1>2. CASE ShutJoinSnap(e)  BY <1>2 DEF ShutJoinSnap, LifeInv
<1>3. CASE ShutJoinSelf(e)  BY <1>3 DEF ShutJoinSelf, LifeInv
<1>4. CASE ShutEnd(e)       BY <1>4 DEF ShutEnd, LifeInv
<1> QED BY <1>1, <1>2, <1>3, <1>4 DEF Shutdown

(* A request may start all edges or append a task. *)
LEMMA LifeHandle ==
  ASSUME LifeInv, EdgesStayStopped, NEW r \in Requests, Handle(r)
  PROVE  LifeInv' /\ EdgesStayStopped'
<1>0. main' = main
  BY DEF Handle
<1>1. CASE UNCHANGED edgeVars
  BY <1>0, <1>1 DEF LifeInv, EdgesStayStopped
<1>2. CASE startAllEdges
  <2>1. PICK ok \in [Edges -> BOOLEAN] : StartEdges(ok)
    BY <1>2 DEF startAllEdges
  <2> QED BY <1>0, <2>1, LifeStart DEF EdgesStayStopped
<1>3. CASE appendTaskToEdgeByIdV2
  BY <1>0, <1>3 DEF appendTaskToEdgeByIdV2, AppendTask, LifeInv, EdgesStayStopped
<1> QED BY <1>1, <1>2, <1>3 DEF Handle, GetHeartbeatInfo

(* The invariant is inductive. *)
LEMMA LifeNext == LifeInv /\ EdgesStayStopped /\ [Next]_vars => LifeInv' /\ EdgesStayStopped'
<1> SUFFICES ASSUME LifeInv, EdgesStayStopped, [Next]_vars
             PROVE  LifeInv' /\ EdgesStayStopped'
  OBVIOUS
<1>1. CASE LaunchRoBot
  <2>1. ASSUME NEW e \in Edges, CreateEdge(e) PROVE LifeInv' /\ EdgesStayStopped'
    <3>1. CASE UNCHANGED edgeVars
      BY <2>1, <3>1 DEF CreateEdge, LifeInv, EdgesStayStopped
    <3>2. CASE Create(e)
      <4>1. PICK s \in {"Ready", "Initializing"} : run' = [run EXCEPT ![e] = s]
        BY <3>2 DEF Create
      <4> QED BY <2>1, <3>2, <4>1 DEF CreateEdge, Create, LifeInv, EdgesStayStopped
    <3> QED BY <2>1, <3>1, <3>2 DEF CreateEdge
  <2>2. CASE LaunchStartEdges \/ LaunchEdgeMonitor
    <3>1. PICK ok \in [Edges -> BOOLEAN] : StartEdges(ok)
      BY <2>2 DEF LaunchStartEdges, LaunchEdgeMonitor, startAllEdges
    <3>2. main' = "launch"
      BY <2>2 DEF LaunchStartEdges, LaunchEdgeMonitor, Launch
    <3> QED BY <3>1, <3>2, LifeStart DEF EdgesStayStopped
  <2>3. CASE RestFirst \/ RestAgain
    <3>1. UNCHANGED edgeVars /\ main' \in {"launch", "restAgain", "terminated"}
      BY <2>3 DEF RestFirst, RestAgain, ApiStart
    <3> QED BY <3>1 DEF LifeInv, EdgesStayStopped
  <2>4. CASE \/ \E n \in AllNodes : LaunchFails(n)
             \/ LaunchHeartbeat \/ LaunchFastMQTT \/ Launch2536Comm \/ LaunchEdge
             \/ CreateEnds \/ LaunchRestAPI \/ LaunchEnds
    <3>1. /\ UNCHANGED edgeVars
          /\ main' \in {"launch", "create", "startEdges", "restPort", "wait"}
      BY <2>4 DEF LaunchFails, LaunchHeartbeat, LaunchFastMQTT, Launch2536Comm, LaunchEdge,
                  CreateEnds, LaunchRestAPI, LaunchEnds, Launch
    <3> QED BY <3>1 DEF LifeInv, EdgesStayStopped
  <2> QED BY <1>1, <2>1, <2>2, <2>3, <2>4 DEF LaunchRoBot
<1>2. CASE Stop
  <2>1. CASE StopEdge
    <3>1. PICK e \in Edges : ShutBegin(e) \/ Shutdown(e)
      BY <2>1 DEF StopEdge
    <3>2. main' = "stopEdges"
      BY <2>1 DEF StopEdge
    <3> QED BY <3>1, <3>2, LifeShutdown DEF EdgesStayStopped
  <2>2. CASE StopEdgesEnd
    BY <2>2 DEF StopEdgesEnd, LifeInv, EdgesStayStopped
  <2>3. CASE StopBegin \/ StopComm \/ StopMqtt \/ StopEdgesLock
    <3>1. /\ UNCHANGED edgeVars
          /\ main' \in {"stopComm", "stopMqtt", "lockEdges", "stopEdges"}
      BY <2>3 DEF StopBegin, StopComm, StopMqtt, StopEdgesLock
    <3> QED BY <3>1 DEF LifeInv, EdgesStayStopped
  <2>4. CASE StopBeat \/ JoinBeat \/ StopApi \/ JoinApi
    <3>1. /\ UNCHANGED edgeVars
          /\ main \in {"stopBeat", "joinBeat", "stopApi", "joinApi"}
      BY <2>4 DEF StopBeat, JoinBeat, StopApi, JoinApi
    <3> QED BY <3>1 DEF LifeInv, EdgesStayStopped
  <2> QED BY <1>2, <2>1, <2>2, <2>3, <2>4 DEF Stop
<1>3. ASSUME NEW r \in Requests, Handle(r) PROVE LifeInv' /\ EdgesStayStopped'
  BY <1>3, LifeHandle
<1>4. ASSUME NEW e \in Edges, SnapThread(e) \/ SelfThread(e)
      PROVE  LifeInv' /\ EdgesStayStopped'
  <2>1. /\ LifeInv' /\ main' = main
        /\ snap[e] # "off" \/ act[e] # "off"
    BY <1>4, LifeThreads DEF SnapThread, SelfThread
  <2> QED BY <2>1 DEF EdgesStayStopped
<1>5. CASE \/ WorkerLoop \/ ServerThread \/ Dispatcher \/ Connection
           \/ HandleExitSignal \/ PortChanges \/ UNCHANGED vars
           \/ \E r \in Requests, call \in {"read", "start", "append"} : Accept(r, call)
  <2>1. UNCHANGED edgeVars /\ main' = main
    BY <1>5 DEF WorkerLoop, BeatTest, BuildHeartbeat, GetHeartbeatInfo, ServerThread,
                Dispatcher, Connection, HandleExitSignal, PortChanges, Accept
  <2> QED BY <2>1 DEF LifeInv, EdgesStayStopped
<1> QED BY <1>1, <1>2, <1>3, <1>4, <1>5 DEF Next

(* Once stopAllEdges has returned no edge runs and none has a thread, for  *)
(* any number of edges and of REST requests that start them again.         *)
THEOREM StoppedForGood == Spec => []EdgesStayStopped
<1>1. Init => LifeInv /\ EdgesStayStopped
  BY LifeInit
<1>2. (LifeInv /\ EdgesStayStopped) /\ [Next]_vars => (LifeInv /\ EdgesStayStopped)'
  BY LifeNext
<1> QED BY <1>1, <1>2, PTL DEF Spec

(* The self-action thread never uses a queue that Shutdown has destroyed:  *)
(* Shutdown joins it first.                                                *)
THEOREM QueueOutlivesThread == Spec => []SelfQueueAlive
<1>1. Init => LifeInv /\ EdgesStayStopped
  BY LifeInit
<1>2. (LifeInv /\ EdgesStayStopped) /\ [Next]_vars => (LifeInv /\ EdgesStayStopped)'
  BY LifeNext
<1>3. LifeInv => SelfQueueAlive
  BY DEF LifeInv, SelfQueueAlive
<1> QED BY <1>1, <1>2, <1>3, PTL DEF Spec

(* Where main is once FastMQTT::Destroy has returned. *)
AfterMqtt == {"lockEdges", "stopEdges", "stopBeat", "joinBeat", "stopApi", "joinApi",
              "exited"}

(* Between JsonComm::Stop and the end of FastMQTT there is no entry left   *)
(* to copy from, and callbacks copied before have not been started yet as  *)
(* long as the dispatcher holds them.                                      *)
CommInv ==
    /\ late \in {0, 1}
    /\ main \notin AfterMqtt \cup {"stopMqtt"} => late = 0
    /\ main = "stopMqtt" => ~comm /\ (disp = "copied" => late = 0)
    /\ main \in AfterMqtt => disp = "off"

(* CommInv is inductive. *)
LEMMA CommNext == CommInv /\ [Next]_vars => CommInv'
<1> SUFFICES ASSUME CommInv, [Next]_vars PROVE CommInv'
  OBVIOUS
<1> USE DEF CommInv, AfterMqtt
<1>1. CASE LaunchRoBot
  <2>1. late' = late /\ late = 0
    BY <1>1 DEF LaunchRoBot, LaunchFails, LaunchHeartbeat, LaunchFastMQTT, Launch2536Comm,
            LaunchEdge, CreateEdge, CreateEnds, LaunchStartEdges, LaunchEdgeMonitor,
            LaunchRestAPI, RestFirst, RestAgain, LaunchEnds, Launch
  <2>2. main' \notin AfterMqtt \cup {"stopMqtt"}
    BY <1>1 DEF LaunchRoBot, LaunchFails, LaunchHeartbeat, LaunchFastMQTT, Launch2536Comm,
            LaunchEdge, CreateEdge, CreateEnds, LaunchStartEdges, LaunchEdgeMonitor,
            LaunchRestAPI, RestFirst, RestAgain, ApiStart, LaunchEnds, Launch
  <2> QED BY <2>1, <2>2
<1>2. CASE Stop
  <2>1. CASE StopBegin  BY <2>1 DEF StopBegin
  <2>2. CASE StopComm  BY <2>2 DEF StopComm
  <2>3. CASE StopMqtt  BY <2>3 DEF StopMqtt
  <2>4. CASE ~(StopBegin \/ StopComm \/ StopMqtt)
    <3>1. UNCHANGED msgs /\ main \in AfterMqtt /\ main' \in AfterMqtt
      BY <1>2, <2>4 DEF Stop, StopEdgesLock, StopEdge, StopEdgesEnd, StopBeat, JoinBeat,
              StopApi, JoinApi
    <3> QED BY <3>1
  <2> QED BY <2>1, <2>2, <2>3, <2>4
<1>3. CASE Dispatcher
  <2>1. main' = main /\ comm' = comm
    BY <1>3 DEF Dispatcher
  <2>2. CASE DispatchMatch   BY <2>1, <2>2 DEF DispatchMatch
  <2>3. CASE OnRawMessage    BY <2>1, <2>3 DEF OnRawMessage
  <2>4. CASE CallbackStarts  BY <2>1, <2>4 DEF CallbackStarts
  <2>5. CASE CallbackEnds    BY <2>1, <2>5 DEF CallbackEnds
  <2> QED BY <1>3, <2>2, <2>3, <2>4, <2>5 DEF Dispatcher
<1>4. CASE Connection  BY <1>4 DEF Connection
<1>5. CASE \/ WorkerLoop \/ ServerThread \/ HandleExitSignal \/ PortChanges
           \/ UNCHANGED vars
           \/ \E r \in Requests, call \in {"read", "start", "append"} : Accept(r, call)
           \/ \E r \in Requests : Handle(r)
           \/ \E e \in Edges : SnapThread(e) \/ SelfThread(e)
  <2>1. UNCHANGED msgs /\ main' = main
    BY <1>5 DEF WorkerLoop, ServerThread, HandleExitSignal, PortChanges, Accept, Handle,
                SnapThread, SelfThread
  <2> QED BY <2>1
<1> QED BY <1>1, <1>2, <1>3, <1>4, <1>5 DEF Next

(* Whatever the dispatcher is doing and whatever is queued when JsonComm   *)
(* stops, at most one call of OnRawMessage starts business callbacks after *)
(* JsonComm::Stop has returned, and none runs once FastMQTT is destroyed.  *)
THEOREM CallbacksEndInOrder == Spec => []CallbacksEnd
<1>1. Init => CommInv
  BY DEF Init, CommInv, AfterMqtt
<1>2. CommInv => CallbacksEnd
  BY DEF CommInv, CallbacksEnd, AfterMqtt
<1> QED BY <1>1, <1>2, CommNext, PTL DEF Spec
-----------------------------------------------------------------------------
(* Shutdown of an edge runs inside stopAllEdges, which holds mutex_. *)
MutexInv ==
    /\ mutex <=> main = "stopEdges"
    /\ mutex \in BOOLEAN
    /\ \A e \in Edges : stage[e] # "off" => mutex

(* The step that a Shutdown waiting for a thread that waits for its lock   *)
(* leaves to everybody: none that frees it.                                *)
StuckStep ==
    \A e \in Edges : Stuck(e) => Stuck(e)' /\ main' = "stopEdges" /\ mutex'

(* Steps that leave the edges, main and mutex_ alone. *)
LEMMA StuckFrame ==
  ASSUME MutexInv, UNCHANGED edgeVars, UNCHANGED <<main, mutex>>
  PROVE  MutexInv' /\ StuckStep
<1>1. ASSUME NEW e \in Edges, Stuck(e) PROVE Stuck(e)' /\ main' = "stopEdges" /\ mutex'
  BY <1>1 DEF Stuck, MutexInv
<1> QED BY <1>1 DEF MutexInv, StuckStep

(* Start, which other threads call, cannot free it either. *)
LEMMA StuckStart ==
  ASSUME LifeInv, MutexInv, ~mutex
  PROVE  \A e \in Edges : stage[e] = "off" /\ ~Stuck(e)
BY DEF MutexInv, Stuck

(* The threads of an edge. *)
LEMMA StuckThreads ==
  ASSUME LifeInv, MutexInv, NEW e \in Edges, SnapThread(e) \/ SelfThread(e)
  PROVE  MutexInv' /\ StuckStep
<1>1. stage' = stage /\ main' = main /\ mutex' = mutex
  BY LifeThreads DEF SnapThread, SelfThread
<1>2. MutexInv'
  BY <1>1 DEF MutexInv
<1>3. ASSUME NEW f \in Edges, Stuck(f) PROVE Stuck(f)'
  <2>1. CASE stage[f] = "joinSnap" /\ snap[f] = "lock"
    <3>1. snap'[f] = "lock"
      BY <2>1 DEF SnapThread, SelfThread, StatusSnapshotLoop, SelfActionLoop, SnapTest,
          SnapRound, ActTest, ActLookup, ActPop, ActPopFail, ActExecute, LockFree, LifeInv
    <3> QED BY <1>1, <2>1, <3>1 DEF Stuck
  <2>2. CASE stage[f] = "joinSelf" /\ act[f] \in {"lookup", "exec"}
    <3>1. act'[f] = act[f]
      BY <2>2 DEF SnapThread, SelfThread, StatusSnapshotLoop, SelfActionLoop, SnapTest,
          SnapRound, ActTest, ActLookup, ActPop, ActPopFail, ActExecute, LockFree, LifeInv
    <3> QED BY <1>1, <2>2, <3>1 DEF Stuck
  <2> QED BY <1>3, <2>1, <2>2 DEF Stuck
<1>4. ASSUME NEW f \in Edges, Stuck(f) PROVE main = "stopEdges" /\ mutex
  BY <1>4 DEF Stuck, MutexInv
<1> QED BY <1>1, <1>2, <1>3, <1>4 DEF StuckStep

(* stopAllEdges: Shutdown of another edge is not even begun. *)
LEMMA StuckShutdown ==
  ASSUME LifeInv, MutexInv, StopEdge
  PROVE  MutexInv' /\ StuckStep
<1>1. main = "stopEdges" /\ main' = main /\ mutex' = mutex /\ mutex
  BY DEF StopEdge, MutexInv
<1>2. PICK e \in Edges : \/ (\A f \in Edges : LockFree(f)) /\ ShutBegin(e)
                         \/ Shutdown(e)
  BY DEF StopEdge
<1>3. MutexInv'
  BY <1>1 DEF MutexInv
<1>4. ASSUME NEW f \in Edges, Stuck(f) PROVE Stuck(f)'
  <2>1. ~LockFree(f)
    BY <1>4 DEF Stuck, LockFree
  <2>2. Shutdown(e)
    BY <1>2, <2>1
  <2> QED BY <1>4, <2>2 DEF Shutdown, ShutJoinSnap, ShutJoinSelf, ShutEnd, Stuck, LifeInv
<1> QED BY <1>1, <1>3, <1>4 DEF StuckStep

(* MutexInv is inductive, and with it every step is a StuckStep. *)
LEMMA StuckNext == LifeInv /\ MutexInv /\ [Next]_vars => MutexInv' /\ StuckStep
<1> SUFFICES ASSUME LifeInv, MutexInv, [Next]_vars PROVE MutexInv' /\ StuckStep
  OBVIOUS
<1>a. ASSUME ~mutex, mutex' = mutex, main' # "stopEdges", stage' = stage
      PROVE  MutexInv' /\ StuckStep
  BY <1>a, StuckStart DEF MutexInv, StuckStep
<1>1. CASE LaunchRoBot
  <2>1. main # "stopEdges" /\ main' # "stopEdges" /\ mutex' = mutex /\ stage' = stage
    BY <1>1 DEF LaunchRoBot, LaunchFails, LaunchHeartbeat, LaunchFastMQTT, Launch2536Comm, LaunchEdge,
        CreateEdge, Create, CreateEnds, LaunchStartEdges, LaunchEdgeMonitor, startAllEdges,
        StartEdges, LaunchRestAPI, RestFirst, RestAgain, ApiStart, LaunchEnds, Launch
  <2> QED BY <1>a, <2>1 DEF MutexInv
<1>2. CASE Stop
  <2>1. CASE StopEdge
    BY <2>1, StuckShutdown
  <2>2. CASE StopEdgesLock
    <3>1. ~mutex /\ main' = "stopEdges" /\ mutex' = TRUE /\ UNCHANGED edgeVars
      BY <2>2 DEF StopEdgesLock
    <3> QED BY <3>1, StuckStart DEF MutexInv, StuckStep
  <2>3. CASE StopEdgesEnd
    <3>1. \A e \in Edges : stage[e] = "off"
      BY <2>3 DEF StopEdgesEnd, LifeInv
    <3>2. main' = "stopBeat" /\ mutex' = FALSE /\ UNCHANGED edgeVars
      BY <2>3 DEF StopEdgesEnd
    <3> QED BY <3>1, <3>2 DEF MutexInv, StuckStep, Stuck
  <2>4. CASE ~(StopEdge \/ StopEdgesLock \/ StopEdgesEnd)
    <3>1. main # "stopEdges" /\ main' # "stopEdges" /\ mutex' = mutex /\ stage' = stage
      BY <1>2, <2>4 DEF Stop, StopBegin, StopComm, StopMqtt, StopBeat, JoinBeat, StopApi,
          JoinApi
    <3> QED BY <1>a, <3>1 DEF MutexInv
  <2> QED BY <2>1, <2>2, <2>3, <2>4
<1>3. ASSUME NEW r \in Requests, Handle(r) PROVE MutexInv' /\ StuckStep
  <2>1. ~mutex /\ main' = main /\ mutex' = mutex /\ stage' = stage
    BY <1>3 DEF Handle, GetHeartbeatInfo, startAllEdges, StartEdges,
        appendTaskToEdgeByIdV2, AppendTask
  <2> QED BY <1>a, <2>1 DEF MutexInv
<1>4. ASSUME NEW e \in Edges, SnapThread(e) \/ SelfThread(e) PROVE MutexInv' /\ StuckStep
  BY <1>4, StuckThreads
<1>5. CASE \/ WorkerLoop \/ ServerThread \/ Dispatcher \/ Connection
           \/ HandleExitSignal \/ PortChanges \/ UNCHANGED vars
           \/ \E r \in Requests, call \in {"read", "start", "append"} : Accept(r, call)
  <2>1. UNCHANGED edgeVars /\ UNCHANGED <<main, mutex>>
    BY <1>5 DEF WorkerLoop, BeatTest, BuildHeartbeat, GetHeartbeatInfo, ServerThread,
                Dispatcher, Connection, HandleExitSignal, PortChanges, Accept
  <2> QED BY <2>1, StuckFrame
<1> QED BY <1>1, <1>2, <1>3, <1>4, <1>5 DEF Next

(* The exception of ExitCompletes is not a delay: when Shutdown of an edge *)
(* waits for a thread that waits for the edge's rw_mutex_, no step of any  *)
(* thread, request or signal ends the wait, and stopAllEdges keeps the     *)
(* manager's mutex_, so that main never gets past it.                      *)
THEOREM StuckForGood == Spec => [][StuckStep]_vars
<1>1. Init => LifeInv /\ EdgesStayStopped
  BY LifeInit
<1>2. Init => MutexInv
  BY DEF Init, EdgeInit, MutexInv
<1>3. (LifeInv /\ EdgesStayStopped) /\ [Next]_vars => (LifeInv /\ EdgesStayStopped)'
  BY LifeNext
<1>4. LifeInv /\ MutexInv /\ [Next]_vars => MutexInv' /\ [StuckStep]_vars
  BY StuckNext
<1> QED BY <1>1, <1>2, <1>3, <1>4, PTL DEF Spec
-----------------------------------------------------------------------------
(* The types of the process, next to those of the edges in LifeInv. *)
ProcessType ==
    /\ main \in {"launch", "create", "startEdges", "restPort", "restAgain", "wait",
                 "stopComm", "stopMqtt", "lockEdges", "stopEdges", "stopBeat",
                 "joinBeat", "stopApi", "joinApi", "exited", "terminated"}
    /\ todo \subseteq AllNodes
    /\ toCreate \subseteq Edges
    /\ exitReq \in BOOLEAN /\ mutex \in BOOLEAN /\ hbRun \in BOOLEAN
    /\ apiRun \in BOOLEAN /\ comm \in BOOLEAN
    /\ hb \in {"off", "test", "build", "exit"}
    /\ srv \in {"off", "starting", "serving", "ended"}
    /\ req \in [Requests -> {"none", "read", "start", "append"}]
    /\ port \in {"free", "busy"}
    /\ mqtt \in {"off", "started", "ready"}
    /\ disp \in {"off", "idle", "raw", "copied", "callback"}
    /\ late \in Nat

(* The self queue never holds more tasks than its limit. *)
SelfQueueInv ==
    /\ selfq \in [Edges -> 0..MaxTaskQueueSize]
    /\ appended \in [Edges -> 0..MaxAppends]

(* The tasks of an edge. *)
LEMMA SelfQueueNext == SelfQueueInv /\ [Next]_vars => SelfQueueInv'
<1> SUFFICES ASSUME SelfQueueInv, [Next]_vars PROVE SelfQueueInv'
  OBVIOUS
<1> USE UUVEdgeAssumption
<1>s. CASE UNCHANGED <<selfq, appended>>
  BY <1>s DEF SelfQueueInv
<1>a. ASSUME NEW e \in Edges, AppendTask(e) PROVE SelfQueueInv'
  BY <1>a DEF AppendTask, SelfQueueInv
<1>p. ASSUME NEW e \in Edges, ActPop(e) PROVE SelfQueueInv'
  BY <1>p DEF ActPop, SelfQueueInv
<1>e. ASSUME NEW e \in Edges, ShutEnd(e) PROVE SelfQueueInv'
  BY <1>e DEF ShutEnd, SelfQueueInv
<1>1. CASE LaunchRoBot
  BY <1>1, <1>s DEF LaunchRoBot, LaunchFails, LaunchHeartbeat, LaunchFastMQTT, Launch2536Comm, LaunchEdge,
      CreateEdge, Create, CreateEnds, LaunchStartEdges, LaunchEdgeMonitor, startAllEdges,
      StartEdges, LaunchRestAPI, RestFirst, RestAgain, LaunchEnds
<1>2. CASE Stop
  <2>1. CASE StopEdge
    <3>1. PICK e \in Edges : ShutBegin(e) \/ Shutdown(e)
      BY <2>1 DEF StopEdge
    <3> QED BY <3>1, <1>e, <1>s DEF ShutBegin, Shutdown, ShutJoinSnap, ShutJoinSelf
  <2>2. CASE ~StopEdge
    BY <1>2, <2>2, <1>s DEF Stop, StopBegin, StopComm, StopMqtt, StopEdgesLock, StopEdgesEnd,
        StopBeat, JoinBeat, StopApi, JoinApi
  <2> QED BY <2>1, <2>2
<1>3. ASSUME NEW r \in Requests, Handle(r) PROVE SelfQueueInv'
  <2>1. CASE appendTaskToEdgeByIdV2
    BY <2>1, <1>a DEF appendTaskToEdgeByIdV2
  <2>2. CASE ~appendTaskToEdgeByIdV2
    BY <1>3, <2>2, <1>s DEF Handle, GetHeartbeatInfo, startAllEdges, StartEdges
  <2> QED BY <2>1, <2>2
<1>4. ASSUME NEW e \in Edges, SnapThread(e) \/ SelfThread(e) PROVE SelfQueueInv'
  BY <1>4, <1>p, <1>s DEF SnapThread, SelfThread, StatusSnapshotLoop, SelfActionLoop,
      SnapTest, SnapRound, ActTest, ActLookup, ActPopFail, ActExecute
<1>5. CASE \/ WorkerLoop \/ ServerThread \/ Dispatcher \/ Connection
           \/ HandleExitSignal \/ PortChanges \/ UNCHANGED vars
           \/ \E r \in Requests, call \in {"read", "start", "append"} : Accept(r, call)
  BY <1>5, <1>s DEF WorkerLoop, BeatTest, BuildHeartbeat, GetHeartbeatInfo, ServerThread,
      Dispatcher, Connection, HandleExitSignal, PortChanges, Accept
<1> QED BY <1>1, <1>2, <1>3, <1>4, <1>5 DEF Next

(* The process. *)
LEMMA ProcessNext == ProcessType /\ [Next]_vars => ProcessType'
<1> SUFFICES ASSUME ProcessType, [Next]_vars PROVE ProcessType'
  OBVIOUS
<1>1. CASE LaunchRoBot
  <2>1. CASE LaunchHeartbeat  BY <2>1 DEF LaunchHeartbeat, Launch, ProcessType
  <2>2. CASE LaunchFastMQTT   BY <2>2 DEF LaunchFastMQTT, Launch, ProcessType
  <2>3. CASE Launch2536Comm
    <3>1. comm' \in BOOLEAN
      BY <2>3 DEF Launch2536Comm
    <3> QED BY <2>3, <3>1 DEF Launch2536Comm, Launch, ProcessType
  <2>4. CASE LaunchEdge \/ LaunchRestAPI \/ LaunchEnds \/ \E n \in AllNodes : LaunchFails(n)
    BY <2>4 DEF LaunchEdge, LaunchRestAPI, LaunchEnds, LaunchFails, Launch, ProcessType
  <2>5. CASE CreateEnds \/ \E e \in Edges : CreateEdge(e)
    BY <2>5 DEF CreateEnds, CreateEdge, ProcessType
  <2>6. CASE LaunchStartEdges \/ LaunchEdgeMonitor
    BY <2>6 DEF LaunchStartEdges, LaunchEdgeMonitor, Launch, ProcessType
  <2>7. CASE RestFirst \/ RestAgain
    <3>1. apiRun' \in BOOLEAN
      BY <2>7 DEF RestFirst, RestAgain, ApiStart
    <3> QED BY <2>7, <3>1 DEF RestFirst, RestAgain, ApiStart, ProcessType
  <2> QED BY <1>1, <2>1, <2>2, <2>3, <2>4, <2>5, <2>6, <2>7 DEF LaunchRoBot
<1>2. CASE Stop
  <2>1. CASE StopComm
    <3>1. comm' \in BOOLEAN
      BY <2>1 DEF StopComm
    <3> QED BY <2>1, <3>1 DEF StopComm, ProcessType
  <2>2. CASE StopEdgesLock \/ StopEdgesEnd
    <3>1. mutex' \in BOOLEAN
      BY <2>2 DEF StopEdgesLock, StopEdgesEnd
    <3> QED BY <2>2, <3>1 DEF StopEdgesLock, StopEdgesEnd, ProcessType
  <2>3. CASE StopBeat
    <3>1. hbRun' \in BOOLEAN
      BY <2>3 DEF StopBeat
    <3> QED BY <2>3, <3>1 DEF StopBeat, ProcessType
  <2>4. CASE StopApi
    <3>1. apiRun' \in BOOLEAN
      BY <2>4 DEF StopApi
    <3> QED BY <2>4, <3>1 DEF StopApi, ProcessType
  <2>5. CASE StopBegin \/ StopMqtt \/ StopEdge \/ JoinBeat \/ JoinApi
    BY <2>5 DEF StopBegin, StopMqtt, StopEdge, JoinBeat, JoinApi, ProcessType
  <2> QED BY <1>2, <2>1, <2>2, <2>3, <2>4, <2>5 DEF Stop
<1>3. CASE WorkerLoop
  BY <1>3 DEF WorkerLoop, BeatTest, BuildHeartbeat, ProcessType
<1>4. CASE ServerThread
  <2>1. apiRun' \in BOOLEAN
    BY <1>4 DEF ServerThread, ServerStarts, ServerFails, ServerEnds, ProcessType
  <2> QED BY <1>4, <2>1 DEF ServerThread, ServerStarts, ServerFails, ServerEnds, ProcessType
<1>5. ASSUME NEW r \in Requests, NEW call \in {"read", "start", "append"}, Accept(r, call)
      PROVE  ProcessType'
  BY <1>5 DEF Accept, ProcessType
<1>6. ASSUME NEW r \in Requests, Handle(r) PROVE ProcessType'
  BY <1>6 DEF Handle, ProcessType
<1>7. CASE Dispatcher \/ Connection
  BY <1>7 DEF Dispatcher, DispatchMatch, OnRawMessage, CallbackStarts, CallbackEnds,
      Connection, ProcessType
<1>8. ASSUME NEW e \in Edges, SnapThread(e) \/ SelfThread(e) PROVE ProcessType'
  BY <1>8 DEF SnapThread, SelfThread, ProcessType
<1>9. CASE HandleExitSignal \/ PortChanges \/ UNCHANGED vars
  <2>1. exitReq' \in BOOLEAN
    BY <1>9 DEF HandleExitSignal, PortChanges, ProcessType
  <2> QED BY <1>9, <2>1 DEF HandleExitSignal, PortChanges, ProcessType
<1> QED BY <1>1, <1>2, <1>3, <1>4, <1>5, <1>6, <1>7, <1>8, <1>9 DEF Next

(* The types of all variables; in particular no self queue ever grows      *)
(* beyond its limit.                                                       *)
THEOREM TypeCorrect == Spec => []TypeOK
<1>1. Init => ProcessType /\ SelfQueueInv
  <2> SUFFICES ASSUME Init PROVE ProcessType /\ SelfQueueInv
    OBVIOUS
  <2>1. /\ exitReq \in BOOLEAN /\ mutex \in BOOLEAN /\ hbRun \in BOOLEAN
        /\ apiRun \in BOOLEAN /\ comm \in BOOLEAN
    BY DEF Init
  <2>2. ProcessType
    BY <2>1, PipelineAssumption DEF Init, ProcessType
  <2>3. SelfQueueInv
    BY UUVEdgeAssumption DEF Init, EdgeInit, SelfQueueInv
  <2> QED BY <2>2, <2>3
<1>2. Init => LifeInv /\ EdgesStayStopped
  BY LifeInit
<1>3. (LifeInv /\ EdgesStayStopped) /\ [Next]_vars => (LifeInv /\ EdgesStayStopped)'
  BY LifeNext
<1>4. LifeInv /\ ProcessType /\ SelfQueueInv => TypeOK
  BY DEF LifeInv, ProcessType, SelfQueueInv, TypeOK
<1> QED BY <1>1, <1>2, <1>3, <1>4, ProcessNext, SelfQueueNext, PTL DEF Spec
=============================================================================
