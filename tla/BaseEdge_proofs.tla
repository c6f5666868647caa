--------------------------- MODULE BaseEdge_proofs ---------------------------
(***************************************************************************)
(* Proofs about BaseEdge for every set of devices and every number of      *)
(* tasks and restarts.                                                     *)
(***************************************************************************)
EXTENDS BaseEdge, SequenceTheorems, TLAPS

USE DEF edge, queues, threads, work, hist, vars

(* An idle device has a well-formed status. *)
LEMMA IdleType ==
  Idle \in [state : {"Idle", "Busy", "Faulted"}, task : Nat \union {None}]
  BY DEF Idle

(* TypeOK alone is not inductive: WfFinish appends cur[d] to done[d], which *)
(* is a task only because a Workflow in DoTask holds one.                  *)
TypeInv == TypeOK /\ HoldsTask

(* A freshly constructed edge is well formed. *)
LEMMA TypeInit == Init0 => TypeInv
<1> SUFFICES ASSUME Init0 PROVE TypeInv
  OBVIOUS
<1>1. status \in [Devices -> [state : {"Idle", "Busy", "Faulted"},
                             task : Nat \union {None}]]
  BY IdleType DEF Init0
<1>2. /\ queue \in [Devices -> Seq(Nat)]
      /\ accepted \in [Devices -> Seq(Nat)]
      /\ done \in [Devices -> Seq(Nat)]
  BY DEF Init0
<1>3. TypeOK
  BY <1>1, <1>2 DEF Init0, TypeOK, RunStates, WfStates, Ops
<1>4. HoldsTask
  BY DEF Init0, HoldsTask
<1> QED BY <1>3, <1>4 DEF TypeInv

(* Emptying the containers leaves well-formed ones. *)
LEMMA ClearMapsType ==
  ASSUME ClearMaps
  PROVE  /\ queue' \in [Devices -> Seq(Nat)]
         /\ cur' \in [Devices -> Nat \union {None}]
         /\ status' \in [Devices -> [state : {"Idle", "Busy", "Faulted"},
                                    task : Nat \union {None}]]
         /\ accepted' \in [Devices -> Seq(Nat)]
         /\ done' \in [Devices -> Seq(Nat)]
         /\ late' \in [Devices -> Nat]
         /\ nextTask' = nextTask
         /\ \A d \in Devices : cur'[d] = None
<1>1. status' \in [Devices -> [state : {"Idle", "Busy", "Faulted"},
                              task : Nat \union {None}]]
  BY IdleType DEF ClearMaps
<1> QED BY <1>1 DEF ClearMaps

(* Every step of a call or of a thread keeps the edge well formed. *)
LEMMA TypeNext == TypeInv /\ [Next]_vars => TypeInv'
<1> SUFFICES ASSUME TypeOK, HoldsTask, [Next]_vars PROVE TypeOK' /\ HoldsTask'
  BY DEF TypeInv
<1> USE BaseEdgeAssumption DEF RunStates, WfStates, Ops
<1>1. ASSUME NEW d \in Devices, Workflow(d) PROVE TypeOK' /\ HoldsTask'
  <2>1. CASE WfCheckStop(d)   BY <2>1 DEF WfCheckStop, TypeOK, HoldsTask
  <2>2. CASE WfCheckEStop(d)  BY <2>2 DEF WfCheckEStop, TypeOK, HoldsTask
  <2>3. CASE WfPop(d)
    <3>1. Head(queue[d]) \in Nat /\ Tail(queue[d]) \in Seq(Nat)
      BY <2>3 DEF WfPop, TypeOK
    <3>2. TypeOK'             BY <2>3, <3>1 DEF WfPop, TypeOK
    <3>3. HoldsTask'          BY <2>3, <3>1 DEF WfPop, TypeOK, HoldsTask
    <3> QED BY <3>2, <3>3
  <2>4. CASE WfPopFail(d)     BY <2>4 DEF WfPopFail, TypeOK, HoldsTask
  <2>5. CASE WfAfterFail(d)   BY <2>5 DEF WfAfterFail, TypeOK, HoldsTask
  <2>6. CASE WfStart(d)       BY <2>6 DEF WfStart, TypeOK, HoldsTask
  <2>7. CASE WfFinish(d)
    <3>1. PICK s \in {"Idle", "Faulted"} :
            status' = [status EXCEPT ![d] = [state |-> s, task |-> None]]
      BY <2>7 DEF WfFinish
    <3>2. status' \in [Devices -> [state : {"Idle", "Busy", "Faulted"},
                                  task : Nat \union {None}]]
      BY <3>1 DEF TypeOK
    <3>3. done' \in [Devices -> Seq(Nat)]
      BY <2>7 DEF WfFinish, TypeOK, HoldsTask
    <3>4. TypeOK'             BY <2>7, <3>2, <3>3 DEF WfFinish, TypeOK
    <3>5. HoldsTask'          BY <2>7 DEF WfFinish, TypeOK, HoldsTask
    <3> QED BY <3>4, <3>5
  <2> QED BY <1>1, <2>1, <2>2, <2>3, <2>4, <2>5, <2>6, <2>7 DEF Workflow
<1>2. CASE SnapCheck
  BY <1>2 DEF SnapCheck, TypeOK, HoldsTask
<1>3. CASE SnapReport
  BY <1>3 DEF SnapReport, TypeOK, HoldsTask
<1>4. CASE SelfActionExit
  BY <1>4 DEF SelfActionExit, TypeOK, HoldsTask
<1>5. ASSUME NEW d \in Devices, Submit(d) PROVE TypeOK' /\ HoldsTask'
  BY <1>5 DEF Submit, Enqueue, TypeOK, HoldsTask
<1>6. ASSUME NEW d \in Devices, AppendTask(d) PROVE TypeOK' /\ HoldsTask'
  BY <1>6 DEF AppendTask, Enqueue, TypeOK, HoldsTask
<1>7. ASSUME NEW b \in BOOLEAN, SetEStop(b) PROVE TypeOK' /\ HoldsTask'
  BY <1>7 DEF SetEStop, TypeOK, HoldsTask
<1>8. CASE InitBegin
  BY <1>8 DEF InitBegin, TypeOK, HoldsTask
<1>9. ASSUME NEW d \in Devices, ReapStop(d) PROVE TypeOK' /\ HoldsTask'
  BY <1>9 DEF ReapStop, TypeOK, HoldsTask
<1>10. ASSUME NEW d \in Devices, ReapJoin(d) PROVE TypeOK' /\ HoldsTask'
  BY <1>10 DEF ReapJoin, TypeOK, HoldsTask
<1>11. CASE InitEnd
  BY <1>11, ClearMapsType DEF InitEnd, TypeOK, HoldsTask
<1>12. CASE StartBegin
  BY <1>12 DEF StartBegin, TypeOK, HoldsTask
<1>13. ASSUME NEW d \in Devices, StartDevice(d) PROVE TypeOK' /\ HoldsTask'
  BY <1>13 DEF StartDevice, TypeOK, HoldsTask
<1>14. ASSUME NEW d \in Devices, StartFail(d) PROVE TypeOK' /\ HoldsTask'
  BY <1>14 DEF StartFail, TypeOK, HoldsTask
<1>15. CASE StartEnd
  BY <1>15 DEF StartEnd, TypeOK, HoldsTask
<1>16. CASE ShutBegin
  BY <1>16 DEF ShutBegin, TypeOK, HoldsTask
<1>17. CASE ShutJoinSnap
  BY <1>17 DEF ShutJoinSnap, TypeOK, HoldsTask
<1>18. CASE ShutJoinSelf
  BY <1>18 DEF ShutJoinSelf, TypeOK, HoldsTask
<1>19. CASE ShutStopDevices
  BY <1>19 DEF ShutStopDevices, Alive, TypeOK, HoldsTask
<1>20. CASE ShutQueues
  BY <1>20 DEF ShutQueues, TypeOK, HoldsTask
<1>21. CASE ShutEnd
  BY <1>21, ClearMapsType DEF ShutEnd, Alive, TypeOK, HoldsTask
<1>22. CASE UNCHANGED vars
  BY <1>22 DEF TypeOK, HoldsTask
<1> QED
  BY <1>1, <1>2, <1>3, <1>4, <1>5, <1>6, <1>7, <1>8, <1>9, <1>10, <1>11,
     <1>12, <1>13, <1>14, <1>15, <1>16, <1>17, <1>18, <1>19, <1>20, <1>21,
     <1>22
     DEF Next, Calls, Exclusive

(* Every variable of the edge keeps its type, whatever threads and calls   *)
(* interleave (BaseEdge.cpp, Workflow.cpp, UUVDevice.cpp).                 *)
THEOREM TypeCorrect == Spec => []TypeOK
<1>1. TypeInv => TypeOK
  BY DEF TypeInv
<1> QED BY TypeInit, TypeNext, <1>1, PTL DEF Spec
-----------------------------------------------------------------------------
(* OneTaskAfterEStop needs to know that a Workflow which has taken its late *)
(* task is not waiting in PopBlocking again before EStop is released.      *)
EStopInv ==
  \A d \in Devices : late[d] <= 1 /\ (estop /\ late[d] = 1 => wpc[d] # "pop")

(* Every step keeps the number of tasks taken after EStop at one or less. *)
LEMMA EStopNext == TypeOK /\ EStopInv /\ [Next]_vars => EStopInv'
<1> SUFFICES ASSUME TypeOK, EStopInv, [Next]_vars PROVE EStopInv'
  OBVIOUS
<1>1. ASSUME NEW d \in Devices, Workflow(d) PROVE EStopInv'
  <2>1. CASE WfCheckStop(d)   BY <2>1 DEF WfCheckStop, TypeOK, EStopInv
  <2>2. CASE WfCheckEStop(d)  BY <2>2 DEF WfCheckEStop, TypeOK, EStopInv
  <2>3. CASE WfPop(d)         BY <2>3 DEF WfPop, TypeOK, EStopInv
  <2>4. CASE WfPopFail(d)     BY <2>4 DEF WfPopFail, TypeOK, EStopInv
  <2>5. CASE WfAfterFail(d)   BY <2>5 DEF WfAfterFail, TypeOK, EStopInv
  <2>6. CASE WfStart(d)       BY <2>6 DEF WfStart, TypeOK, EStopInv
  <2>7. CASE WfFinish(d)      BY <2>7 DEF WfFinish, TypeOK, EStopInv
  <2> QED BY <1>1, <2>1, <2>2, <2>3, <2>4, <2>5, <2>6, <2>7 DEF Workflow
<1>2. ASSUME NEW b \in BOOLEAN, SetEStop(b) PROVE EStopInv'
  BY <1>2 DEF SetEStop, TypeOK, EStopInv
<1>3. ASSUME NEW d \in Devices, ReapJoin(d) PROVE EStopInv'
  BY <1>3 DEF ReapJoin, TypeOK, EStopInv
<1>4. ASSUME NEW d \in Devices, StartDevice(d) PROVE EStopInv'
  BY <1>4 DEF StartDevice, TypeOK, EStopInv
<1>5. CASE InitEnd \/ ShutEnd
  BY <1>5 DEF InitEnd, ShutEnd, ClearMaps, EStopInv
<1>6. CASE UNCHANGED <<late, estop, wpc>>
  BY <1>6 DEF EStopInv
<1> QED
  BY <1>1, <1>2, <1>3, <1>4, <1>5, <1>6
     DEF Next, Calls, Exclusive, SnapCheck, SnapReport, SelfActionExit, Submit,
         AppendTask, InitBegin, ReapStop, StartBegin, StartFail, StartEnd,
         ShutBegin, ShutJoinSnap, ShutJoinSelf, ShutStopDevices, ShutQueues

(* Between SetEStop(true) and its release a device takes at most one more  *)
(* task, for any number of devices, tasks, restarts and interleavings      *)
(* (Workflow::RunLoop against BaseEdge::SetEStop).                         *)
THEOREM EStopBounded == Spec => []OneTaskAfterEStop
<1>1. Init0 => EStopInv
  BY DEF Init0, EStopInv
<1>2. EStopInv => OneTaskAfterEStop
  BY DEF EStopInv, OneTaskAfterEStop
<1> QED BY TypeCorrect, EStopNext, <1>1, <1>2, PTL DEF Spec
-----------------------------------------------------------------------------
Shutting == {"joinSnap", "joinSelf", "stopDevices", "shutQueues", "joinDevices"}

(* run_state_ and the call that holds rw_mutex_ agree, and a Workflow is   *)
(* only replaced by the Init or the Start in progress.                     *)
OpInv ==
  /\ op = "init" => runState = "Initializing"
  /\ op = "start" => runState = "Ready"
  /\ (op \in Shutting) <=> (runState = "Stopping")
  /\ op # "start" => todo = {}
  /\ reap # None => op = "init" \/ (op = "start" /\ reap \in todo \ broken)

(* The queues of a Ready or Running edge are open; a Workflow ends only on *)
(* request; the devices that Start has dealt with are being served.        *)
ServiceInv ==
  /\ runState \in {"Ready", "Running"} => wired /\ \A d \in Devices : ~qshut[d]
  /\ \A d \in Devices : wpc[d] = "exit" => stop[d] \/ qshut[d]
  /\ \A d \in Devices \ Absent :
        (op = "start" /\ d \notin todo) \/ runState = "Running"
            => Alive(d) /\ ~stop[d]

(* What Shutdown has joined stays joined until it ends. *)
QuietInv ==
  /\ op \in Shutting \ {"joinSnap"} => spc = "off"
  /\ op \in Shutting \ {"joinSnap", "joinSelf"} => apc = "off"
  /\ StoppedIsQuiet

LifeInv == OpInv /\ ServiceInv /\ QuietInv

(* Every step of a call or of a thread keeps the life cycle consistent. *)
LEMMA LifeNext == TypeOK /\ LifeInv /\ [Next]_vars => LifeInv'
<1> SUFFICES ASSUME TypeOK, LifeInv, [Next]_vars PROVE LifeInv'
  OBVIOUS
<1> USE BaseEdgeAssumption DEF LifeInv, OpInv, ServiceInv, QuietInv, StoppedIsQuiet,
        Shutting, Alive, LockFree, TypeOK, RunStates, WfStates, Ops
<1>1. ASSUME NEW d \in Devices, Workflow(d) PROVE LifeInv'
  <2>1. CASE WfCheckStop(d)   BY <2>1 DEF WfCheckStop
  <2>2. CASE WfCheckEStop(d)  BY <2>2 DEF WfCheckEStop
  <2>3. CASE WfPop(d)         BY <2>3 DEF WfPop
  <2>4. CASE WfPopFail(d)     BY <2>4 DEF WfPopFail
  <2>5. CASE WfAfterFail(d)   BY <2>5 DEF WfAfterFail
  <2>6. CASE WfStart(d)       BY <2>6 DEF WfStart
  <2>7. CASE WfFinish(d)      BY <2>7 DEF WfFinish
  <2> QED BY <1>1, <2>1, <2>2, <2>3, <2>4, <2>5, <2>6, <2>7 DEF Workflow
<1>2. CASE SnapCheck
  BY <1>2 DEF SnapCheck
<1>3. CASE SnapReport
  BY <1>3 DEF SnapReport
<1>4. CASE SelfActionExit
  BY <1>4 DEF SelfActionExit
<1>5. ASSUME NEW d \in Devices, Submit(d) PROVE LifeInv'
  BY <1>5 DEF Submit, Enqueue
<1>6. ASSUME NEW d \in Devices, AppendTask(d) PROVE LifeInv'
  BY <1>6 DEF AppendTask, Enqueue
<1>7. ASSUME NEW b \in BOOLEAN, SetEStop(b) PROVE LifeInv'
  BY <1>7 DEF SetEStop
<1>8. CASE InitBegin
  BY <1>8 DEF InitBegin
<1>9. ASSUME NEW d \in Devices, ReapStop(d) PROVE LifeInv'
  BY <1>9 DEF ReapStop
<1>10. ASSUME NEW d \in Devices, ReapJoin(d) PROVE LifeInv'
  BY <1>10 DEF ReapJoin
<1>11. CASE InitEnd
  BY <1>11 DEF InitEnd
<1>12. CASE StartBegin
  BY <1>12 DEF StartBegin
<1>13. ASSUME NEW d \in Devices, StartDevice(d) PROVE LifeInv'
  BY <1>13 DEF StartDevice
<1>14. ASSUME NEW d \in Devices, StartFail(d) PROVE LifeInv'
  BY <1>14 DEF StartFail
<1>15. CASE StartEnd
  BY <1>15 DEF StartEnd
<1>16. CASE ShutBegin
  BY <1>16 DEF ShutBegin
<1>17. CASE ShutJoinSnap
  BY <1>17 DEF ShutJoinSnap
<1>18. CASE ShutJoinSelf
  BY <1>18 DEF ShutJoinSelf
<1>19. CASE ShutStopDevices
  BY <1>19 DEF ShutStopDevices
<1>20. CASE ShutQueues
  BY <1>20 DEF ShutQueues
<1>21. CASE ShutEnd
  BY <1>21 DEF ShutEnd
<1>22. CASE UNCHANGED vars
  BY <1>22
<1> QED
  BY <1>1, <1>2, <1>3, <1>4, <1>5, <1>6, <1>7, <1>8, <1>9, <1>10, <1>11,
     <1>12, <1>13, <1>14, <1>15, <1>16, <1>17, <1>18, <1>19, <1>20, <1>21,
     <1>22
     DEF Next, Calls, Exclusive

(* A fresh edge has nothing open and nothing running. *)
LEMMA LifeInit == Init0 => LifeInv
  BY DEF Init0, LifeInv, OpInv, ServiceInv, QuietInv, StoppedIsQuiet, Shutting, Alive

(* LifeInv holds throughout. *)
LEMMA LifeCorrect == Spec => []LifeInv
  BY TypeCorrect, LifeInit, LifeNext, PTL DEF Spec

(* While the edge accepts commands every device with an object has a       *)
(* Workflow that was not asked to stop and an open queue, after any number *)
(* of failed starts, restarts and shutdowns (BaseEdge::Start / Shutdown,   *)
(* UUVDevice::Start).                                                      *)
THEOREM ConsumerExists == Spec => []AcceptedHasConsumer
<1>1. LifeInv => AcceptedHasConsumer
  BY DEF LifeInv, ServiceInv, AcceptedHasConsumer
<1> QED BY LifeCorrect, <1>1, PTL

(* A Stopped edge has no thread left that Shutdown answers for: the maps   *)
(* are cleared only after the joins (BaseEdge::Shutdown).                  *)
THEOREM StoppedQuiet == Spec => []StoppedIsQuiet
<1>1. LifeInv => StoppedIsQuiet
  BY DEF LifeInv, QuietInv
<1> QED BY LifeCorrect, <1>1, PTL
-----------------------------------------------------------------------------
(* A queue's head moves from the queue to the Workflow without a gap. *)
LEMMA TakeHead ==
  ASSUME NEW s \in Seq(Nat), NEW q \in Seq(Nat), q # <<>>
  PROVE  s \o <<>> \o q = s \o <<Head(q)>> \o Tail(q)
<1>1. q = <<Head(q)>> \o Tail(q)
  OBVIOUS
<1>2. Head(q) \in Nat /\ Tail(q) \in Seq(Nat) /\ <<Head(q)>> \in Seq(Nat)
  OBVIOUS
<1>3. s \o <<>> = s
  OBVIOUS
<1>4. s \o (<<Head(q)>> \o Tail(q)) = (s \o <<Head(q)>>) \o Tail(q)
  BY <1>2, ConcatAssociative
<1> QED BY <1>1, <1>3, <1>4

(* A finished task moves from the Workflow to the end of the history. *)
LEMMA FinishTask ==
  ASSUME NEW s \in Seq(Nat), NEW t \in Nat, NEW q \in Seq(Nat)
  PROVE  s \o <<t>> \o q = Append(s, t) \o <<>> \o q
<1>1. Append(s, t) = s \o <<t>>
  OBVIOUS
<1>2. Append(s, t) \o <<>> = Append(s, t)
  OBVIOUS
<1> QED BY <1>1, <1>2

(* A new task goes to the end of the queue and of the history alike. *)
LEMMA NewTask ==
  ASSUME NEW s \in Seq(Nat), NEW q \in Seq(Nat), NEW t \in Nat
  PROVE  Append(s \o q, t) = s \o Append(q, t)
  OBVIOUS

(* Every step keeps what a device was given in order. *)
LEMMA OrderNext == TypeInv /\ OrderPreserved /\ [Next]_vars => OrderPreserved'
<1> SUFFICES ASSUME TypeOK, HoldsTask, OrderPreserved, [Next]_vars
             PROVE  OrderPreserved'
  BY DEF TypeInv
<1> USE BaseEdgeAssumption
<1>1. ASSUME NEW d \in Devices, WfPop(d) PROVE OrderPreserved'
  <2> queue[d] \in Seq(Nat) /\ queue[d] # <<>> /\ done[d] \in Seq(Nat)
    BY <1>1 DEF WfPop, TypeOK
  <2>0. Head(queue[d]) \in Nat
    OBVIOUS
  <2>1. cur[d] = None
    BY <1>1 DEF WfPop, HoldsTask
  <2>2. accepted[d] = done[d] \o <<>> \o queue[d]
    BY <2>1 DEF OrderPreserved, InHand
  <2>3. accepted[d] = done[d] \o <<Head(queue[d])>> \o Tail(queue[d])
    BY <2>2, TakeHead
  <2>4. /\ accepted' = accepted /\ done' = done
        /\ cur'[d] = Head(queue[d]) /\ cur'[d] # None
        /\ queue'[d] = Tail(queue[d])
        /\ \A e \in Devices \ {d} : cur'[e] = cur[e] /\ queue'[e] = queue[e]
    BY <1>1, <2>0 DEF WfPop, TypeOK
  <2> QED BY <2>3, <2>4 DEF OrderPreserved, InHand
<1>2. ASSUME NEW d \in Devices, WfFinish(d) PROVE OrderPreserved'
  <2>1. cur[d] \in Nat /\ cur[d] # None /\ done[d] \in Seq(Nat) /\ queue[d] \in Seq(Nat)
    BY <1>2 DEF WfFinish, TypeOK, HoldsTask
  <2>2. accepted[d] = done[d] \o <<cur[d]>> \o queue[d]
    BY <2>1 DEF OrderPreserved, InHand
  <2>3. accepted[d] = Append(done[d], cur[d]) \o <<>> \o queue[d]
    BY <2>1, <2>2, FinishTask
  <2>4. /\ accepted' = accepted /\ queue' = queue
        /\ cur'[d] = None
        /\ done'[d] = Append(done[d], cur[d])
        /\ \A e \in Devices \ {d} : cur'[e] = cur[e] /\ done'[e] = done[e]
    BY <1>2 DEF WfFinish, TypeOK
  <2> QED BY <2>3, <2>4 DEF OrderPreserved, InHand
<1>3. ASSUME NEW d \in Devices, Submit(d) \/ AppendTask(d) PROVE OrderPreserved'
  <2>1. /\ cur' = cur /\ done' = done
        /\ queue'[d] = Append(queue[d], nextTask)
        /\ accepted'[d] = Append(accepted[d], nextTask)
        /\ \A e \in Devices \ {d} : queue'[e] = queue[e] /\ accepted'[e] = accepted[e]
    BY <1>3 DEF Submit, AppendTask, Enqueue, TypeOK
  <2>2. done[d] \o InHand(d) \in Seq(Nat) /\ queue[d] \in Seq(Nat) /\ nextTask \in Nat
    BY DEF TypeOK, InHand
  <2>3. accepted'[d] = Append(done[d] \o InHand(d) \o queue[d], nextTask)
    BY <2>1 DEF OrderPreserved
  <2>4. @ = done[d] \o InHand(d) \o Append(queue[d], nextTask)
    BY <2>2, NewTask
  <2> QED BY <2>1, <2>3, <2>4 DEF OrderPreserved, InHand
<1>4. CASE InitEnd \/ ShutEnd
  <2>1. \A d \in Devices : /\ accepted'[d] = <<>> /\ done'[d] = <<>>
                           /\ queue'[d] = <<>> /\ cur'[d] = None
    BY <1>4 DEF InitEnd, ShutEnd, ClearMaps
  <2>2. <<>> = <<>> \o <<>> \o <<>>
    <3>1. <<>> \in Seq(Nat)   OBVIOUS
    <3> QED BY <3>1, ConcatEmptySeq
  <2> QED BY <2>1, <2>2 DEF OrderPreserved, InHand
<1>5. CASE UNCHANGED <<accepted, done, cur, queue>>
  BY <1>5 DEF OrderPreserved, InHand
<1> QED
  BY <1>1, <1>2, <1>3, <1>4, <1>5
     DEF Next, Calls, Exclusive, Workflow, WfCheckStop, WfCheckEStop, WfPopFail,
         WfAfterFail, WfStart, SnapCheck, SnapReport, SelfActionExit, SetEStop,
         InitBegin, ReapStop, ReapJoin, StartBegin, StartDevice, StartFail, StartEnd,
         ShutBegin, ShutJoinSnap, ShutJoinSelf, ShutStopDevices, ShutQueues

(* Between Submit / AppendTask and the end of DoTask no task of a device   *)
(* is lost, repeated or reordered, for any number of devices and tasks     *)
(* (TaskQueue::Push, TaskQueue::PopBlocking, Workflow::RunLoop).           *)
THEOREM OrderKept == Spec => []OrderPreserved
<1>1. Init0 => OrderPreserved
  BY DEF Init0, OrderPreserved, InHand
<1> QED BY TypeInit, TypeNext, OrderNext, <1>1, PTL DEF Spec
-----------------------------------------------------------------------------
(* Every step keeps the reported status and the running task together. *)
LEMMA StatusNext == TypeInv /\ StatusMatches /\ [Next]_vars => StatusMatches'
<1> SUFFICES ASSUME TypeOK, HoldsTask, StatusMatches, [Next]_vars
             PROVE  StatusMatches'
  BY DEF TypeInv
<1> USE BaseEdgeAssumption DEF StatusMatches, TypeOK, HoldsTask
<1>1. ASSUME NEW d \in Devices, Workflow(d) PROVE StatusMatches'
  <2>1. CASE WfCheckStop(d)   BY <2>1 DEF WfCheckStop
  <2>2. CASE WfCheckEStop(d)  BY <2>2 DEF WfCheckEStop
  <2>3. CASE WfPop(d)         BY <2>3 DEF WfPop
  <2>4. CASE WfPopFail(d)     BY <2>4 DEF WfPopFail
  <2>5. CASE WfAfterFail(d)   BY <2>5 DEF WfAfterFail
  <2>6. CASE WfStart(d)       BY <2>6 DEF WfStart
  <2>7. CASE WfFinish(d)      BY <2>7 DEF WfFinish
  <2> QED BY <1>1, <2>1, <2>2, <2>3, <2>4, <2>5, <2>6, <2>7 DEF Workflow
<1>2. ASSUME NEW d \in Devices, ReapJoin(d) PROVE StatusMatches'
  BY <1>2 DEF ReapJoin
<1>3. ASSUME NEW d \in Devices, StartDevice(d) PROVE StatusMatches'
  BY <1>3 DEF StartDevice
<1>4. CASE InitEnd
  BY <1>4 DEF InitEnd, ClearMaps, Idle
<1>5. CASE ShutEnd
  BY <1>5 DEF ShutEnd, ClearMaps, Idle
<1>6. CASE UNCHANGED <<status, wpc, cur>>
  BY <1>6
<1> QED
  BY <1>1, <1>2, <1>3, <1>4, <1>5, <1>6
     DEF Next, Calls, Exclusive, SnapCheck, SnapReport, SelfActionExit, Submit,
         AppendTask, SetEStop, InitBegin, ReapStop, StartBegin, StartFail, StartEnd,
         ShutBegin, ShutJoinSnap, ShutJoinSelf, ShutStopDevices, ShutQueues

(* A device reports Busy with a task id exactly while its Workflow runs    *)
(* that task, whatever Stop, Start or Init does to the Workflow meanwhile  *)
(* (UUVDevice::UpdateOnTaskStart / UpdateOnTaskFinish).                    *)
THEOREM StatusTruthful == Spec => []StatusMatches
<1>1. Init0 => StatusMatches
  BY DEF Init0, StatusMatches, Idle
<1> QED BY TypeInit, TypeNext, StatusNext, <1>1, PTL DEF Spec
-----------------------------------------------------------------------------
(* Shutdown waits for the snapshot thread, which waits for rw_mutex_. *)
ShutdownLocked == op = "joinSnap" /\ spc = "lock"

(* The exception of ShutdownEndsUnlessLocked is not a delay: once Shutdown *)
(* joins a snapshot thread that waits for the lock Shutdown holds, no step *)
(* of any Workflow, call or thread ends the wait.                          *)
THEOREM LockedForGood == Spec => [][ShutdownLocked => ShutdownLocked']_vars
<1>1. [Next]_vars => [ShutdownLocked => ShutdownLocked']_vars
  <2> SUFFICES ASSUME ShutdownLocked, Next PROVE ShutdownLocked'
    OBVIOUS
  <2>1. ~LockFree
    BY DEF ShutdownLocked, LockFree
  <2>2. CASE Calls
    BY <2>1, <2>2 DEF Calls, InitBegin, StartBegin, ShutBegin, Submit, AppendTask, SetEStop,
        ShutdownLocked
  <2>3. CASE Exclusive
    BY <2>3 DEF Exclusive, InitEnd, StartEnd, ReapStop, ReapJoin, StartDevice, StartFail,
        ShutJoinSnap, ShutJoinSelf, ShutStopDevices, ShutQueues, ShutEnd, ShutdownLocked
  <2>4. ASSUME NEW d \in Devices, Workflow(d) PROVE ShutdownLocked'
    BY <2>4 DEF Workflow, WfCheckStop, WfCheckEStop, WfPop, WfPopFail, WfAfterFail, WfStart,
        WfFinish, ShutdownLocked
  <2>5. CASE SnapCheck \/ SnapReport \/ SelfActionExit
    BY <2>1, <2>5 DEF SnapCheck, SnapReport, SelfActionExit, ShutdownLocked
  <2> QED BY <2>2, <2>3, <2>4, <2>5 DEF Next
<1> QED BY <1>1, PTL DEF Spec
=============================================================================
