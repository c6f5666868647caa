-------------------------- MODULE FastMQTT_proofs ---------------------------
(***************************************************************************)
(* Proofs about FastMQTT for any number of owners, topics and publishers,  *)
(* any capacity of the queues, both values of auto_reconnect and           *)
(* clean_session, and any number of failures and restarts.                 *)
(***************************************************************************)
EXTENDS FastMQTT, TLAPS

USE DEF control, pcs, flags, net, retry, cbs, msgs, vars

(* Where each part of the module is in the states of the lifecycle. *)
LifeInv ==
    /\ running = (life \in {"Starting", "Running"})
    /\ life = "Uninitialized" => queues = "null"
    /\ life = "Initialized" => queues \in {"open", "null"}
    /\ life \in {"Starting", "Running"} => queues = "open"
    /\ life = "Stopping" => queues \in {"open", "shut"}
    /\ life = "Stopped" => queues = "shut"
    /\ life \in {"Starting", "Running", "Stopping"} =>
           cpc # "off" /\ rpc # "off" /\ dpc # "off" /\ spc # "off"
    /\ life \in {"Uninitialized", "Initialized", "Stopped"} =>
           /\ cpc = "off" /\ rpc = "off" /\ dpc = "off" /\ spc = "off"
           /\ ~connected /\ ~session /\ ~ready /\ ~ipAlive

(* What session_ready_ says of the connection.  It can be TRUE after the   *)
(* link has gone, never FALSE while the link is up: the Receiver connects  *)
(* only with the flag cleared, and no CONNACK is read once the queues are  *)
(* shut down.                                                              *)
LinkInv ==
    /\ link = "up" => session /\ queues = "open"
    /\ link = "pending" => ~session /\ rpc \in {"test", "loop", "exit", "off"}
    /\ rpc \in {"head", "connect", "wait", "lost"} => ~session /\ link = "down"
    /\ rpc = "loop" /\ queues = "shut" => link = "down"
    /\ life \in {"Uninitialized", "Initialized"} => link = "down"

(* SubscribedWhenSettled, extended over the two stages of ResubscribeAll:  *)
(* after the copy a settled topic may still be only in the copy.           *)
SubsInv ==
    link = "up" =>
        \A r \in Owners : cb[r] /\ reg[r] = "idle" =>
            \/ rpc = "copy"
            \/ TopicOf[r] \in subs
            \/ rpc = "resubscribe" /\ TopicOf[r] \in copied

IndInv == LifeInv /\ LinkInv /\ SubsInv /\ BackoffFollowsFailures /\ MessagesAccounted
-----------------------------------------------------------------------------
(* The index stays in the table. *)
LEMMA BackoffTypes ==
  ASSUME TypeOK, NextBackoffSeconds
  PROVE  backoff' \in 0..(Len(BackoffTable) - 1) /\ fails' \in 0..Len(BackoffTable)
BY DEF NextBackoffSeconds, TypeOK, BackoffTable

(* The module before Initialize. *)
LEMMA TypeInit == Init => TypeOK
<1> SUFFICES ASSUME Init PROVE TypeOK
  OBVIOUS
<1>1. stats \in [Counters -> Nat]
  BY DEF Init
<1>2. /\ running \in BOOLEAN /\ connected \in BOOLEAN /\ session \in BOOLEAN
      /\ ready \in BOOLEAN /\ ipAlive \in BOOLEAN /\ brokerUp \in BOOLEAN
  BY DEF Init
<1>3. /\ cb \in [Owners -> BOOLEAN]
      /\ reg \in [Owners -> {"idle", "check", "subscribe"}]
      /\ pub \in [Publishers -> {"idle", "push"}]
  BY DEF Init
<1> QED BY <1>1, <1>2, <1>3, FastMQTTAssumption DEF Init, TypeOK, BackoffTable

(* Every step keeps the types. *)
LEMMA TypeNext == TypeOK /\ [Next]_vars => TypeOK'
<1> SUFFICES ASSUME TypeOK, [Next]_vars PROVE TypeOK'
  OBVIOUS
<1>1. CASE \/ \E enable \in BOOLEAN : Initialize(enable)
           \/ StartBegin \/ StartEnd \/ StopBegin \/ Stop \/ Destroy
  <2>1. ASSUME NEW enable \in BOOLEAN, Initialize(enable) PROVE TypeOK'
    <3>1. stats' \in [Counters -> Nat]
      BY <2>1 DEF Initialize, Count, TypeOK
    <3> QED BY <2>1, <3>1 DEF Initialize, TypeOK, BackoffTable
  <2>2. CASE StartBegin  BY <2>2 DEF StartBegin, TypeOK, BackoffTable
  <2>3. CASE StartEnd  BY <2>3 DEF StartEnd, TypeOK, BackoffTable
  <2>4. CASE StopBegin
    <3>1. running' \in BOOLEAN
      BY <2>4 DEF StopBegin
    <3> QED BY <2>4, <3>1 DEF StopBegin, TypeOK, BackoffTable
  <2>5. CASE StopWake  BY <2>5 DEF StopWake, TypeOK, BackoffTable
  <2>6. CASE StopJoin  BY <2>6 DEF StopJoin, Threads, TypeOK, BackoffTable
  <2>7. CASE Destroy
    <3>1. stats' \in [Counters -> Nat]
      <4>1. sq \in Nat /\ rq \in Nat /\ stats \in [Counters -> Nat]
        BY DEF TypeOK
      <4>2. [stats EXCEPT !["sendLost"] = @ + sq] \in [Counters -> Nat]
        BY <4>1 DEF Counters
      <4> QED BY <2>7, <4>1, <4>2 DEF Destroy, Counters
    <3> QED BY <2>7, <3>1 DEF Destroy, TypeOK, BackoffTable
  <2> QED BY <1>1, <2>1, <2>2, <2>3, <2>4, <2>5, <2>6, <2>7 DEF Stop
<1>2. CASE ConnectionManager
  <2>1. CASE ConnHead  BY <2>1 DEF ConnHead, TypeOK, BackoffTable
  <2>2. CASE CheckTcpAlive  BY <2>2 DEF CheckTcpAlive, TypeOK, BackoffTable
  <2> QED BY <1>2, <2>1, <2>2 DEF ConnectionManager
<1>3. CASE Receiver
  <2>1. CASE RecvHead  BY <2>1 DEF RecvHead, Goto, TypeOK, BackoffTable
  <2>2. CASE Connect
    BY <2>2, BackoffTypes DEF Connect, Goto, TypeOK, BackoffTable
  <2>3. CASE BackoffWait  BY <2>3 DEF BackoffWait, Goto, TypeOK, BackoffTable
  <2>4. CASE LoopTest  BY <2>4 DEF LoopTest, Goto, TypeOK, BackoffTable
  <2>5. CASE LoopIdle  BY <2>5 DEF LoopIdle, Goto, TypeOK, BackoffTable
  <2>6. CASE HandleConnect  BY <2>6 DEF HandleConnect, Goto, TypeOK, BackoffTable
  <2>7. CASE HandleRefusal
    <3>1. drops' \in 0..MaxDrops
      BY <2>7, FastMQTTAssumption DEF HandleRefusal, TypeOK, BackoffTable
    <3>2. connected' \in BOOLEAN /\ session' \in BOOLEAN /\ ready' \in BOOLEAN
      BY <2>7 DEF HandleRefusal
    <3> QED BY <2>7, <3>1, <3>2 DEF HandleRefusal, Goto, TypeOK, BackoffTable
  <2>8. CASE ResubscribeCopy
    <3>1. copied' \subseteq {TopicOf[r] : r \in Owners}
      BY <2>8 DEF ResubscribeCopy, Registered
    <3> QED BY <2>8, <3>1 DEF ResubscribeCopy, Goto, TypeOK, BackoffTable
  <2>9. CASE ResubscribeSend  BY <2>9 DEF ResubscribeSend, Goto, TypeOK, BackoffTable
  <2>10. CASE HandleMessage
    <3>1. stats' \in [Counters -> Nat]
      BY <2>10 DEF HandleMessage, Count, TypeOK
    <3> QED BY <2>10, <3>1 DEF HandleMessage, Goto, TypeOK, BackoffTable
  <2>11. CASE LoopError
    <3>1. connected' \in BOOLEAN /\ session' \in BOOLEAN /\ ready' \in BOOLEAN
      BY <2>11 DEF LoopError
    <3> QED BY <2>11, <3>1 DEF LoopError, Goto, TypeOK, BackoffTable
  <2>12. CASE Lost
    BY <2>12, BackoffTypes DEF Lost, Goto, TypeOK, BackoffTable
  <2> QED BY <1>3, <2>1, <2>2, <2>3, <2>4, <2>5, <2>6, <2>7, <2>8, <2>9, <2>10, <2>11, <2>12 DEF Receiver
<1>4. CASE Dispatcher
  <2>1. CASE DispHead  BY <2>1 DEF DispHead, TypeOK, BackoffTable
  <2>2. CASE DispPop  BY <2>2 DEF DispPop, TypeOK, BackoffTable
  <2>3. CASE DispatchToCallbacks  BY <2>3 DEF DispatchToCallbacks, Count, TypeOK, BackoffTable
  <2> QED BY <1>4, <2>1, <2>2, <2>3 DEF Dispatcher
<1>5. CASE Sender
  <2>1. CASE SendHead  BY <2>1 DEF SendHead, TypeOK, BackoffTable
  <2>2. CASE SendPop  BY <2>2 DEF SendPop, TypeOK, BackoffTable
  <2>3. CASE DoPublish  BY <2>3 DEF DoPublish, Count, TypeOK, BackoffTable
  <2> QED BY <1>5, <2>1, <2>2, <2>3 DEF Sender
<1>6. ASSUME NEW p \in Publishers, PublishCheck(p) PROVE TypeOK'
  BY <1>6 DEF PublishCheck, Count, TypeOK, BackoffTable
<1>7. ASSUME NEW p \in Publishers, PublishPush(p) PROVE TypeOK'
  BY <1>7 DEF PublishPush, Count, TypeOK, BackoffTable
<1>8. ASSUME NEW r \in Owners, RegisterInsert(r) PROVE TypeOK'
  BY <1>8 DEF RegisterInsert, TypeOK, BackoffTable
<1>9. ASSUME NEW r \in Owners, RegisterCheck(r) PROVE TypeOK'
  BY <1>9 DEF RegisterCheck, TypeOK, BackoffTable
<1>10. ASSUME NEW r \in Owners, RegisterSubscribe(r) PROVE TypeOK'
  BY <1>10 DEF RegisterSubscribe, TypeOK, BackoffTable
<1>11. ASSUME NEW r \in Owners, UnregisterCallback(r) PROVE TypeOK'
  BY <1>11 DEF UnregisterCallback, Unsubscribe, TypeOK, BackoffTable
<1>12. ASSUME NEW t \in {TopicOf[r] : r \in Owners}, ClearCallback(t) PROVE TypeOK'
  BY <1>12 DEF ClearCallback, Unsubscribe, Registered, TypeOK, BackoffTable
<1>13. CASE LinkLost
  <2>1. drops' \in 0..MaxDrops
    BY <1>13, FastMQTTAssumption DEF LinkLost, TypeOK, BackoffTable
  <2> QED BY <1>13, <2>1 DEF LinkLost, TypeOK, BackoffTable
<1>14. CASE BrokerStops
  <2>1. drops' \in 0..MaxDrops
    BY <1>14, FastMQTTAssumption DEF BrokerStops, TypeOK, BackoffTable
  <2>2. brokerUp' \in BOOLEAN
    BY <1>14 DEF BrokerStops
  <2> QED BY <1>14, <2>1, <2>2 DEF BrokerStops, TypeOK, BackoffTable
<1>15. CASE BrokerStarts  BY <1>15 DEF BrokerStarts, TypeOK, BackoffTable
<1>16. CASE UNCHANGED vars  BY <1>16 DEF TypeOK, BackoffTable
<1> QED BY <1>1, <1>2, <1>3, <1>4, <1>5, <1>6, <1>7, <1>8, <1>9, <1>10, <1>11, <1>12, <1>13, <1>14, <1>15, <1>16 DEF Next, Register

(* The callers and the network leave the threads and their flags alone. *)
LEMMA EnvironmentFrame ==
  ASSUME \/ \E p \in Publishers : PublishCheck(p) \/ PublishPush(p)
         \/ \E r \in Owners : RegisterInsert(r) \/ Register(r) \/ UnregisterCallback(r)
         \/ \E t \in {TopicOf[r] : r \in Owners} : ClearCallback(t)
         \/ LinkLost \/ BrokerStops \/ BrokerStarts \/ UNCHANGED vars
  PROVE  UNCHANGED <<control, pcs, flags, ipAlive>>
BY DEF PublishCheck, PublishPush, RegisterInsert, Register, RegisterCheck, RegisterSubscribe,
       UnregisterCallback, ClearCallback, LinkLost, BrokerStops, BrokerStarts

(* The lifecycle. *)
LEMMA LifeNext == TypeOK /\ LifeInv /\ [Next]_vars => LifeInv'
<1> SUFFICES ASSUME TypeOK, LifeInv, [Next]_vars PROVE LifeInv'
  OBVIOUS
<1>1. ASSUME NEW enable \in BOOLEAN, Initialize(enable) PROVE LifeInv'
  BY <1>1 DEF Initialize, TypeOK, LifeInv
<1>2. CASE StartBegin  BY <1>2 DEF StartBegin, TypeOK, LifeInv
<1>3. CASE StartEnd    BY <1>3 DEF StartEnd, TypeOK, LifeInv
<1>4. CASE StopBegin
  <2>1. ~running' /\ running' \in BOOLEAN
    BY <1>4 DEF StopBegin
  <2> QED BY <1>4, <2>1 DEF StopBegin, TypeOK, LifeInv
<1>5. CASE StopWake    BY <1>5 DEF StopWake, TypeOK, LifeInv
<1>6. CASE StopJoin    BY <1>6 DEF StopJoin, TypeOK, LifeInv
<1>7. CASE Destroy     BY <1>7 DEF Destroy, TypeOK, LifeInv
<1>8. CASE ConnectionManager
  BY <1>8 DEF ConnectionManager, ConnHead, CheckTcpAlive, TypeOK, LifeInv
<1>9. CASE Receiver
  <2>1. UNCHANGED <<control, cpc, dpc, spc, ipAlive>> /\ rpc # "off" /\ rpc' # "off"
    BY <1>9 DEF Receiver, RecvHead, Connect, BackoffWait, LoopTest, LoopIdle, HandleConnect,
        HandleRefusal, ResubscribeCopy, ResubscribeSend, HandleMessage, LoopError, Lost, Goto
  <2> QED BY <2>1 DEF TypeOK, LifeInv
<1>10. CASE Dispatcher
  BY <1>10 DEF Dispatcher, DispHead, DispPop, DispatchToCallbacks, TypeOK, LifeInv
<1>11. CASE Sender
  BY <1>11 DEF Sender, SendHead, SendPop, DoPublish, TypeOK, LifeInv
<1>12. CASE UNCHANGED <<control, pcs, flags, ipAlive>>
  BY <1>12 DEF LifeInv
<1> QED
  BY <1>1, <1>2, <1>3, <1>4, <1>5, <1>6, <1>7, <1>8, <1>9, <1>10, <1>11, <1>12,
     EnvironmentFrame DEF Next, Stop

(* The connection. *)
LEMMA LinkNext == TypeOK /\ LifeInv /\ LinkInv /\ [Next]_vars => LinkInv'
<1> SUFFICES ASSUME TypeOK, LifeInv, LinkInv, [Next]_vars PROVE LinkInv'
  OBVIOUS
<1>1. ASSUME NEW enable \in BOOLEAN, Initialize(enable) PROVE LinkInv'
  BY <1>1 DEF Initialize, TypeOK, LifeInv, LinkInv
<1>2. CASE StartBegin  BY <1>2 DEF StartBegin, TypeOK, LifeInv, LinkInv
<1>3. CASE StartEnd \/ StopBegin
  BY <1>3 DEF StartEnd, StopBegin, TypeOK, LifeInv, LinkInv
<1>4. CASE StopWake    BY <1>4 DEF StopWake, TypeOK, LifeInv, LinkInv
<1>5. CASE StopJoin    BY <1>5 DEF StopJoin, TypeOK, LifeInv, LinkInv
<1>6. CASE Destroy     BY <1>6 DEF Destroy, TypeOK, LifeInv, LinkInv
<1>7. CASE Receiver
  <2>1. CASE RecvHead         BY <2>1 DEF RecvHead, Goto, LinkInv
  <2>2. CASE Connect          BY <2>2 DEF Connect, Goto, LinkInv, LifeInv
  <2>3. CASE BackoffWait      BY <2>3 DEF BackoffWait, Goto, LinkInv
  <2>4. CASE LoopTest         BY <2>4 DEF LoopTest, Goto, LinkInv, LifeInv, TypeOK
  <2>5. CASE LoopIdle         BY <2>5 DEF LoopIdle, Goto, LinkInv
  <2>6. CASE HandleConnect
    <3>1. queues = "open" /\ life \in {"Starting", "Running", "Stopping"}
      BY <2>6 DEF HandleConnect, LinkInv, LifeInv, TypeOK
    <3> QED BY <2>6, <3>1 DEF HandleConnect, Goto, LinkInv
  <2>7. CASE HandleRefusal    BY <2>7 DEF HandleRefusal, Goto, LinkInv
  <2>8. CASE ResubscribeCopy  BY <2>8 DEF ResubscribeCopy, Goto, LinkInv
  <2>9. CASE ResubscribeSend  BY <2>9 DEF ResubscribeSend, Goto, LinkInv
  <2>10. CASE HandleMessage   BY <2>10 DEF HandleMessage, Goto, LinkInv
  <2>11. CASE LoopError       BY <2>11 DEF LoopError, Goto, LinkInv
  <2>12. CASE Lost            BY <2>12 DEF Lost, Goto, LinkInv
  <2> QED
    BY <1>7, <2>1, <2>2, <2>3, <2>4, <2>5, <2>6, <2>7, <2>8, <2>9, <2>10, <2>11, <2>12
    DEF Receiver
<1>8. CASE UNCHANGED <<life, queues, rpc, session>> /\ (link' = link \/ link' = "down")
  BY <1>8 DEF LinkInv
<1>9. CASE ConnectionManager \/ Dispatcher \/ Sender
  BY <1>8, <1>9 DEF ConnectionManager, ConnHead, CheckTcpAlive,
      Dispatcher, DispHead, DispPop, DispatchToCallbacks, Sender, SendHead, SendPop, DoPublish
<1>10. CASE \/ \E p \in Publishers : PublishCheck(p) \/ PublishPush(p)
            \/ \E r \in Owners : RegisterInsert(r) \/ Register(r) \/ UnregisterCallback(r)
            \/ \E t \in {TopicOf[r] : r \in Owners} : ClearCallback(t)
            \/ LinkLost \/ BrokerStops \/ BrokerStarts \/ UNCHANGED vars
  <2>1. link' = link \/ link' = "down"
    BY <1>10 DEF PublishCheck, PublishPush, RegisterInsert, Register, RegisterCheck,
        RegisterSubscribe, UnregisterCallback, ClearCallback, LinkLost, BrokerStops,
        BrokerStarts
  <2> QED BY <1>8, <1>10, <2>1, EnvironmentFrame
<1> QED
  BY <1>1, <1>2, <1>3, <1>4, <1>5, <1>6, <1>7, <1>9, <1>10 DEF Next, Stop

(* The subscriptions: what adds or takes away a topic, a callback or a     *)
(* registration under way, and the rest.                                   *)
LEMMA SubsNext == TypeOK /\ LinkInv /\ SubsInv /\ [Next]_vars => SubsInv'
<1> SUFFICES ASSUME TypeOK, LinkInv, SubsInv, [Next]_vars PROVE SubsInv'
  OBVIOUS
<1> DEFINE Still == UNCHANGED <<link, subs, cb, reg, copied, rpc>>
<1>s. CASE Still
  BY <1>s DEF SubsInv
<1>d. CASE link' # "up"
  BY <1>d DEF SubsInv
<1>1. CASE StartBegin
  BY <1>1, <1>d DEF StartBegin, LinkInv
<1>2. CASE StopWake \/ Destroy \/ LinkLost \/ BrokerStops
  BY <1>2, <1>d DEF StopWake, Destroy, LinkLost, BrokerStops
<1>3. CASE StopJoin
  BY <1>3, <1>d DEF StopJoin, LinkInv
<1>4. CASE Receiver
  <2>1. CASE \/ RecvHead \/ BackoffWait \/ Lost \/ LoopError \/ Connect \/ HandleRefusal
    BY <2>1, <1>d DEF RecvHead, BackoffWait, Lost, LoopError, Connect, HandleRefusal, LinkInv
  <2>2. CASE LoopTest \/ LoopIdle \/ HandleMessage
    <3>1. /\ UNCHANGED <<link, subs, cb, reg, copied>>
          /\ rpc \notin {"copy", "resubscribe"} /\ rpc' \notin {"copy", "resubscribe"}
      BY <2>2 DEF LoopTest, LoopIdle, HandleMessage, Goto
    <3> QED BY <3>1 DEF SubsInv
  <2>3. CASE HandleConnect
    BY <2>3 DEF HandleConnect, Goto, SubsInv
  <2>4. CASE ResubscribeCopy
    <3>1. \A r \in Owners : cb[r] => TopicOf[r] \in Registered
      BY DEF Registered
    <3> QED BY <2>4, <3>1 DEF ResubscribeCopy, Goto, SubsInv
  <2>5. CASE ResubscribeSend
    BY <2>5 DEF ResubscribeSend, Goto, SubsInv
  <2> QED BY <1>4, <2>1, <2>2, <2>3, <2>4, <2>5 DEF Receiver
<1>5. ASSUME NEW r \in Owners, RegisterInsert(r) PROVE SubsInv'
  BY <1>5 DEF RegisterInsert, SubsInv, TypeOK
<1>6. ASSUME NEW r \in Owners, RegisterCheck(r) PROVE SubsInv'
  BY <1>6 DEF RegisterCheck, SubsInv, LinkInv, TypeOK
<1>7. ASSUME NEW r \in Owners, RegisterSubscribe(r) PROVE SubsInv'
  BY <1>7 DEF RegisterSubscribe, SubsInv, TypeOK
<1>8. ASSUME NEW r \in Owners, UnregisterCallback(r) PROVE SubsInv'
  BY <1>8 DEF UnregisterCallback, Unsubscribe, SubsInv, TypeOK
<1>9. ASSUME NEW t, ClearCallback(t) PROVE SubsInv'
  BY <1>9 DEF ClearCallback, Unsubscribe, SubsInv, TypeOK
<1>10. CASE \/ \E enable \in BOOLEAN : Initialize(enable)
            \/ StartEnd \/ StopBegin \/ BrokerStarts \/ UNCHANGED vars
  BY <1>10, <1>s DEF Initialize, StartEnd, StopBegin, BrokerStarts
<1>11. CASE ConnectionManager \/ Dispatcher \/ Sender
  BY <1>11, <1>s DEF ConnectionManager, ConnHead, CheckTcpAlive,
      Dispatcher, DispHead, DispPop, DispatchToCallbacks, Sender, SendHead, SendPop, DoPublish
<1>12. ASSUME NEW p \in Publishers, PublishCheck(p) \/ PublishPush(p) PROVE Still
  BY <1>12 DEF PublishCheck, PublishPush
<1> QED
  BY <1>s, <1>1, <1>2, <1>3, <1>4, <1>5, <1>6, <1>7, <1>8, <1>9, <1>10, <1>11, <1>12
  DEF Next, Stop, Register

(* What a step may do with the backoff: nothing, the next wait, a reset. *)
LEMMA BackoffSteps ==
  [Next]_vars => UNCHANGED retry \/ NextBackoffSeconds \/ (backoff' = 0 /\ fails' = 0)
<1> SUFFICES ASSUME [Next]_vars
             PROVE  UNCHANGED retry \/ NextBackoffSeconds \/ (backoff' = 0 /\ fails' = 0)
  OBVIOUS
<1>1. CASE \/ \E enable \in BOOLEAN : Initialize(enable)
           \/ StartBegin \/ StartEnd \/ StopBegin \/ Stop \/ Destroy
  BY <1>1 DEF Initialize, StartBegin, StartEnd, StopBegin, Stop, StopWake, StopJoin, Destroy
<1>2. CASE Receiver
  BY <1>2 DEF Receiver, RecvHead, Connect, BackoffWait, LoopTest, LoopIdle, HandleConnect,
              HandleRefusal, ResubscribeCopy, ResubscribeSend, HandleMessage, LoopError, Lost
<1>3. CASE ConnectionManager \/ Dispatcher \/ Sender
  BY <1>3 DEF ConnectionManager, ConnHead, CheckTcpAlive,
              Dispatcher, DispHead, DispPop, DispatchToCallbacks,
              Sender, SendHead, SendPop, DoPublish
<1>4. ASSUME NEW p \in Publishers, PublishCheck(p) \/ PublishPush(p) PROVE UNCHANGED retry
  BY <1>4 DEF PublishCheck, PublishPush
<1>5. ASSUME NEW r \in Owners, RegisterInsert(r) \/ Register(r) \/ UnregisterCallback(r)
      PROVE  UNCHANGED retry
  BY <1>5 DEF RegisterInsert, Register, RegisterCheck, RegisterSubscribe, UnregisterCallback
<1>6. ASSUME NEW t, ClearCallback(t) PROVE UNCHANGED retry
  BY <1>6 DEF ClearCallback
<1>7. CASE LinkLost \/ BrokerStops \/ BrokerStarts \/ UNCHANGED vars
  BY <1>7 DEF LinkLost, BrokerStops, BrokerStarts
<1> QED BY <1>1, <1>2, <1>3, <1>4, <1>5, <1>6, <1>7 DEF Next

(* The index follows the failures. *)
LEMMA BackoffNext == TypeOK /\ BackoffFollowsFailures /\ [Next]_vars => BackoffFollowsFailures'
<1> SUFFICES ASSUME TypeOK, BackoffFollowsFailures, [Next]_vars PROVE BackoffFollowsFailures'
  OBVIOUS
<1>1. CASE UNCHANGED retry
  BY <1>1 DEF BackoffFollowsFailures
<1>2. CASE NextBackoffSeconds
  BY <1>2 DEF NextBackoffSeconds, BackoffFollowsFailures, BackoffTable, TypeOK
<1>3. CASE backoff' = 0 /\ fails' = 0
  BY <1>3 DEF BackoffFollowsFailures, BackoffTable
<1> QED BY <1>1, <1>2, <1>3, BackoffSteps

(* Messages: the actions that move or count one, and the rest. *)
LEMMA AccountNext == TypeOK /\ LifeInv /\ MessagesAccounted /\ [Next]_vars => MessagesAccounted'
<1> SUFFICES ASSUME TypeOK, LifeInv, MessagesAccounted, [Next]_vars PROVE MessagesAccounted'
  OBVIOUS
<1> DEFINE Still == UNCHANGED <<sq, rq, stats, spc, dpc>>
<1>s. CASE Still
  BY <1>s DEF MessagesAccounted
<1>a. ASSUME NEW S \in SUBSET Counters, Count(S), NEW f \in Counters
      PROVE  stats'[f] = IF f \in S THEN stats[f] + 1 ELSE stats[f]
  BY <1>a DEF Count
<1>b. /\ stats["accepted"] \in Nat /\ stats["sent"] \in Nat /\ stats["failed"] \in Nat
      /\ stats["recv"] \in Nat /\ stats["dispatched"] \in Nat /\ stats["dropped"] \in Nat
      /\ stats["sendLost"] \in Nat /\ stats["recvLost"] \in Nat
      /\ sq \in Nat /\ rq \in Nat
  BY DEF TypeOK, Counters
<1>l. ASSUME NEW S \in SUBSET (Counters \ {"sendLost", "recvLost"}), Count(S)
      PROVE  stats'["sendLost"] = stats["sendLost"] /\ stats'["recvLost"] = stats["recvLost"]
  BY <1>a, <1>l DEF Counters
<1>1. ASSUME NEW enable \in BOOLEAN, Initialize(enable) PROVE MessagesAccounted'
  <2>1. UNCHANGED <<sq, rq, spc, dpc>> /\ Count({"inits"})
    BY <1>1 DEF Initialize
  <2> QED BY <1>a, <2>1 DEF MessagesAccounted, Counters
<1>2. CASE StartBegin \/ StopJoin
  <2>1. /\ spc # "publish" /\ spc' # "publish" /\ dpc # "dispatch" /\ dpc' # "dispatch"
        /\ UNCHANGED <<sq, rq, stats>>
    BY <1>2 DEF StartBegin, StopJoin, Threads, LifeInv
  <2> QED BY <2>1 DEF MessagesAccounted
<1>3. CASE HandleMessage
  <2>1. UNCHANGED <<sq, spc, dpc>>
    BY <1>3 DEF HandleMessage, Goto
  <2>2. CASE Count({"recv", "dropped"}) /\ rq' = rq
    <3>1. /\ stats'["accepted"] = stats["accepted"] /\ stats'["sent"] = stats["sent"] /\ stats'["failed"] = stats["failed"]
          /\ stats'["recv"] = stats["recv"] + 1 /\ stats'["dispatched"] = stats["dispatched"] /\ stats'["dropped"] = stats["dropped"] + 1
          /\ stats'["sendLost"] = stats["sendLost"] /\ stats'["recvLost"] = stats["recvLost"]
      BY <1>a, <1>l, <2>2 DEF Counters
    <3> QED BY <1>b, <2>1, <2>2, <3>1 DEF MessagesAccounted
  <2>3. CASE Count({"recv"}) /\ rq' = rq + 1
    <3>1. /\ stats'["accepted"] = stats["accepted"] /\ stats'["sent"] = stats["sent"] /\ stats'["failed"] = stats["failed"]
          /\ stats'["recv"] = stats["recv"] + 1 /\ stats'["dispatched"] = stats["dispatched"] /\ stats'["dropped"] = stats["dropped"]
          /\ stats'["sendLost"] = stats["sendLost"] /\ stats'["recvLost"] = stats["recvLost"]
      BY <1>a, <1>l, <2>3 DEF Counters
    <3> QED BY <1>b, <2>1, <2>3, <3>1 DEF MessagesAccounted
  <2> QED BY <1>3, <2>2, <2>3 DEF HandleMessage
<1>4. CASE DispHead
  BY <1>4 DEF DispHead, MessagesAccounted
<1>5. CASE DispPop
  <2>1. /\ UNCHANGED <<sq, spc, stats>> /\ dpc = "pop"
        /\ \/ rq = 0 /\ rq' = 0 /\ dpc' = "head"
           \/ rq # 0 /\ rq' = rq - 1 /\ dpc' = "dispatch"
    BY <1>5 DEF DispPop
  <2> QED BY <1>b, <2>1 DEF MessagesAccounted
<1>6. CASE DispatchToCallbacks
  <2>1. UNCHANGED <<sq, rq, spc>> /\ dpc = "dispatch" /\ dpc' = "head" /\ Count({"dispatched"})
    BY <1>6 DEF DispatchToCallbacks
  <2>2. /\ stats'["accepted"] = stats["accepted"] /\ stats'["sent"] = stats["sent"] /\ stats'["failed"] = stats["failed"]
        /\ stats'["recv"] = stats["recv"] /\ stats'["dispatched"] = stats["dispatched"] + 1 /\ stats'["dropped"] = stats["dropped"]
        /\ stats'["sendLost"] = stats["sendLost"] /\ stats'["recvLost"] = stats["recvLost"]
    BY <1>a, <1>l, <2>1 DEF Counters
  <2> QED BY <1>b, <2>1, <2>2 DEF MessagesAccounted
<1>7. CASE SendHead
  BY <1>7 DEF SendHead, MessagesAccounted
<1>8. CASE SendPop
  <2>1. /\ UNCHANGED <<rq, dpc, stats>> /\ spc = "pop"
        /\ \/ sq = 0 /\ sq' = 0 /\ spc' = "head"
           \/ sq # 0 /\ sq' = sq - 1 /\ spc' = "publish"
    BY <1>8 DEF SendPop
  <2>2. CASE sq = 0 /\ sq' = 0 /\ spc' = "head"
    BY <2>1, <2>2 DEF MessagesAccounted
  <2>3. CASE sq # 0 /\ sq' = sq - 1 /\ spc' = "publish"
    BY <1>b, <2>1, <2>3 DEF MessagesAccounted
  <2> QED BY <2>1, <2>2, <2>3
<1>9. CASE DoPublish
  <2>1. UNCHANGED <<sq, rq, dpc>> /\ spc = "publish" /\ spc' = "head"
    BY <1>9 DEF DoPublish
  <2>2. CASE Count({"sent"})
    <3>1. /\ stats'["accepted"] = stats["accepted"] /\ stats'["sent"] = stats["sent"] + 1 /\ stats'["failed"] = stats["failed"]
          /\ stats'["recv"] = stats["recv"] /\ stats'["dispatched"] = stats["dispatched"] /\ stats'["dropped"] = stats["dropped"]
          /\ stats'["sendLost"] = stats["sendLost"] /\ stats'["recvLost"] = stats["recvLost"]
      BY <1>a, <1>l, <2>2 DEF Counters
    <3> QED BY <1>b, <2>1, <2>2, <3>1 DEF MessagesAccounted
  <2>3. CASE Count({"failed"})
    <3>1. /\ stats'["accepted"] = stats["accepted"] /\ stats'["sent"] = stats["sent"] /\ stats'["failed"] = stats["failed"] + 1
          /\ stats'["recv"] = stats["recv"] /\ stats'["dispatched"] = stats["dispatched"] /\ stats'["dropped"] = stats["dropped"]
          /\ stats'["sendLost"] = stats["sendLost"] /\ stats'["recvLost"] = stats["recvLost"]
      BY <1>a, <1>l, <2>3 DEF Counters
    <3> QED BY <1>b, <2>1, <2>3, <3>1 DEF MessagesAccounted
  <2> QED BY <1>9, <2>2, <2>3 DEF DoPublish
<1>10. ASSUME NEW p \in Publishers, PublishCheck(p) PROVE MessagesAccounted'
  <2>1. UNCHANGED <<sq, rq, spc, dpc>> /\ Count({"calls"})
    BY <1>10 DEF PublishCheck
  <2> QED BY <1>a, <2>1 DEF MessagesAccounted, Counters
<1>11. ASSUME NEW p \in Publishers, PublishPush(p) PROVE MessagesAccounted'
  <2>1. UNCHANGED <<rq, spc, dpc>>
    BY <1>11 DEF PublishPush
  <2>2. CASE sq' = sq + 1 /\ Count({"accepted"})
    <3>1. /\ stats'["accepted"] = stats["accepted"] + 1 /\ stats'["sent"] = stats["sent"] /\ stats'["failed"] = stats["failed"]
          /\ stats'["recv"] = stats["recv"] /\ stats'["dispatched"] = stats["dispatched"] /\ stats'["dropped"] = stats["dropped"]
          /\ stats'["sendLost"] = stats["sendLost"] /\ stats'["recvLost"] = stats["recvLost"]
      BY <1>a, <1>l, <2>2 DEF Counters
    <3> QED BY <1>b, <2>1, <2>2, <3>1 DEF MessagesAccounted
  <2>3. CASE UNCHANGED <<sq, stats>>
    BY <2>1, <2>3, <1>s
  <2> QED BY <1>11, <2>2, <2>3 DEF PublishPush
<1>12. CASE StartEnd \/ StopBegin \/ StopWake
  BY <1>12, <1>s DEF StartEnd, StopBegin, StopWake
<1>18. CASE Destroy
  <2>1. /\ sq' = 0 /\ rq' = 0 /\ UNCHANGED <<spc, dpc>>
        /\ stats' = [stats EXCEPT !["sendLost"] = @ + sq, !["recvLost"] = @ + rq]
    BY <1>18 DEF Destroy
  <2>2. /\ stats'["sendLost"] = stats["sendLost"] + sq
        /\ stats'["recvLost"] = stats["recvLost"] + rq
        /\ \A f \in Counters \ {"sendLost", "recvLost"} : stats'[f] = stats[f]
    BY <2>1 DEF TypeOK, Counters
  <2>3. /\ stats'["accepted"] = stats["accepted"] /\ stats'["sent"] = stats["sent"]
        /\ stats'["failed"] = stats["failed"] /\ stats'["recv"] = stats["recv"]
        /\ stats'["dispatched"] = stats["dispatched"] /\ stats'["dropped"] = stats["dropped"]
    BY <2>2 DEF Counters
  <2> QED BY <1>b, <2>1, <2>2, <2>3 DEF MessagesAccounted
<1>13. CASE ConnectionManager
  BY <1>13, <1>s DEF ConnectionManager, ConnHead, CheckTcpAlive
<1>14. CASE Receiver /\ ~HandleMessage
  BY <1>14, <1>s DEF Receiver, RecvHead, Connect, BackoffWait, LoopTest, LoopIdle,
      HandleConnect, HandleRefusal, ResubscribeCopy, ResubscribeSend, LoopError, Lost, Goto
<1>15. ASSUME NEW r \in Owners, RegisterInsert(r) \/ Register(r) \/ UnregisterCallback(r)
       PROVE  Still
  BY <1>15 DEF RegisterInsert, Register, RegisterCheck, RegisterSubscribe, UnregisterCallback
<1>16. ASSUME NEW t, ClearCallback(t) PROVE Still
  BY <1>16 DEF ClearCallback
<1>17. CASE LinkLost \/ BrokerStops \/ BrokerStarts \/ UNCHANGED vars
  BY <1>17, <1>s DEF LinkLost, BrokerStops, BrokerStarts
<1> QED
  BY <1>s, <1>1, <1>2, <1>3, <1>4, <1>5, <1>6, <1>7, <1>8, <1>9, <1>10, <1>11, <1>12, <1>13,
     <1>14, <1>15, <1>16, <1>17, <1>18 DEF Next, Stop, Dispatcher, Sender
-----------------------------------------------------------------------------
(* The inductive invariant holds before Initialize. *)
LEMMA IndInit == Init => IndInv
<1> SUFFICES ASSUME Init PROVE IndInv
  OBVIOUS
<1>1. LifeInv
  <2>1. running \in BOOLEAN /\ ~running
    BY DEF Init
  <2> QED BY <2>1 DEF Init, LifeInv
<1>2. LinkInv /\ SubsInv
  BY DEF Init, LinkInv, SubsInv
<1>3. BackoffFollowsFailures
  BY DEF Init, BackoffFollowsFailures, BackoffTable
<1>4. MessagesAccounted
  BY DEF Init, MessagesAccounted, Counters
<1> QED BY <1>1, <1>2, <1>3, <1>4 DEF IndInv

(* The types of all variables; in particular the index never leaves the    *)
(* table NextBackoffSeconds reads.                                         *)
THEOREM TypeCorrect == Spec => []TypeOK
BY TypeInit, TypeNext, PTL DEF Spec

(* The inductive invariant holds in every state. *)
LEMMA Inductive == Spec => []IndInv
<1>1. TypeOK /\ IndInv /\ [Next]_vars => IndInv'
  BY LifeNext, LinkNext, SubsNext, BackoffNext, AccountNext DEF IndInv
<1> QED BY <1>1, IndInit, TypeCorrect, PTL DEF Spec

(* While the session stands and ResubscribeAll is not under way, every     *)
(* topic whose RegisterCallback has returned is subscribed at the broker,  *)
(* for any owners that share topics in any way and for a clean or a        *)
(* persistent session.                                                     *)
THEOREM SettledTopicsSubscribed == Spec => []SubscribedWhenSettled
<1>1. IndInv => SubscribedWhenSettled
  BY DEF IndInv, SubsInv, SubscribedWhenSettled
<1> QED BY <1>1, Inductive, PTL

(* Outside Start..Stop no thread of the module is left and no flag claims  *)
(* a connection, although HandleConnect may set the flags while Stop is    *)
(* waiting for its joins.                                                  *)
THEOREM QuietWhenStopped == Spec => []StoppedIsQuiet
<1>1. IndInv => StoppedIsQuiet
  BY DEF IndInv, LifeInv, StoppedIsQuiet, Threads
<1> QED BY <1>1, Inductive, PTL

(* NextBackoffSeconds walks the table with the failures since the last     *)
(* accepted CONNACK or Start and stays at its last entry.                  *)
THEOREM BackoffCorrect == Spec => []BackoffFollowsFailures
<1>1. IndInv => BackoffFollowsFailures
  BY DEF IndInv
<1> QED BY <1>1, Inductive, PTL

(* No accepted and no received message is lost, other than those a Destroy *)
(* finds in the queues, or counted twice: the statistics, the queues and   *)
(* the hands of Sender and Dispatcher add up, for any capacity and any     *)
(* number of publishers and of restarts.                                   *)
THEOREM NoMessageUnaccounted == Spec => []MessagesAccounted
<1>1. IndInv => MessagesAccounted
  BY DEF IndInv
<1> QED BY <1>1, Inductive, PTL
=============================================================================
