------------------------------ MODULE FastMQTT ------------------------------
(***************************************************************************)
(* fast_mqtt::FastMQTT (src/src/util/my_fast_MQTT/FastMQTT.cpp): the one   *)
(* MQTT client of the process.  Four threads share it with the callers of  *)
(* Publish, RegisterCallback and UnregisterCallback: ConnectionManager     *)
(* (cpc), Receiver (rpc), Dispatcher (dpc) and Sender (spc).  The          *)
(* lifecycle calls come from one thread, the Pipeline.                     *)
(*                                                                         *)
(* The two BlockingQueues are used through what ClosableFifo promises.     *)
(* The broker, the network and libmosquitto are external: link is what     *)
(* really connects the client to the broker, the flags are what the module *)
(* believes.                                                               *)
(***************************************************************************)
EXTENDS Naturals, Sequences, FiniteSets

CONSTANTS
    Owners,         \* threads that register one callback each
    TopicOf,        \* TopicOf[r]: the topic r registers its callback for
    Publishers,     \* threads that call Publish
    SendCap,        \* send_queue_size, 0 = unbounded
    RecvCap,        \* recv_queue_size, 0 = unbounded
    AutoReconnect,  \* broker.auto_reconnect
    CleanSession,   \* broker.clean_session
    MaxPublish,     \* bound of the model: calls of Publish
    MaxReceive,     \* bound of the model: messages the broker delivers
    MaxDrops,       \* bound of the model: network failures
    MaxInits        \* bound of the model: calls of Initialize

ASSUME FastMQTTAssumption ==
    /\ DOMAIN TopicOf = Owners
    /\ SendCap \in Nat /\ RecvCap \in Nat
    /\ MaxPublish \in Nat /\ MaxReceive \in Nat /\ MaxDrops \in Nat /\ MaxInits \in Nat
    /\ AutoReconnect \in BOOLEAN /\ CleanSession \in BOOLEAN

VARIABLES
    life,       \* state_
    running,    \* running_
    queues,     \* both queues: "null", "open", or "shut" (Shutdown called)
    cpc, rpc, dpc, spc,     \* the threads; "off" when not created or joined
    connected, session, ready, ipAlive,     \* the atomic flags
    backoff,    \* backoff_index_
    fails,      \* history: NextBackoffSeconds calls since the last reset
    brokerUp,   \* the broker accepts connections
    link,       \* "down", "pending" (CONNACK not read yet) or "up"
    drops,      \* number of network failures so far
    subs,       \* the topics the broker has subscribed for this client
    copied,     \* the topics ResubscribeAll has copied
    cb,         \* cb[r]: r's entry is in callbacks_
    reg,        \* reg[r]: where r is in RegisterCallback
    pub,        \* pub[p]: where p is in Publish
    sq, rq,     \* the contents of the queues, as numbers of messages
    stats       \* history: counters of stats_, of the calls and of lost messages

control == <<life, running, queues>>
pcs     == <<cpc, rpc, dpc, spc>>
flags   == <<connected, session, ready>>
net     == <<brokerUp, link, drops, subs>>
retry   == <<backoff, fails>>
cbs     == <<cb, reg, copied>>
msgs    == <<pub, sq, rq, stats>>
vars    == <<control, pcs, flags, ipAlive, net, retry, cbs, msgs>>

BackoffTable == <<1, 2, 5, 10, 20, 30>>
Registered   == {TopicOf[r] : r \in {x \in Owners : cb[x]}}
Threads      == {cpc, rpc, dpc, spc}
Full(n, cap) == cap # 0 /\ n >= cap
Counters     == {"inits", "calls", "accepted", "sent", "failed", "sendLost", "recv",
                 "dropped", "dispatched", "recvLost"}
Count(S)     == stats' = [f \in Counters |-> IF f \in S THEN stats[f] + 1 ELSE stats[f]]

Init ==
    /\ life = "Uninitialized"
    /\ running = FALSE
    /\ queues = "null"
    /\ cpc = "off" /\ rpc = "off" /\ dpc = "off" /\ spc = "off"
    /\ connected = FALSE /\ session = FALSE /\ ready = FALSE
    /\ ipAlive = FALSE
    /\ backoff = 0
    /\ fails = 0
    /\ brokerUp \in BOOLEAN
    /\ link = "down"
    /\ drops = 0
    /\ subs = {}
    /\ copied = {}
    /\ cb = [r \in Owners |-> FALSE]
    /\ reg = [r \in Owners |-> "idle"]
    /\ pub = [p \in Publishers |-> "idle"]
    /\ sq = 0
    /\ rq = 0
    /\ stats = [f \in Counters |-> 0]
-----------------------------------------------------------------------------
(* The lifecycle, under lifecycle_mutex_. *)

(* New queues; a configuration with enable=false is accepted without them. *)
Initialize(enable) ==
    /\ life = "Uninitialized"
    /\ stats["inits"] < MaxInits
    /\ life' = "Initialized"
    /\ queues' = IF enable THEN "open" ELSE "null"
    /\ Count({"inits"})
    /\ UNCHANGED <<running, pcs, flags, ipAlive, net, retry, cbs, pub, sq, rq>>

(* Start, refused with enable=false.  Starting is visible to Publish while *)
(* the threads are being created.                                          *)
StartBegin ==
    /\ life = "Initialized"
    /\ queues = "open"
    /\ life' = "Starting"
    /\ running' = TRUE
    /\ backoff' = 0 /\ fails' = 0
    /\ cpc' = "head" /\ rpc' = "head" /\ dpc' = "head" /\ spc' = "head"
    /\ UNCHANGED <<queues, flags, ipAlive, net, cbs, msgs>>

StartEnd ==
    /\ life = "Starting"
    /\ life' = "Running"
    /\ UNCHANGED <<running, queues, pcs, flags, ipAlive, net, retry, cbs, msgs>>

StopBegin ==
    /\ life = "Running"
    /\ life' = "Stopping"
    /\ running' = FALSE
    /\ UNCHANGED <<queues, pcs, flags, ipAlive, net, retry, cbs, msgs>>

(* Both queues are shut down, then mosquitto_disconnect. *)
StopWake ==
    /\ life = "Stopping"
    /\ queues = "open"
    /\ queues' = "shut"
    /\ link' = "down"
    /\ UNCHANGED <<life, running, pcs, flags, ipAlive, brokerUp, drops, subs, retry,
                   cbs, msgs>>

(* A plausible slip: the flags are left to HandleDisconnect. *)
StopJoinKeepsFlags ==
    /\ life = "Stopping"
    /\ queues = "shut"
    /\ Threads = {"exit"}
    /\ cpc' = "off" /\ rpc' = "off" /\ dpc' = "off" /\ spc' = "off"
    /\ life' = "Stopped"
    /\ UNCHANGED <<running, queues, flags, ipAlive, net, retry, cbs, msgs>>

(* The four joins return, then the flags are cleared. *)
StopJoin ==
    /\ life = "Stopping"
    /\ queues = "shut"
    /\ Threads = {"exit"}
    /\ cpc' = "off" /\ rpc' = "off" /\ dpc' = "off" /\ spc' = "off"
    /\ connected' = FALSE /\ session' = FALSE /\ ready' = FALSE /\ ipAlive' = FALSE
    /\ life' = "Stopped"
    /\ UNCHANGED <<running, queues, net, retry, cbs, msgs>>

(* Destroy, once its Stop has returned; what is in the queues is lost. *)
Destroy ==
    /\ life \in {"Initialized", "Stopped"}
    /\ life' = "Uninitialized"
    /\ queues' = "null"
    /\ link' = "down"
    /\ cb' = [r \in Owners |-> FALSE]
    /\ sq' = 0 /\ rq' = 0
    /\ stats' = [stats EXCEPT !["sendLost"] = @ + sq, !["recvLost"] = @ + rq]
    /\ UNCHANGED <<running, pcs, flags, ipAlive, brokerUp, drops, subs, retry,
                   reg, copied, pub>>

Stop == StopWake \/ StopJoin
-----------------------------------------------------------------------------
(* ConnectionManager: probe the broker's port while running_. *)

ConnHead ==
    /\ cpc = "head"
    /\ cpc' = IF running THEN "probe" ELSE "exit"
    /\ UNCHANGED <<control, rpc, dpc, spc, flags, ipAlive, net, retry, cbs, msgs>>

CheckTcpAlive ==
    /\ cpc = "probe"
    /\ ipAlive' = brokerUp
    /\ cpc' = "head"
    /\ UNCHANGED <<control, rpc, dpc, spc, flags, net, retry, cbs, msgs>>

ConnectionManager == ConnHead \/ CheckTcpAlive
-----------------------------------------------------------------------------
(* Receiver: connect, network loop, back off, again. *)

Goto(l) == rpc' = l /\ UNCHANGED <<cpc, dpc, spc>>

(* The index moves on along the table and stays at its last entry. *)
NextBackoffSeconds ==
    /\ backoff' = IF backoff + 1 < Len(BackoffTable) THEN backoff + 1 ELSE backoff
    /\ fails' = IF fails < Len(BackoffTable) THEN fails + 1 ELSE fails

RecvHead ==
    /\ rpc = "head"
    /\ Goto(IF running THEN "connect" ELSE "exit")
    /\ UNCHANGED <<control, flags, ipAlive, net, retry, cbs, msgs>>

(* mosquitto_connect or mosquitto_reconnect under pub_mutex_. *)
Connect ==
    /\ rpc = "connect"
    /\ \/ /\ brokerUp
          /\ link' = "pending"
          /\ Goto("test")
          /\ UNCHANGED retry
       \/ /\ ~brokerUp
          /\ link' = "down"
          /\ NextBackoffSeconds
          /\ Goto("wait")
    /\ UNCHANGED <<control, flags, ipAlive, brokerUp, drops, subs, cbs, msgs>>

(* The wait is over, or running_ was cleared during it. *)
BackoffWait ==
    /\ rpc = "wait"
    /\ Goto(IF AutoReconnect THEN "head" ELSE "exit")
    /\ UNCHANGED <<control, flags, ipAlive, net, retry, cbs, msgs>>

(* while (running_) mosquitto_loop(...) *)
LoopTest ==
    /\ rpc = "test"
    /\ Goto(IF running THEN "loop" ELSE "exit")
    /\ UNCHANGED <<control, flags, ipAlive, net, retry, cbs, msgs>>

LoopIdle ==
    /\ rpc = "loop"
    /\ link = "up"
    /\ Goto("test")
    /\ UNCHANGED <<control, flags, ipAlive, net, retry, cbs, msgs>>

(* A plausible slip: the backoff is not reset. *)
HandleConnectNoReset ==
    /\ rpc = "loop"
    /\ link = "pending"
    /\ link' = "up"
    /\ subs' = IF CleanSession THEN {} ELSE subs
    /\ connected' = TRUE /\ session' = TRUE /\ ready' = TRUE
    /\ fails' = 0
    /\ Goto("copy")
    /\ UNCHANGED <<control, ipAlive, brokerUp, drops, backoff, cbs, msgs>>

(* CONNACK, rc = 0: HandleConnect stores the flags, then ResubscribeAll. *)
HandleConnect ==
    /\ rpc = "loop"
    /\ link = "pending"
    /\ link' = "up"
    /\ subs' = IF CleanSession THEN {} ELSE subs
    /\ connected' = TRUE /\ session' = TRUE /\ ready' = TRUE
    /\ backoff' = 0 /\ fails' = 0
    /\ Goto("copy")
    /\ UNCHANGED <<control, ipAlive, brokerUp, drops, cbs, msgs>>

(* CONNACK, rc # 0: the broker closes the connection. *)
HandleRefusal ==
    /\ rpc = "loop"
    /\ link = "pending"
    /\ drops < MaxDrops
    /\ drops' = drops + 1
    /\ link' = "down"
    /\ connected' = FALSE /\ session' = FALSE /\ ready' = FALSE
    /\ Goto("test")
    /\ UNCHANGED <<control, ipAlive, brokerUp, subs, retry, cbs, msgs>>

(* ResubscribeAll, first under cb_mutex_ ... *)
ResubscribeCopy ==
    /\ rpc = "copy"
    /\ copied' = Registered
    /\ Goto("resubscribe")
    /\ UNCHANGED <<control, flags, ipAlive, net, retry, cb, reg, msgs>>

(* ... then under pub_mutex_; a subscription on a dead link is lost. *)
ResubscribeSend ==
    /\ rpc = "resubscribe"
    /\ subs' = IF link = "up" THEN subs \union copied ELSE subs
    /\ copied' = {}
    /\ Goto("test")
    /\ UNCHANGED <<control, flags, ipAlive, brokerUp, link, drops, retry, cb, reg, msgs>>

(* A plausible slip: the answer of the queue is not tested. *)
HandleMessageUncounted ==
    /\ rpc = "loop"
    /\ link = "up"
    /\ subs # {}
    /\ stats["recv"] < MaxReceive
    /\ Count({"recv"})
    /\ rq' = IF queues = "open" /\ ~Full(rq, RecvCap) THEN rq + 1 ELSE rq
    /\ Goto("test")
    /\ UNCHANGED <<control, flags, ipAlive, net, retry, cbs, pub, sq>>

(* HandleMessage: count, and queue it unless the queue refuses. *)
HandleMessage ==
    /\ rpc = "loop"
    /\ link = "up"
    /\ subs # {}
    /\ stats["recv"] < MaxReceive
    /\ \/ /\ queues = "shut" \/ Full(rq, RecvCap)
          /\ Count({"recv", "dropped"})
          /\ UNCHANGED rq
       \/ /\ queues = "open" /\ ~Full(rq, RecvCap)
          /\ Count({"recv"})
          /\ rq' = rq + 1
    /\ Goto("test")
    /\ UNCHANGED <<control, flags, ipAlive, net, retry, cbs, pub, sq>>

(* mosquitto_loop fails (HandleDisconnect has run): clear the flags. *)
LoopError ==
    /\ rpc = "loop"
    /\ link = "down"
    /\ connected' = FALSE /\ session' = FALSE /\ ready' = FALSE
    /\ Goto("lost")
    /\ UNCHANGED <<control, ipAlive, net, retry, cbs, msgs>>

(* A plausible slip: the thread ends at the first loss of the connection. *)
LostGivesUp ==
    /\ rpc = "lost"
    /\ Goto("exit")
    /\ UNCHANGED <<control, flags, ipAlive, net, retry, cbs, msgs>>

Lost ==
    /\ rpc = "lost"
    /\ \/ /\ running /\ AutoReconnect
          /\ NextBackoffSeconds
          /\ Goto("wait")
       \/ /\ ~(running /\ AutoReconnect)
          /\ Goto("exit")
          /\ UNCHANGED retry
    /\ UNCHANGED <<control, flags, ipAlive, net, cbs, msgs>>

Receiver ==
    \/ RecvHead \/ Connect \/ BackoffWait \/ LoopTest \/ LoopIdle
    \/ HandleConnect \/ HandleRefusal \/ ResubscribeCopy \/ ResubscribeSend
    \/ HandleMessage \/ LoopError \/ Lost
-----------------------------------------------------------------------------
(* Dispatcher and Sender: pop with a timeout of 200 ms while running_. *)

DispHead ==
    /\ dpc = "head"
    /\ dpc' = IF running THEN "pop" ELSE "exit"
    /\ UNCHANGED <<control, cpc, rpc, spc, flags, ipAlive, net, retry, cbs, msgs>>

DispPop ==
    /\ dpc = "pop"
    /\ dpc' = IF rq = 0 THEN "head" ELSE "dispatch"
    /\ rq' = IF rq = 0 THEN 0 ELSE rq - 1
    /\ UNCHANGED <<control, cpc, rpc, spc, flags, ipAlive, net, retry, cbs, pub, sq, stats>>

(* DispatchToCallbacks: each callback runs, whatever the others throw. *)
DispatchToCallbacks ==
    /\ dpc = "dispatch"
    /\ Count({"dispatched"})
    /\ dpc' = "head"
    /\ UNCHANGED <<control, cpc, rpc, spc, flags, ipAlive, net, retry, cbs, pub, sq, rq>>

Dispatcher == DispHead \/ DispPop \/ DispatchToCallbacks

(* A plausible slip: the loop ends only when the queue says so, which a    *)
(* Pop with a timeout never does.                                          *)
SendHeadForever ==
    /\ spc = "head"
    /\ spc' = "pop"
    /\ UNCHANGED <<control, cpc, rpc, dpc, flags, ipAlive, net, retry, cbs, msgs>>

SendHead ==
    /\ spc = "head"
    /\ spc' = IF running THEN "pop" ELSE "exit"
    /\ UNCHANGED <<control, cpc, rpc, dpc, flags, ipAlive, net, retry, cbs, msgs>>

SendPop ==
    /\ spc = "pop"
    /\ spc' = IF sq = 0 THEN "head" ELSE "publish"
    /\ sq' = IF sq = 0 THEN 0 ELSE sq - 1
    /\ UNCHANGED <<control, cpc, rpc, dpc, flags, ipAlive, net, retry, cbs, pub, rq, stats>>

(* A plausible slip: without a connection the message is put back, and     *)
(* counted as failed all the same.                                         *)
DoPublishRequeues ==
    /\ spc = "publish"
    /\ IF connected THEN Count({"sent"}) /\ UNCHANGED sq
                    ELSE Count({"failed"}) /\ sq' = sq + 1
    /\ spc' = "head"
    /\ UNCHANGED <<control, cpc, rpc, dpc, flags, ipAlive, net, retry, cbs, pub, rq>>

(* DoPublish: dropped as failed without a connection; with one             *)
(* mosquitto_publish may take the message or fail.                         *)
DoPublish ==
    /\ spc = "publish"
    /\ \/ connected /\ Count({"sent"})
       \/ Count({"failed"})
    /\ spc' = "head"
    /\ UNCHANGED <<control, cpc, rpc, dpc, flags, ipAlive, net, retry, cbs, pub, sq, rq>>

Sender == SendHead \/ SendPop \/ DoPublish
-----------------------------------------------------------------------------
(* The callers. *)

PublishCheck(p) ==
    /\ pub[p] = "idle"
    /\ stats["calls"] < MaxPublish
    /\ Count({"calls"})
    /\ pub' = [pub EXCEPT ![p] = IF life = "Running" /\ queues # "null"
                                 THEN "push" ELSE "idle"]
    /\ UNCHANGED <<control, pcs, flags, ipAlive, net, retry, cbs, sq, rq>>

(* Push, which the queue refuses when full or shut down.  Destroy may have *)
(* released the queue since the check: then nothing is queued.             *)
PublishPush(p) ==
    /\ pub[p] = "push"
    /\ pub' = [pub EXCEPT ![p] = "idle"]
    /\ IF queues = "open" /\ ~Full(sq, SendCap)
       THEN sq' = sq + 1 /\ Count({"accepted"})
       ELSE UNCHANGED <<sq, stats>>
    /\ UNCHANGED <<control, pcs, flags, ipAlive, net, retry, cbs, rq>>

(* RegisterCallback: the entry is inserted under cb_mutex_ ... *)
RegisterInsert(r) ==
    /\ reg[r] = "idle"
    /\ ~cb[r]
    /\ cb' = [cb EXCEPT ![r] = TRUE]
    /\ reg' = [reg EXCEPT ![r] = "check"]
    /\ UNCHANGED <<control, pcs, flags, ipAlive, net, retry, copied, msgs>>

(* ... then the session is looked at, without the lock ... *)
RegisterCheck(r) ==
    /\ reg[r] = "check"
    /\ reg' = [reg EXCEPT ![r] = IF session THEN "subscribe" ELSE "idle"]
    /\ UNCHANGED <<control, pcs, flags, ipAlive, net, retry, cb, copied, msgs>>

(* ... and the topic subscribed at once if there was one. *)
RegisterSubscribe(r) ==
    /\ reg[r] = "subscribe"
    /\ subs' = IF link = "up" THEN subs \union {TopicOf[r]} ELSE subs
    /\ reg' = [reg EXCEPT ![r] = "idle"]
    /\ UNCHANGED <<control, pcs, flags, ipAlive, brokerUp, link, drops, retry,
                   cb, copied, msgs>>

(* mosquitto_unsubscribe by a caller that holds cb_mutex_. *)
Unsubscribe(t) ==
    subs' = IF session /\ link = "up" THEN subs \ {t} ELSE subs

(* A plausible slip: the topic's other callbacks are forgotten. *)
UnregisterCallbackHasty(r) ==
    /\ reg[r] = "idle"
    /\ cb[r]
    /\ cb' = [cb EXCEPT ![r] = FALSE]
    /\ Unsubscribe(TopicOf[r])
    /\ UNCHANGED <<control, pcs, flags, ipAlive, brokerUp, link, drops, retry,
                   reg, copied, msgs>>

(* The topic is unsubscribed with its last callback. *)
UnregisterCallback(r) ==
    /\ reg[r] = "idle"
    /\ cb[r]
    /\ cb' = [cb EXCEPT ![r] = FALSE]
    /\ IF \E x \in Owners \ {r} : cb[x] /\ TopicOf[x] = TopicOf[r]
       THEN UNCHANGED subs
       ELSE Unsubscribe(TopicOf[r])
    /\ UNCHANGED <<control, pcs, flags, ipAlive, brokerUp, link, drops, retry,
                   reg, copied, msgs>>

(* ClearCallback(t): all callbacks of t, whoever registered them. *)
ClearCallback(t) ==
    /\ t \in Registered
    /\ cb' = [r \in Owners |-> cb[r] /\ TopicOf[r] # t]
    /\ Unsubscribe(t)
    /\ UNCHANGED <<control, pcs, flags, ipAlive, brokerUp, link, drops, retry,
                   reg, copied, msgs>>

Register(r) == RegisterCheck(r) \/ RegisterSubscribe(r)
-----------------------------------------------------------------------------
(* The network. *)

LinkLost ==
    /\ link # "down"
    /\ drops < MaxDrops
    /\ drops' = drops + 1
    /\ link' = "down"
    /\ UNCHANGED <<control, pcs, flags, ipAlive, brokerUp, subs, retry, cbs, msgs>>

BrokerStops ==
    /\ brokerUp
    /\ drops < MaxDrops
    /\ drops' = drops + 1
    /\ brokerUp' = FALSE
    /\ link' = "down"
    /\ UNCHANGED <<control, pcs, flags, ipAlive, subs, retry, cbs, msgs>>

BrokerStarts ==
    /\ ~brokerUp
    /\ brokerUp' = TRUE
    /\ UNCHANGED <<control, pcs, flags, ipAlive, link, drops, subs, retry, cbs, msgs>>
-----------------------------------------------------------------------------
Next ==
    \/ (\E enable \in BOOLEAN : Initialize(enable)) \/ StartBegin \/ StartEnd \/ StopBegin \/ Stop \/ Destroy
    \/ ConnectionManager \/ Receiver \/ Dispatcher \/ Sender
    \/ \E p \in Publishers : PublishCheck(p) \/ PublishPush(p)
    \/ \E r \in Owners : RegisterInsert(r) \/ Register(r) \/ UnregisterCallback(r)
    \/ \E t \in {TopicOf[r] : r \in Owners} : ClearCallback(t)
    \/ LinkLost \/ BrokerStops \/ BrokerStarts

Spec == Init /\ [][Next]_vars

(* The four threads and a Start or Stop in progress run. *)
Fairness ==
    /\ WF_vars(StartEnd) /\ WF_vars(Stop)
    /\ WF_vars(ConnectionManager) /\ WF_vars(Receiver)
    /\ WF_vars(Dispatcher) /\ WF_vars(Sender)

FairSpec == Spec /\ Fairness
-----------------------------------------------------------------------------
TypeOK ==
    /\ life \in {"Uninitialized", "Initialized", "Starting", "Running", "Stopping",
                 "Stopped"}
    /\ running \in BOOLEAN
    /\ queues \in {"null", "open", "shut"}
    /\ cpc \in {"off", "head", "probe", "exit"}
    /\ rpc \in {"off", "head", "connect", "wait", "test", "loop", "copy",
                "resubscribe", "lost", "exit"}
    /\ dpc \in {"off", "head", "pop", "dispatch", "exit"}
    /\ spc \in {"off", "head", "pop", "publish", "exit"}
    /\ connected \in BOOLEAN /\ session \in BOOLEAN /\ ready \in BOOLEAN
    /\ ipAlive \in BOOLEAN /\ brokerUp \in BOOLEAN
    /\ backoff \in 0..(Len(BackoffTable) - 1)
    /\ fails \in 0..Len(BackoffTable)
    /\ link \in {"down", "pending", "up"}
    /\ drops \in 0..MaxDrops
    /\ subs \subseteq {TopicOf[r] : r \in Owners}
    /\ copied \subseteq {TopicOf[r] : r \in Owners}
    /\ cb \in [Owners -> BOOLEAN]
    /\ reg \in [Owners -> {"idle", "check", "subscribe"}]
    /\ pub \in [Publishers -> {"idle", "push"}]
    /\ sq \in Nat /\ rq \in Nat
    /\ stats \in [Counters -> Nat]

(* Whenever the session stands and ResubscribeAll is not under way, every  *)
(* topic with a callback whose RegisterCallback has returned is subscribed *)
(* at the broker, however registrations, removals and reconnections        *)
(* interleave.                                                             *)
SubscribedWhenSettled ==
    session /\ link = "up" /\ rpc \notin {"copy", "resubscribe"} =>
        \A r \in Owners : cb[r] /\ reg[r] = "idle" => TopicOf[r] \in subs

(* Outside Start..Stop no thread is left and no flag claims a connection,  *)
(* even if CONNACK was handled while Stop was waiting.                     *)
StoppedIsQuiet ==
    life \in {"Uninitialized", "Initialized", "Stopped"} =>
        /\ Threads = {"off"}
        /\ ~connected /\ ~session /\ ~ready /\ ~ipAlive

(* Every accepted message is sent, counted as failed, in the Sender's hand *)
(* or queued; every received one is dispatched, counted as dropped, in the *)
(* Dispatcher's hand or queued; only Destroy loses messages, those queued. *)
MessagesAccounted ==
    /\ stats["accepted"] = stats["sent"] + stats["failed"] + stats["sendLost"] + sq
                        + (IF spc = "publish" THEN 1 ELSE 0)
    /\ stats["recv"] = stats["dispatched"] + stats["dropped"] + stats["recvLost"] + rq
                    + (IF dpc = "dispatch" THEN 1 ELSE 0)

(* The wait grows with the failures since the last accepted CONNACK along  *)
(* the table 1, 2, 5, 10, 20, 30 s and stays at 30 s.                      *)
BackoffFollowsFailures ==
    backoff = IF fails < Len(BackoffTable) THEN fails ELSE Len(BackoffTable) - 1

(* Stop joins its four threads.                                            *)
StopCompletes == (life = "Stopping") ~> (life = "Stopped")

(* A running module whose broker is there gets ready, with auto_reconnect. *)
Reconnects ==
    (life = "Running" /\ brokerUp) ~> (ready \/ life # "Running" \/ ~brokerUp)
=============================================================================
