-------------------------- MODULE SelfTask_proofs ---------------------------
(***************************************************************************)
(* Proofs about SelfTask for any set of tasks, any choice of those that    *)
(* SayHelloAction handles and any number of calls of Init and Shutdown.    *)
(***************************************************************************)
EXTENDS SelfTask, SequenceTheorems, TLAPS

USE DEF life, queue, monitor, action, vars

(* The elements of a sequence are different. *)
Distinct(s) == \A i, j \in DOMAIN s : s[i] = s[j] => i = j

(* A task is in one place on its way from the queue to its handler: what   *)
(* is queued has not been fetched, what FetchSelfTask holds is neither in  *)
(* the slot nor with the action thread.                                    *)
Places ==
    /\ Distinct(sq)
    /\ RangeOf(sq) \subseteq appended
    /\ RangeOf(sq) \cap RangeOf(fetched) = {}
    /\ RangeOf(fetched) \subseteq appended
    /\ RangeOf(executed) \subseteq RangeOf(fetched)
    /\ slot # None => slot \in RangeOf(fetched)
    /\ atask # None => atask \in RangeOf(fetched)
    /\ mtask # None => /\ mtask \in RangeOf(fetched)
                       /\ mtask \notin RangeOf(executed)
                       /\ mtask # slot /\ mtask # atask
    /\ mpc = "store" <=> mtask # None

(* What the action thread is going to read from the slot, or has read, is  *)
(* not yet executed: the state leaves Initializing with the task.          *)
Fresh ==
    /\ apc = "copy" \/ (Waiting /\ apc \in {"off", "head", "settle", "exit"}) =>
           slot \notin RangeOf(executed)
    /\ apc = "invoke" => atask \notin RangeOf(executed)

(* Before the first Init no thread runs and nothing is fetched. *)
Unborn ==
    /\ op = "init" => inits > 0
    /\ inits = 0 => mpc = "off" /\ apc = "off" /\ fetched = <<>> /\ runState # "Ready"

(* The places of FetchSelfTask behind its test of the state. *)
Past == {"lookup", "probe", "pop", "store"}

(* The hand-over in the first life of the edge.  FetchSelfTask is behind   *)
(* its test only in RunOver, so the action thread finds the slot as the    *)
(* state announced it; only SayHelloAction stores RunOver before           *)
(* FinishSelfTask, and what is fetched in between follows its task.        *)
HandOver ==
    inits <= 1 =>
        /\ mpc \in Past => state = "RunOver"
        /\ Waiting => slot # None
        /\ apc \in {"settle", "copy", "invoke"} => Waiting
        /\ apc = "invoke" => atask = slot
        /\ apc = "hello" => state = "Running" /\ atask = slot /\ atask \in Hello
        /\ slot # None => fetched # <<>>
        /\ fetched # <<>> => fetched[Len(fetched)] = IF mpc = "store" THEN mtask ELSE slot
        /\ apc = "finish" =>
             \/ /\ state \in {"RunOver", "Stopped"}
                /\ atask \in Hello
                /\ IF mpc = "store" THEN AfterHello(mtask) ELSE atask = slot
             \/ Waiting /\ (slot \in RangeOf(executed) \/ AfterHello(slot))
-----------------------------------------------------------------------------
(* Facts about sequences. *)

(* Append adds one element. *)
LEMMA AppendRange ==
  ASSUME NEW S, NEW s \in Seq(S), NEW x \in S
  PROVE  /\ Append(s, x) \in Seq(S)
         /\ Len(Append(s, x)) = Len(s) + 1
         /\ \A i \in 1..Len(s) : Append(s, x)[i] = s[i]
         /\ Append(s, x)[Len(s) + 1] = x
         /\ RangeOf(Append(s, x)) = RangeOf(s) \cup {x}
<1>1. /\ Append(s, x) \in Seq(S)
      /\ Len(Append(s, x)) = Len(s) + 1
      /\ \A i \in 1..Len(s) : Append(s, x)[i] = s[i]
      /\ Append(s, x)[Len(s) + 1] = x
      /\ DOMAIN s = 1..Len(s) /\ Len(s) \in Nat
  BY AppendProperties
<1>2. DOMAIN Append(s, x) = 1..(Len(s) + 1)
  BY <1>1
<1>3. 1..(Len(s) + 1) = 1..Len(s) \cup {Len(s) + 1}
  BY <1>1
<1> QED BY <1>1, <1>2, <1>3 DEF RangeOf

(* Appending a new element keeps the elements different. *)
LEMMA AppendDistinct ==
  ASSUME NEW S, NEW s \in Seq(S), NEW x \in S, Distinct(s), x \notin RangeOf(s)
  PROVE  Distinct(Append(s, x))
<1>1. DOMAIN s = 1..Len(s) /\ Len(s) \in Nat /\ DOMAIN Append(s, x) = 1..(Len(s) + 1)
  BY AppendRange
<1>2. \A i \in 1..Len(s) : s[i] # x
  BY <1>1 DEF RangeOf
<1> QED BY <1>1, <1>2, AppendRange DEF Distinct

(* The head leaves a sequence of different elements. *)
LEMMA TailRange ==
  ASSUME NEW S, NEW s \in Seq(S), s # <<>>
  PROVE  /\ Head(s) \in S /\ Head(s) \in RangeOf(s)
         /\ Tail(s) \in Seq(S)
         /\ RangeOf(Tail(s)) \subseteq RangeOf(s)
         /\ Distinct(s) => Distinct(Tail(s)) /\ Head(s) \notin RangeOf(Tail(s))
<1>1. /\ Len(s) \in Nat /\ Len(s) > 0 /\ DOMAIN s = 1..Len(s)
      /\ Head(s) = s[1] /\ Tail(s) \in Seq(S) /\ Len(Tail(s)) = Len(s) - 1
      /\ \A i \in 1..(Len(s) - 1) : Tail(s)[i] = s[i + 1]
  BY HeadTailProperties, EmptySeq, LenProperties
<1>2. DOMAIN Tail(s) = 1..(Len(s) - 1)
  BY <1>1
<1> QED BY <1>1, <1>2 DEF RangeOf, Distinct
-----------------------------------------------------------------------------
(* The constructor. *)
LEMMA TypeInit == Init0 => TypeOK
<1> SUFFICES ASSUME Init0 PROVE TypeOK
  OBVIOUS
<1>1. qshut \in BOOLEAN /\ selfStop \in BOOLEAN
  BY DEF Init0
<1>2. sq \in Seq(Tasks) /\ fetched \in Seq(Tasks) /\ executed \in Seq(Tasks)
  BY DEF Init0
<1> QED BY <1>1, <1>2, SelfTaskAssumption DEF Init0, TypeOK

(* Every step keeps the types. *)
LEMMA TypeNext == TypeOK /\ [Next]_vars => TypeOK'
<1> SUFFICES ASSUME TypeOK, [Next]_vars PROVE TypeOK'
  OBVIOUS
<1>1. CASE Monitor
  <2>1. CASE MonCheck    BY <2>1 DEF MonCheck, TypeOK
  <2>2. CASE MonLookup   BY <2>2 DEF MonLookup, TypeOK
  <2>3. CASE MonProbe    BY <2>3 DEF MonProbe, TypeOK
  <2>4. CASE MonPop
    <3>1. Head(sq) \in Tasks /\ sq' \in Seq(Tasks)
      BY <2>4, TailRange DEF MonPop, TypeOK
    <3>2. fetched' \in Seq(Tasks)
      BY <2>4, <3>1, AppendRange DEF MonPop, TypeOK
    <3> QED BY <2>4, <3>1, <3>2 DEF MonPop, TypeOK
  <2>5. CASE MonPopFail      BY <2>5 DEF MonPopFail, TypeOK
  <2>6. CASE MonPopDangling  BY <2>6 DEF MonPopDangling, TypeOK
  <2>7. CASE MonStore        BY <2>7 DEF MonStore, TypeOK
  <2> QED BY <1>1, <2>1, <2>2, <2>3, <2>4, <2>5, <2>6, <2>7 DEF Monitor
<1>2. CASE Action
  <2>1. CASE ActHead    BY <2>1 DEF ActHead, TypeOK
  <2>2. CASE ActSettle  BY <2>2 DEF ActSettle, TypeOK
  <2>3. CASE ActCopy    BY <2>3 DEF ActCopy, TypeOK
  <2>4. CASE ActInvoke
    <3>1. executed' \in Seq(Tasks)
      BY <2>4, AppendRange DEF ActInvoke, TypeOK
    <3> QED BY <2>4, <3>1 DEF ActInvoke, TypeOK
  <2>5. CASE ActHello        BY <2>5 DEF ActHello, TypeOK
  <2>6. CASE FinishSelfTask  BY <2>6 DEF FinishSelfTask, TypeOK
  <2> QED BY <1>2, <2>1, <2>2, <2>3, <2>4, <2>5, <2>6 DEF Action
<1>3. CASE InitReset  BY <1>3, SelfTaskAssumption DEF InitReset, TypeOK
<1>4. CASE Start
  <2>1. selfStop' \in BOOLEAN
    BY <1>4 DEF Start, TypeOK
  <2>2. /\ mpc' \in {"off", "head", "lookup", "probe", "pop", "store", "hung", "exit"}
        /\ apc' \in {"off", "head", "settle", "copy", "invoke", "hello", "finish", "exit"}
    BY <1>4 DEF Start, TypeOK
  <2>3. UNCHANGED <<op, inits, queue, state, slot, ptr, mtask, atask, appended, fetched,
                    executed>> /\ runState' = "Running"
    BY <1>4 DEF Start
  <2> QED BY <2>1, <2>2, <2>3 DEF TypeOK
<1>5. CASE ShutBegin  BY <1>5 DEF ShutBegin, TypeOK
<1>6. CASE Exclusive
  <2>1. CASE InitQueues
    <3>1. sq' \in Seq(Tasks)
      BY <2>1 DEF InitQueues
    <3>2. qshut' \in BOOLEAN
      BY <2>1 DEF InitQueues
    <3> QED BY <2>1, <3>1, <3>2 DEF InitQueues, TypeOK
  <2>2. CASE ShutJoinSelf  BY <2>2 DEF ShutJoinSelf, TypeOK
  <2>3. CASE ShutQueue     BY <2>3 DEF ShutQueue, TypeOK
  <2>4. CASE ShutClear
    <3>1. sq' \in Seq(Tasks) /\ selfQ' \in 0..MaxInits
      BY <2>4, SelfTaskAssumption DEF ShutClear
    <3> QED BY <2>4, <3>1 DEF ShutClear, TypeOK
  <2> QED BY <1>6, <2>1, <2>2, <2>3, <2>4 DEF Exclusive
<1>7. ASSUME NEW t \in Tasks, AppendTask(t) PROVE TypeOK'
  <2>1. sq' \in Seq(Tasks)
    BY <1>7, AppendRange DEF AppendTask, TypeOK
  <2> QED BY <1>7, <2>1 DEF AppendTask, TypeOK
<1>8. CASE UNCHANGED vars  BY <1>8 DEF TypeOK
<1> QED BY <1>1, <1>2, <1>3, <1>4, <1>5, <1>6, <1>7, <1>8 DEF Next

(* The types of all variables; in particular the self queue only ever      *)
(* holds tasks and the state only values that FetchSelfTask, the handlers  *)
(* and Init store.                                                         *)
THEOREM TypeCorrect == Spec => []TypeOK
BY TypeInit, TypeNext, PTL DEF Spec
-----------------------------------------------------------------------------
(* Each step keeps a task in one place. *)
LEMMA PlacesNext == TypeOK /\ Places /\ Fresh /\ [Next]_vars => Places'
<1> SUFFICES ASSUME TypeOK, Places, Fresh, [Next]_vars PROVE Places'
  OBVIOUS
<1>s. ASSUME UNCHANGED <<sq, appended, fetched, executed, slot, atask, mtask>>,
             mpc = "store" <=> mpc' = "store"
      PROVE  Places'
  BY <1>s DEF Places, Distinct
<1>1. CASE MonPop
  <2> DEFINE t == Head(sq)
  <2>1. /\ t \in Tasks /\ t \in RangeOf(sq) /\ t \notin RangeOf(Tail(sq))
        /\ Distinct(Tail(sq)) /\ RangeOf(Tail(sq)) \subseteq RangeOf(sq)
    BY <1>1, TailRange DEF MonPop, TypeOK, Places
  <2>2. RangeOf(fetched') = RangeOf(fetched) \cup {t}
    BY <1>1, <2>1, AppendRange DEF MonPop, TypeOK
  <2>3. /\ sq' = Tail(sq) /\ mtask' = t /\ mpc' = "store"
        /\ UNCHANGED <<appended, executed, slot, atask>>
    BY <1>1 DEF MonPop
  <2>4. t # None
    BY <2>1, SelfTaskAssumption
  <2> HIDE DEF t
  <2> QED BY <2>1, <2>2, <2>3, <2>4 DEF Places
<1>2. CASE MonStore
  BY <1>2 DEF MonStore, Places, Distinct
<1>3. CASE ActCopy
  BY <1>3 DEF ActCopy, Places, Distinct
<1>4. CASE ActInvoke
  <2>1. UNCHANGED <<sq, appended, fetched, slot, atask, mtask, mpc>>
    BY <1>4 DEF ActInvoke
  <2>2. RangeOf(executed') \subseteq RangeOf(executed) \cup ({atask} \ {None})
    BY <1>4, AppendRange DEF ActInvoke, TypeOK
  <2> QED BY <2>1, <2>2 DEF Places, Distinct
<1>5. CASE FinishSelfTask
  BY <1>5 DEF FinishSelfTask, Places, Distinct
<1>6. CASE InitReset
  BY <1>6 DEF InitReset, Places, Distinct
<1>7. CASE InitQueues \/ ShutClear
  <2>1. /\ sq' = <<>>
        /\ UNCHANGED <<appended, fetched, executed, slot, atask, mtask, mpc>>
    BY <1>7 DEF InitQueues, ShutClear
  <2>2. RangeOf(sq') = {} /\ Distinct(sq')
    BY <2>1 DEF RangeOf, Distinct
  <2> QED BY <2>1, <2>2 DEF Places
<1>8. ASSUME NEW t \in Tasks, AppendTask(t) PROVE Places'
  <2>1. /\ t \notin appended /\ sq' = Append(sq, t) /\ appended' = appended \cup {t}
        /\ UNCHANGED <<fetched, executed, slot, atask, mtask, mpc>>
    BY <1>8 DEF AppendTask
  <2>2. RangeOf(sq') = RangeOf(sq) \cup {t} /\ Distinct(sq')
    BY <2>1, AppendRange, AppendDistinct DEF TypeOK, Places
  <2> QED BY <2>1, <2>2 DEF Places
<1>9. CASE MonCheck \/ MonLookup \/ MonProbe \/ MonPopFail \/ MonPopDangling
  BY <1>9, <1>s DEF MonCheck, MonLookup, MonProbe, MonPopFail, MonPopDangling
<1>10. CASE ActHead \/ ActSettle \/ ActHello
  BY <1>10, <1>s DEF ActHead, ActSettle, ActHello
<1>11. CASE Start \/ ShutBegin \/ ShutJoinSelf \/ ShutQueue \/ UNCHANGED vars
  BY <1>11, <1>s DEF Start, ShutBegin, ShutJoinSelf, ShutQueue
<1> QED
  BY <1>1, <1>2, <1>3, <1>4, <1>5, <1>6, <1>7, <1>8, <1>9, <1>10, <1>11
  DEF Next, Monitor, Action, Exclusive

(* What the action thread reads stays unexecuted. *)
LEMMA FreshNext == TypeOK /\ Places /\ Fresh /\ [Next]_vars => Fresh'
<1> SUFFICES ASSUME TypeOK, Places, Fresh, [Next]_vars PROVE Fresh'
  OBVIOUS
<1>0. None \notin RangeOf(executed)
  BY SelfTaskAssumption DEF Places, RangeOf, TypeOK
<1>s. ASSUME UNCHANGED <<state, slot, apc, atask, executed>> PROVE Fresh'
  BY <1>s DEF Fresh, Waiting
<1>1. CASE MonStore
  <2>1. mtask \notin RangeOf(executed)
    BY <1>1 DEF MonStore, Places
  <2> QED BY <1>1, <2>1 DEF MonStore, Fresh
<1>2. CASE ActHead    BY <1>2 DEF ActHead, Fresh, Waiting
<1>3. CASE ActSettle  BY <1>3 DEF ActSettle, Fresh, Waiting
<1>4. CASE ActCopy    BY <1>4 DEF ActCopy, Fresh
<1>5. CASE ActInvoke  BY <1>5 DEF ActInvoke, Fresh
<1>6. CASE ActHello   BY <1>6 DEF ActHello, Fresh
<1>7. CASE FinishSelfTask
  BY <1>7 DEF FinishSelfTask, Fresh, Waiting, TypeOK
<1>8. CASE InitReset  BY <1>0, <1>8 DEF InitReset, Fresh
<1>9. CASE Start      BY <1>9 DEF Start, Fresh, Waiting
<1>10. CASE ShutJoinSelf  BY <1>10 DEF ShutJoinSelf, Fresh, Waiting
<1>11. CASE MonCheck \/ MonLookup \/ MonProbe \/ MonPop \/ MonPopFail \/ MonPopDangling
  BY <1>11, <1>s DEF MonCheck, MonLookup, MonProbe, MonPop, MonPopFail, MonPopDangling
<1>12. CASE InitQueues \/ ShutBegin \/ ShutQueue \/ ShutClear \/ UNCHANGED vars
  BY <1>12, <1>s DEF InitQueues, ShutBegin, ShutQueue, ShutClear
<1>13. ASSUME NEW t \in Tasks, AppendTask(t) PROVE Fresh'
  BY <1>13, <1>s DEF AppendTask
<1> QED
  BY <1>1, <1>2, <1>3, <1>4, <1>5, <1>6, <1>7, <1>8, <1>9, <1>10, <1>11, <1>12, <1>13
  DEF Next, Monitor, Action, Exclusive

(* Only ActInvoke executes a task, and one that was not. *)
LEMMA OnceNext == TypeOK /\ Fresh /\ AtMostOnce /\ [Next]_vars => AtMostOnce'
<1> SUFFICES ASSUME TypeOK, Fresh, Distinct(executed), [Next]_vars PROVE Distinct(executed')
  BY DEF AtMostOnce, Distinct
<1>1. CASE ActInvoke
  BY <1>1, AppendDistinct DEF ActInvoke, Fresh, TypeOK
<1>2. CASE executed' = executed
  BY <1>2
<1>3. CASE Monitor
  BY <1>2, <1>3 DEF Monitor, MonCheck, MonLookup, MonProbe, MonPop, MonPopFail,
      MonPopDangling, MonStore
<1>4. CASE Action /\ ~ActInvoke
  BY <1>2, <1>4 DEF Action, ActHead, ActSettle, ActCopy, ActHello, FinishSelfTask
<1>5. CASE InitReset \/ Start \/ ShutBegin \/ Exclusive \/ UNCHANGED vars
  BY <1>2, <1>5 DEF InitReset, Start, ShutBegin, Exclusive, InitQueues, ShutJoinSelf,
      ShutQueue, ShutClear
<1>6. ASSUME NEW t \in Tasks, AppendTask(t) PROVE executed' = executed
  BY <1>6 DEF AppendTask
<1> QED BY <1>1, <1>2, <1>3, <1>4, <1>5, <1>6 DEF Next

(* The two invariants of the way of a task. *)
LEMMA PlacesAndFresh == Spec => [](Places /\ Fresh)
<1>1. Init0 => Places /\ Fresh
  BY DEF Init0, Places, Fresh, RangeOf, Distinct
<1> QED BY <1>1, TypeCorrect, PlacesNext, FreshNext, PTL DEF Spec

(* No self task is given to a handler twice: however Init, SayHelloAction  *)
(* and the two threads interleave, in any number of lives of the edge, the *)
(* action thread never reads a slot it has already executed.               *)
THEOREM ExecutedAtMostOnce == Spec => []AtMostOnce
<1>1. Init0 => AtMostOnce
  BY DEF Init0, AtMostOnce
<1> QED BY <1>1, TypeCorrect, PlacesAndFresh, OnceNext, PTL DEF Spec
-----------------------------------------------------------------------------
(* Before the first Init. *)
LEMMA UnbornNext == TypeOK /\ Unborn /\ [Next]_vars => Unborn'
<1> SUFFICES ASSUME TypeOK, Unborn, [Next]_vars PROVE Unborn'
  OBVIOUS
<1>1. CASE Monitor
  BY <1>1 DEF Monitor, MonCheck, MonLookup, MonProbe, MonPop, MonPopFail,
      MonPopDangling, MonStore, Unborn
<1>2. CASE Action
  BY <1>2 DEF Action, ActHead, ActSettle, ActCopy, ActInvoke, ActHello, FinishSelfTask, Unborn
<1>3. CASE InitReset
  BY <1>3 DEF InitReset, Unborn, TypeOK
<1>4. CASE Start \/ ShutBegin
  BY <1>4 DEF Start, ShutBegin, Unborn
<1>5. CASE Exclusive
  BY <1>5 DEF Exclusive, InitQueues, ShutJoinSelf, ShutQueue, ShutClear, Unborn, TypeOK
<1>6. ASSUME NEW t \in Tasks, AppendTask(t) PROVE Unborn'
  BY <1>6 DEF AppendTask, Unborn
<1>7. CASE UNCHANGED vars
  BY <1>7 DEF Unborn
<1> QED BY <1>1, <1>2, <1>3, <1>4, <1>5, <1>6, <1>7 DEF Next

(* A task that followed one of SayHelloAction goes on doing so. *)
LEMMA AfterHelloKept ==
  ASSUME TypeOK, NEW x \in Tasks, fetched' = Append(fetched, x), NEW t, AfterHello(t)
  PROVE  AfterHello(t)'
<1>1. PICK i \in 2..Len(fetched) : fetched[i] = t /\ fetched[i - 1] \in Hello
  BY DEF AfterHello
<1>2. /\ Len(fetched) \in Nat /\ Len(fetched') = Len(fetched) + 1
      /\ \A k \in 1..Len(fetched) : fetched'[k] = fetched[k]
  BY AppendRange DEF TypeOK
<1>3. i \in 2..Len(fetched') /\ fetched'[i] = t /\ fetched'[i - 1] \in Hello
  BY <1>1, <1>2
<1> QED BY <1>3 DEF AfterHello

(* The task fetched behind the last one follows it. *)
LEMMA AfterHelloNew ==
  ASSUME TypeOK, NEW x \in Tasks, fetched' = Append(fetched, x), fetched # <<>>,
         fetched[Len(fetched)] \in Hello
  PROVE  AfterHello(x)'
<1>1. Len(fetched) \in Nat /\ Len(fetched) > 0
  BY EmptySeq, LenProperties DEF TypeOK
<1>2. /\ Len(fetched') = Len(fetched) + 1 /\ fetched'[Len(fetched) + 1] = x
      /\ fetched'[Len(fetched)] = fetched[Len(fetched)]
  BY <1>1, AppendRange DEF TypeOK
<1>3. (Len(fetched) + 1) \in 2..Len(fetched') /\ (Len(fetched) + 1) - 1 = Len(fetched)
  BY <1>1, <1>2
<1>4. fetched'[(Len(fetched) + 1) - 1] \in Hello
  BY <1>2, <1>3
<1> QED BY <1>2, <1>3, <1>4 DEF AfterHello

(* The hand-over. *)
LEMMA HandOverNext == TypeOK /\ Places /\ Unborn /\ HandOver /\ [Next]_vars => HandOver'
<1> SUFFICES ASSUME TypeOK, Places, Unborn, HandOver, [Next]_vars, inits' <= 1 PROVE HandOver'
  BY DEF HandOver
<1>0. inits \in Nat
  BY DEF TypeOK
<1>i. CASE InitReset
  <2>1. inits = 0
    BY <1>0, <1>i DEF InitReset
  <2> QED BY <1>i, <2>1 DEF InitReset, Unborn, HandOver, Past, Waiting
<1>u. ASSUME ~InitReset PROVE inits <= 1
  BY <1>0, <1>u DEF Next, Monitor, MonCheck, MonLookup, MonProbe, MonPop, MonPopFail,
      MonPopDangling, MonStore, Action, ActHead, ActSettle, ActCopy, ActInvoke, ActHello,
      FinishSelfTask, Start, ShutBegin, Exclusive, InitQueues, ShutJoinSelf, ShutQueue,
      ShutClear, AppendTask
<1> SUFFICES ASSUME inits <= 1 PROVE HandOver'
  BY <1>i, <1>u
<1>a. ASSUME fetched' = fetched, NEW t PROVE AfterHello(t)' = AfterHello(t)
  BY <1>a DEF AfterHello
<1>s. ASSUME UNCHANGED <<state, slot, apc, atask, mtask, fetched, executed>>,
             mpc' \in Past => mpc \in Past,
             mpc = "store" <=> mpc' = "store"
      PROVE  HandOver'
  BY <1>s DEF HandOver, Waiting, AfterHello
<1>1. CASE MonCheck
  BY <1>1 DEF MonCheck, HandOver, Waiting, Past, AfterHello
<1>2. CASE MonPop
  <2>1. PICK t \in Tasks : t = Head(sq) /\ fetched' = Append(fetched, t)
    BY <1>2, TailRange DEF MonPop, TypeOK
  <2>2. fetched' # <<>> /\ fetched'[Len(fetched')] = t
    BY <2>1, AppendRange, EmptySeq DEF TypeOK
  <2>3. /\ mpc \in Past /\ mpc # "store" /\ mpc' = "store" /\ mtask' = t
        /\ UNCHANGED <<state, slot, apc, atask, executed>>
    BY <1>2, <2>1 DEF MonPop, Past
  <2>4. state = "RunOver"
    BY <2>3 DEF HandOver
  <2>5. ASSUME apc = "finish" PROVE atask \in Hello /\ AfterHello(t)'
    <3>1. atask \in Hello /\ atask = slot
      BY <2>3, <2>4, <2>5 DEF HandOver, Waiting
    <3>2. slot # None
      BY <3>1, SelfTaskAssumption
    <3>3. fetched # <<>> /\ fetched[Len(fetched)] = slot
      BY <2>3, <3>2 DEF HandOver
    <3> QED BY <2>1, <3>1, <3>3, AfterHelloNew
  <2> QED BY <2>2, <2>3, <2>4, <2>5 DEF HandOver, Waiting
<1>3. CASE MonStore
  <2>1. /\ mpc = "store" /\ mpc' = "head" /\ slot' = mtask /\ state' = "Initializing"
        /\ UNCHANGED <<apc, atask, fetched, executed>>
    BY <1>3 DEF MonStore
  <2>2. state = "RunOver"
    BY <2>1 DEF HandOver, Past
  <2>3. mtask \in RangeOf(fetched) /\ mtask # None
    BY <2>1 DEF Places
  <2>4. fetched # <<>>
    BY <2>3 DEF RangeOf
  <2> QED BY <2>1, <2>2, <2>3, <2>4, <1>a DEF HandOver, Waiting, Past
<1>4. CASE ActHead
  BY <1>4 DEF ActHead, HandOver, Waiting, AfterHello
<1>5. CASE ActSettle
  BY <1>5 DEF ActSettle, HandOver, Waiting, AfterHello
<1>6. CASE ActCopy
  BY <1>6 DEF ActCopy, HandOver, Waiting, AfterHello
<1>7. CASE ActInvoke
  <2>1. /\ Waiting /\ atask = slot /\ mpc \notin Past
        /\ UNCHANGED <<slot, atask, mpc, mtask, fetched>>
    BY <1>7 DEF ActInvoke, HandOver, Waiting
  <2>2. apc' = "finish" => state' = state /\ atask # None
    BY <1>7, <2>1 DEF ActInvoke, HandOver
  <2>3. atask # None => slot \in RangeOf(executed')
    BY <1>7, <2>1, AppendRange DEF ActInvoke, TypeOK
  <2> QED BY <1>7, <2>1, <2>2, <2>3 DEF ActInvoke, HandOver, Waiting
<1>8. CASE ActHello
  <2>1. /\ state = "Running" /\ atask = slot /\ atask \in Hello /\ mpc \notin Past
        /\ state' \in {"RunOver", "Stopped"} /\ apc' = "finish"
        /\ UNCHANGED <<slot, atask, mpc, mtask, fetched, executed>>
    BY <1>8 DEF ActHello, HandOver
  <2> QED BY <2>1 DEF HandOver, Past, Waiting
<1>9. CASE FinishSelfTask
  <2>1. /\ apc' = "head" /\ UNCHANGED <<slot, mpc, mtask, fetched, executed>>
        /\ mpc \in Past => state' = "RunOver"
        /\ ~Waiting'
    BY <1>9 DEF FinishSelfTask, HandOver, Waiting, TypeOK
  <2> QED BY <2>1 DEF HandOver
<1>10. CASE Start
  <2>1. /\ UNCHANGED <<state, slot, atask, mtask, fetched, executed>>
        /\ mpc' = mpc \/ (mpc = "off" /\ mpc' = "head")
        /\ apc' = apc \/ apc' = "head"
    BY <1>10 DEF Start
  <2> QED BY <2>1, <1>a DEF HandOver, Waiting, Past
<1>11. CASE ShutJoinSelf
  <2>1. /\ UNCHANGED <<state, slot, atask, mpc, mtask, fetched, executed>> /\ apc' = "off"
    BY <1>11 DEF ShutJoinSelf
  <2> QED BY <2>1 DEF HandOver, Waiting
<1>12. CASE MonLookup \/ MonProbe \/ MonPopFail \/ MonPopDangling
  BY <1>12, <1>s DEF MonLookup, MonProbe, MonPopFail, MonPopDangling, Past
<1>13. CASE ShutBegin \/ InitQueues \/ ShutQueue \/ ShutClear \/ UNCHANGED vars
  BY <1>13, <1>s DEF ShutBegin, InitQueues, ShutQueue, ShutClear
<1>14. ASSUME NEW t \in Tasks, AppendTask(t) PROVE HandOver'
  BY <1>14, <1>s DEF AppendTask
<1> QED
  BY <1>i, <1>1, <1>2, <1>3, <1>4, <1>5, <1>6, <1>7, <1>8, <1>9, <1>10, <1>11, <1>12, <1>13,
     <1>14 DEF Next, Monitor, Action, Exclusive

(* A fetched task leaves the slot unexecuted only behind SayHelloAction. *)
LEMMA LostNext ==
  TypeOK /\ Unborn /\ HandOver /\ LostOnlyAfterHello /\ [Next]_vars => LostOnlyAfterHello'
<1> SUFFICES ASSUME TypeOK, Unborn, HandOver, LostOnlyAfterHello, [Next]_vars, inits' = 1,
                    NEW t, t \in RangeOf(fetched)', t \notin RangeOf(executed)'
             PROVE  (mpc = "store" /\ mtask = t)' \/ (slot = t /\ Waiting)' \/ AfterHello(t)'
  BY DEF LostOnlyAfterHello
<1> DEFINE Goal == (mpc = "store" /\ mtask = t)' \/ (slot = t /\ Waiting)' \/ AfterHello(t)'
<1>i. CASE InitReset
  <2>1. inits = 0 /\ fetched' = fetched
    BY <1>i DEF InitReset, TypeOK
  <2>2. RangeOf(fetched') = {}
    BY <2>1 DEF Unborn, RangeOf
  <2> QED BY <2>2
<1>1. CASE MonPop
  <2>1. PICK x \in Tasks : /\ fetched' = Append(fetched, x)
                           /\ mpc = "pop" /\ mpc' = "store" /\ mtask' = x
                           /\ UNCHANGED <<inits, slot, state, executed>>
    BY <1>1, TailRange DEF MonPop, TypeOK
  <2>2. t = x \/ t \in RangeOf(fetched)
    BY <2>1, AppendRange DEF TypeOK
  <2>3. CASE t # x
    <3>1. (slot = t /\ Waiting) \/ AfterHello(t)
      BY <2>1, <2>2, <2>3 DEF LostOnlyAfterHello
    <3> QED BY <2>1, <3>1, AfterHelloKept DEF Waiting
  <2> QED BY <2>1, <2>3
<1> SUFFICES ASSUME ~InitReset, ~MonPop PROVE Goal
  BY <1>i, <1>1
<1>2. inits = 1 /\ fetched' = fetched
  BY DEF Next, Monitor, MonCheck, MonLookup, MonProbe, MonPopFail,
      MonPopDangling, MonStore, Action, ActHead, ActSettle, ActCopy, ActInvoke, ActHello,
      FinishSelfTask, Start, ShutBegin, Exclusive, InitQueues, ShutJoinSelf, ShutQueue,
      ShutClear, AppendTask
<1>3. AfterHello(t)' = AfterHello(t)
  BY <1>2 DEF AfterHello
<1>4. t \in RangeOf(fetched)
  BY <1>2 DEF RangeOf
<1>s. ASSUME UNCHANGED <<state, slot, mtask, executed>>, mpc = "store" => mpc' = "store"
      PROVE  Goal
  BY <1>s, <1>2, <1>3, <1>4 DEF LostOnlyAfterHello, Waiting
<1>5. CASE MonStore
  <2>1. state = "RunOver"
    BY <1>2, <1>5 DEF MonStore, HandOver, Past
  <2>2. (mpc = "store" /\ mtask = t) \/ AfterHello(t)
    BY <1>2, <1>4, <1>5, <2>1 DEF MonStore, LostOnlyAfterHello, Waiting
  <2> QED BY <1>3, <1>5, <2>2 DEF MonStore, Waiting
<1>6. CASE ActInvoke
  <2>1. atask = slot /\ slot # None
    BY <1>2, <1>6 DEF ActInvoke, HandOver
  <2>2. RangeOf(executed') = RangeOf(executed) \cup {slot}
    BY <1>6, <2>1, AppendRange DEF ActInvoke, TypeOK
  <2>3. (mpc = "store" /\ mtask = t) \/ AfterHello(t)
    BY <1>2, <1>4, <2>2 DEF LostOnlyAfterHello
  <2> QED BY <1>3, <1>6, <2>3 DEF ActInvoke
<1>7. CASE ActHello
  <2>1. ~Waiting /\ UNCHANGED <<mpc, mtask, executed>>
    BY <1>2, <1>7 DEF ActHello, HandOver, Waiting
  <2> QED BY <1>2, <1>3, <1>4, <2>1 DEF LostOnlyAfterHello
<1>8. CASE FinishSelfTask
  <2>1. apc = "finish" /\ UNCHANGED <<slot, mpc, mtask, executed>>
    BY <1>8 DEF FinishSelfTask
  <2>2. slot = t /\ Waiting => AfterHello(t)
    BY <1>2, <2>1 DEF HandOver, Waiting
  <2> QED BY <1>2, <1>3, <1>4, <2>1, <2>2 DEF LostOnlyAfterHello
<1>9. CASE MonCheck \/ MonLookup \/ MonProbe \/ MonPopFail \/ MonPopDangling
  BY <1>9, <1>s DEF MonCheck, MonLookup, MonProbe, MonPopFail, MonPopDangling
<1>10. CASE ActHead \/ ActSettle \/ ActCopy
  BY <1>10, <1>s DEF ActHead, ActSettle, ActCopy
<1>11. CASE Start \/ ShutBegin \/ UNCHANGED vars
  BY <1>11, <1>s DEF Start, ShutBegin
<1>12. CASE Exclusive
  BY <1>12, <1>s DEF Exclusive, InitQueues, ShutJoinSelf, ShutQueue, ShutClear
<1>13. ASSUME NEW x \in Tasks, AppendTask(x) PROVE Goal
  BY <1>13, <1>s DEF AppendTask
<1> QED
  BY <1>5, <1>6, <1>7, <1>8, <1>9, <1>10, <1>11, <1>12, <1>13 DEF Next, Monitor, Action

(* In the first life of the edge a fetched task is held by FetchSelfTask,  *)
(* announced in the slot, executed, or was fetched right behind a task of  *)
(* SayHelloAction: no other order of the two threads loses one.            *)
THEOREM OnlyHelloLoses == Spec => []LostOnlyAfterHello
<1>1. Init0 => Unborn /\ HandOver /\ LostOnlyAfterHello
  BY DEF Init0, Unborn, HandOver, LostOnlyAfterHello, Past, Waiting
<1> QED
  BY <1>1, TypeCorrect, PlacesAndFresh, UnbornNext, HandOverNext, LostNext, PTL DEF Spec
=============================================================================
