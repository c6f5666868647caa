----------------------- MODULE GasDetectorPoll_proofs -----------------------
(***************************************************************************)
(* Proofs about GasDetectorPoll for every list of addresses and any number *)
(* of requests and of pieces on the line.                                  *)
(***************************************************************************)
EXTENDS GasDetectorPoll, SequenceTheorems, TLAPS

USE DEF flags, counters, results, bytes, vars

(* The list of addresses is not empty and its members are the devices. *)
LEMMA AddressFacts ==
  /\ N \in Nat \ {0}
  /\ \A i \in 1..N : Addresses[i] \in Devices
  /\ \A a \in Devices : a \in Int /\ a # None /\ a # Failed
BY GasAssumption DEF N, Devices

(* The constructor. *)
LEMMA TypeInit == Init0 => TypeOK
<1> SUFFICES ASSUME Init0 PROVE TypeOK
  OBVIOUS
<1>1. line \in Seq(Piece) /\ rx \in Seq(Piece) /\ old \in 0..Len(rx)
  BY DEF Init0
<1>2. idx \in 1..N /\ requests \in 0..MaxRequests
  BY AddressFacts, GasAssumption DEF Init0
<1>3. latest \in [Devices -> Devices \cup {None, Failed}]
  BY DEF Init0
<1> QED BY <1>1, <1>2, <1>3 DEF Init0, TypeOK, Pending

(* Reading from the buffer keeps the types, and what has been received     *)
(* before the request comes out first.                                     *)
LEMMA TakeTypes ==
  ASSUME TypeOK, NEW n \in 1..Len(rx), Take(n)
  PROVE  rx' \in Seq(Piece) /\ old' \in 0..Len(rx') /\ (old = 0 => old' = 0)
<1>1. rx' \in Seq(Piece) /\ Len(rx') = Len(rx) - n
  BY SubSeqProperties DEF Take, TypeOK
<1> QED BY <1>1 DEF Take, TypeOK

(* What StoreResult does to the types. *)
LEMMA TypeStore ==
  ASSUME TypeOK, rx' \in Seq(Piece), old' \in 0..Len(rx'),
         NEW reading \in Devices \cup {Failed}, NEW t \in BOOLEAN, NEW c \in BOOLEAN,
         StoreResult(reading, t, c)
  PROVE  TypeOK'
<1>1. Address \in Devices
  BY AddressFacts DEF TypeOK, Address
<1>3. latest' \in [Devices -> Devices \cup {None, Failed}]
  BY <1>1 DEF StoreResult, TypeOK
<1>4. commOk' \in BOOLEAN
  BY DEF StoreResult
<1> QED BY <1>3, <1>4 DEF StoreResult, TypeOK, Pending

(* A reading that ParseResponse accepts is of the address asked. *)
LEMMA ParsedReading ==
  ASSUME TypeOK, NEW d
  PROVE  (IF Valid(got, d) THEN got.from ELSE Failed) \in {Address, Failed}
BY DEF Valid

(* The worker's answer on the line. *)
LEMMA TypeWrite == ASSUME TypeOK, Write PROVE TypeOK'
<1>0. /\ wk' = "readHead"
      /\ UNCHANGED <<call, flags, stopReq, idx, got, rx, old, results>>
  BY DEF Write
<1>1. PICK k \in {"data", "bad"}, len \in 0..2 :
          line' = line \o SubSeq(<<[part |-> "head", from |-> Address, kind |-> k],
                                   [part |-> "body", from |-> Address, kind |-> k]>>, 1, len)
  BY DEF Write
<1> DEFINE a == <<[part |-> "head", from |-> Address, kind |-> k],
                  [part |-> "body", from |-> Address, kind |-> k]>>
<1>2. Address \in Devices
  BY AddressFacts DEF TypeOK, Address
<1>3. a \in Seq(Piece) /\ Len(a) = 2
  BY <1>2 DEF Piece
<1>4. SubSeq(a, 1, len) \in Seq(Piece)
  BY <1>3, SubSeqProperties
<1>5. line' \in Seq(Piece)
  BY <1>1, <1>4, ConcatProperties DEF TypeOK
<1> HIDE DEF a
<1> QED BY <1>0, <1>5 DEF TypeOK, Pending

(* Every step keeps the types. *)
LEMMA TypeNext == TypeOK /\ [Next]_vars => TypeOK'
<1> SUFFICES ASSUME TypeOK, [Next]_vars PROVE TypeOK'
  OBVIOUS
<1>0. Address \in Devices
  BY AddressFacts DEF TypeOK, Address
<1>1. CASE Lifecycle
  <2>1. ASSUME NEW c \in {"stop", "init"}, StopBegin(c) PROVE TypeOK'
    BY <2>1 DEF StopBegin, TypeOK, Pending
  <2>2. CASE StopEnd
    <3>1. rx' \in Seq(Piece) /\ old' \in 0..Len(rx')
      BY <2>2 DEF StopEnd
    <3> QED BY <2>2, <3>1 DEF StopEnd, TypeOK, Pending
  <2>3. ASSUME NEW en \in BOOLEAN, NEW opened \in BOOLEAN, InitEnd(en, opened) PROVE TypeOK'
    <3>1. /\ latest' \in [Devices -> Devices \cup {None, Failed}]
          /\ requests' \in 0..MaxRequests
          /\ successes' = 0 /\ timeouts' = 0 /\ invalids' = 0
          /\ crcErrors' = 0 /\ cycles' = 0
      BY <2>3, GasAssumption DEF InitEnd, Cleared
    <3> QED BY <2>3, <3>1 DEF InitEnd, TypeOK, Pending
  <2>4. CASE StartRefused  BY <2>4 DEF StartRefused, TypeOK, Pending
  <2>5. CASE Start         BY <2>5 DEF Start, TypeOK, Pending
  <2>6. CASE StartFails    BY <2>6 DEF StartFails, TypeOK, Pending
  <2>7. CASE StartWorker   BY <2>7 DEF StartWorker, TypeOK, Pending
  <2> QED BY <1>1, <2>1, <2>2, <2>3, <2>4, <2>5, <2>6, <2>7 DEF Lifecycle
<1>2. CASE WorkerLoop
  <2>1. CASE LoopHead     BY <2>1, AddressFacts DEF LoopHead, TypeOK, Pending
  <2>2. CASE WaitTest \/ WaitSleep \/ WaitStopped
    <3>1. CASE WaitTest     BY <3>1 DEF WaitTest, TypeOK, Pending
    <3>2. CASE WaitSleep    BY <3>2 DEF WaitSleep, TypeOK, Pending
    <3>3. CASE WaitStopped  BY <3>3 DEF WaitStopped, TypeOK, Pending
    <3> QED BY <2>2, <3>1, <3>2, <3>3
  <2>3. CASE WaitOver     BY <2>3, GasAssumption DEF WaitOver, TypeOK, Pending
  <2>4. CASE DiscardRead
    <3>1. rx' \in Seq(Piece) /\ old' \in 0..Len(rx')
      BY <2>4, TakeTypes DEF DiscardRead
    <3> QED BY <2>4, <3>1 DEF DiscardRead, TypeOK, Pending
  <2>5. CASE DiscardDone  BY <2>5 DEF DiscardDone, TypeOK, Pending
  <2>6. CASE Write        BY <2>6, TypeWrite
  <2>7. CASE SendFails
    BY <2>7, TypeStore DEF SendFails, TypeOK
  <2>8. CASE ReadHead
    <3>0. 1 \in 1..Len(rx) /\ got' \in Piece
      BY <2>8 DEF ReadHead, TypeOK
    <3>1. got' \in Piece /\ rx' \in Seq(Piece) /\ old' \in 0..Len(rx')
      BY <2>8, <3>0, TakeTypes DEF ReadHead
    <3> QED BY <2>8, <3>1 DEF ReadHead, TypeOK, Pending
  <2>9. CASE ReadHeadFails
    BY <2>9, TypeStore DEF ReadHeadFails, TypeOK
  <2>10. CASE ReadBodyFails
    BY <2>10, TypeStore DEF ReadBodyFails, TypeOK
  <2>11. CASE ParseResponse
    <3>0. 1 \in 1..Len(rx)
      BY <2>11 DEF ParseResponse, TypeOK
    <3>1. rx' \in Seq(Piece) /\ old' \in 0..Len(rx')
      BY <2>11, <3>0, TakeTypes DEF ParseResponse
    <3>2. PICK c \in BOOLEAN :
             StoreResult(IF Valid(got, Head(rx)) THEN got.from ELSE Failed, FALSE, c)
      BY <2>11 DEF ParseResponse
    <3> QED BY <1>0, <3>1, <3>2, ParsedReading, TypeStore
  <2>12. CASE NextAddress  BY <2>12, AddressFacts DEF NextAddress, TypeOK, Pending
  <2>13. CASE CycleDone    BY <2>13 DEF CycleDone, TypeOK, Pending
  <2> QED BY <1>2, <2>1, <2>2, <2>3, <2>4, <2>5, <2>6, <2>7, <2>8, <2>9, <2>10, <2>11,
             <2>12, <2>13 DEF WorkerLoop
<1>3. CASE WorkerThrows
  <2>1. idx' \in 1..N
    BY <1>3, AddressFacts DEF WorkerThrows
  <2> QED BY <1>3, <2>1 DEF WorkerThrows, TypeOK, Pending
<1>4. CASE Arrive
  <2>1. /\ line' \in Seq(Piece)
        /\ rx' \in Seq(Piece) /\ Len(rx) <= Len(rx')
    BY <1>4 DEF Arrive, TypeOK
  <2> QED BY <1>4, <2>1 DEF Arrive, TypeOK, Pending
<1>5. CASE UNCHANGED vars  BY <1>5 DEF TypeOK, Pending
<1> QED BY <1>1, <1>2, <1>3, <1>4, <1>5 DEF Next

(* Every variable keeps its type; in particular a stored reading is that   *)
(* of a device of the configuration.                                       *)
THEOREM TypeCorrect == Spec => []TypeOK
BY TypeInit, TypeNext, PTL DEF Spec
-----------------------------------------------------------------------------
(* A live worker belongs to an initialized, enabled object; between the    *)
(* two halves of Init there is no worker and nothing claims one, and while *)
(* Start creates one everything is ready for it.                           *)
StatusInv ==
    /\ StatusTruthful
    /\ wk \notin {"off", "exit"} => initialized /\ enabled
    /\ call = "configure" => wk = "off" /\ ~running /\ ~commOk
    /\ call = "start" => /\ wk = "off" /\ initialized /\ enabled /\ open
                         /\ running /\ ~commOk /\ state = "Running"

(* What the steps that end in StoreResult have in common: a request was    *)
(* pending and gets a reading of its own address or fails.                 *)
StoreStep ==
    /\ wk \in Pending
    /\ \E reading \in {Address, Failed}, t, c \in BOOLEAN :
          /\ ~(t /\ c)
          /\ reading # Failed => ~t /\ ~c
          /\ StoreResult(reading, t, c)

(* The four ways a request ends are such steps. *)
LEMMA StoreSteps ==
  ASSUME TypeOK, SendFails \/ ReadHeadFails \/ ReadBodyFails \/ ParseResponse
  PROVE  StoreStep
<1>0. Address # Failed
  BY AddressFacts DEF TypeOK, Address
<1>1. CASE SendFails      BY <1>1 DEF SendFails, StoreStep, Pending
<1>2. CASE ReadHeadFails  BY <1>2 DEF ReadHeadFails, StoreStep, Pending
<1>3. CASE ReadBodyFails  BY <1>3 DEF ReadBodyFails, StoreStep, Pending
<1>4. CASE ParseResponse
  <2>1. PICK c \in BOOLEAN :
          /\ c => ~Reading(got, Head(rx))
          /\ StoreResult(IF Valid(got, Head(rx)) THEN got.from ELSE Failed, FALSE, c)
    BY <1>4 DEF ParseResponse
  <2>2. CASE Valid(got, Head(rx))
    <3>1. ~c /\ StoreResult(Address, FALSE, FALSE)
      BY <2>1, <2>2 DEF Valid
    <3> QED BY <1>0, <1>4, <3>1 DEF ParseResponse, StoreStep, Pending
  <2>3. CASE ~Valid(got, Head(rx))
    BY <1>4, <2>1, <2>3 DEF ParseResponse, StoreStep, Pending
  <2> QED BY <2>2, <2>3
<1> QED BY <1>1, <1>2, <1>3, <1>4

(* Start, Stop, Init, the worker and its exception keep StatusInv. *)
LEMMA StatusNext == TypeOK /\ StatusInv /\ [Next]_vars => StatusInv'
<1> SUFFICES ASSUME TypeOK, StatusInv, [Next]_vars PROVE StatusInv'
  OBVIOUS
<1> USE DEF StatusInv, StatusTruthful
<1>1. CASE Lifecycle
  <2>1. ASSUME NEW c \in {"stop", "init"}, StopBegin(c) PROVE StatusInv'
    BY <2>1 DEF StopBegin
  <2>2. CASE StopEnd  BY <2>2 DEF StopEnd
  <2>3. ASSUME NEW en \in BOOLEAN, NEW opened \in BOOLEAN, InitEnd(en, opened)
        PROVE  StatusInv'
    BY <2>3 DEF InitEnd
  <2>4. CASE StartRefused
    <3>1. wk \notin {"off", "exit"} => state' = state
      BY <2>4 DEF StartRefused
    <3> QED BY <2>4, <3>1 DEF StartRefused
  <2>5. CASE Start       BY <2>5 DEF Start, CanStart
  <2>6. CASE StartFails  BY <2>6 DEF StartFails
  <2>7. CASE StartWorker  BY <2>7 DEF StartWorker
  <2> QED BY <1>1, <2>1, <2>2, <2>3, <2>4, <2>5, <2>6, <2>7 DEF Lifecycle
<1>2. CASE SendFails \/ ReadHeadFails \/ ReadBodyFails \/ ParseResponse
  <2>1. /\ wk \in Pending /\ wk' = "next"
        /\ UNCHANGED <<call, initialized, enabled, running, state, open, stopReq>>
    BY <1>2, StoreSteps DEF StoreStep, StoreResult
  <2> QED BY <2>1 DEF Pending
<1>3. CASE LoopHead \/ WaitTest \/ WaitSleep \/ WaitStopped \/ WaitOver \/ DiscardRead
           \/ DiscardDone \/ Write \/ ReadHead \/ NextAddress \/ CycleDone
  <2>1. /\ wk \notin {"off", "exit"} /\ wk' # "off" /\ (wk' = "exit" => stopReq)
        /\ UNCHANGED <<call, flags, stopReq>>
    BY <1>3 DEF LoopHead, WaitTest, WaitSleep, WaitStopped, WaitOver, DiscardRead,
                DiscardDone, Write, ReadHead, NextAddress, CycleDone
  <2> QED BY <2>1
<1>4. CASE WorkerThrows  BY <1>4 DEF WorkerThrows
<1>5. CASE Arrive        BY <1>5 DEF Arrive
<1>6. CASE UNCHANGED vars  BY <1>6
<1> QED BY <1>1, <1>2, <1>3, <1>4, <1>5, <1>6 DEF Next, WorkerLoop

(* running_, state_ and the port agree with the existence of the worker in *)
(* every order of Init, Start, Stop, thread creation failures and          *)
(* exceptions.                                                             *)
THEOREM StatusCorrect == Spec => []StatusTruthful
<1>1. Init0 => TypeOK /\ StatusInv
  BY TypeInit DEF Init0, StatusInv, StatusTruthful
<1>2. (TypeOK /\ StatusInv) /\ [Next]_vars => (TypeOK /\ StatusInv)'
  BY TypeNext, StatusNext
<1> QED BY <1>1, <1>2, PTL DEF Spec, StatusInv
-----------------------------------------------------------------------------
(* The reading shown for an address is of that address, however late,      *)
(* short or damaged the answers are, for every list of addresses.          *)
THEOREM ReadingsAreOwn == Spec => []OwnReading
<1>1. Init0 => TypeOK /\ OwnReading
  BY TypeInit DEF Init0, OwnReading
<1>2. TypeOK /\ OwnReading /\ [Next]_vars => OwnReading'
  <2> SUFFICES ASSUME TypeOK, OwnReading, [Next]_vars PROVE OwnReading'
    OBVIOUS
  <2>1. CASE SendFails \/ ReadHeadFails \/ ReadBodyFails \/ ParseResponse
    <3>1. PICK reading \in {Address, Failed} : latest' = [latest EXCEPT ![Address] = reading]
      BY <2>1, StoreSteps DEF StoreStep, StoreResult
    <3> QED BY <3>1 DEF OwnReading, TypeOK
  <2>2. ASSUME NEW en \in BOOLEAN, NEW opened \in BOOLEAN, InitEnd(en, opened)
        PROVE  OwnReading'
    BY <2>2 DEF InitEnd, Cleared, OwnReading
  <2>3. CASE latest' = latest
    BY <2>3 DEF OwnReading
  <2>4. \/ SendFails \/ ReadHeadFails \/ ReadBodyFails \/ ParseResponse
        \/ \E en, opened \in BOOLEAN : InitEnd(en, opened)
        \/ latest' = latest
    BY DEF Next, Lifecycle, WorkerLoop, StopBegin, StopEnd, StartRefused, Start,
           StartWorker, StartFails, LoopHead, WaitTest, WaitSleep, WaitStopped, WaitOver,
           DiscardRead, DiscardDone, Write,
           ReadHead, NextAddress, CycleDone, WorkerThrows, Arrive
  <2> QED BY <2>1, <2>2, <2>3, <2>4
<1> QED BY <1>1, <1>2, TypeNext, PTL DEF Spec

(* Nothing the port received before the request was begun, since Init      *)
(* opened it and through every wait, is left to be read as the answer once *)
(* DiscardInputBuffer has succeeded.                                       *)
THEOREM OldBytesNeverRead == Spec => []OldBytesDiscarded
<1>1. Init0 => TypeOK /\ OldBytesDiscarded
  BY TypeInit DEF Init0, OldBytesDiscarded
<1>2. TypeOK /\ OldBytesDiscarded /\ [Next]_vars => OldBytesDiscarded'
  <2> SUFFICES ASSUME TypeOK, OldBytesDiscarded, [Next]_vars PROVE OldBytesDiscarded'
    OBVIOUS
  <2> USE DEF OldBytesDiscarded
  <2>1. CASE SendFails \/ ReadHeadFails \/ ReadBodyFails \/ ParseResponse
    <3>1. wk' = "next"
      BY <2>1, StoreSteps DEF StoreStep, StoreResult
    <3> QED BY <3>1
  <2>2. CASE DiscardDone
    BY <2>2 DEF DiscardDone, TypeOK
  <2>3. CASE ReadHead
    <3>1. 1 \in 1..Len(rx)
      BY <2>3 DEF ReadHead, TypeOK
    <3> QED BY <2>3, <3>1, TakeTypes DEF ReadHead
  <2>4. CASE old' = old /\ (wk' \in {"write", "readHead", "readBody"} =>
                               wk \in {"write", "readHead", "readBody"})
    BY <2>4
  <2>5. CASE wk' \notin {"write", "readHead", "readBody"}
    BY <2>5
  <2>6. \/ SendFails \/ ReadHeadFails \/ ReadBodyFails \/ ParseResponse
        \/ DiscardDone \/ ReadHead
        \/ old' = old /\ (wk' \in {"write", "readHead", "readBody"} =>
                               wk \in {"write", "readHead", "readBody"})
        \/ wk' \notin {"write", "readHead", "readBody"}
    BY DEF Next, Lifecycle, WorkerLoop, StopBegin, StopEnd, InitEnd, StartRefused, Start,
           StartWorker, StartFails, LoopHead, WaitTest, WaitSleep, WaitStopped, WaitOver,
           DiscardRead, Write,
           NextAddress, CycleDone, WorkerThrows, Arrive
  <2> QED BY <2>1, <2>2, <2>3, <2>4, <2>5, <2>6
<1> QED BY <1>1, <1>2, TypeNext, PTL DEF Spec
-----------------------------------------------------------------------------
(* Results stored so far, and those of the round in progress. *)
Stored == successes + invalids
InRound == Stored - cycles * N

(* The places of the worker in WaitUntil. *)
Waits == {"wait", "doze", "asleep"}

(* The inductive form of StatisticsAgree: where the worker is tells how    *)
(* many results the round in progress has stored, for which addresses, and *)
(* whether a request is pending.  A worker starts with cleared counters.   *)
StatInv ==
    /\ InRound >= 0
    /\ wk \in Pending => InRound = idx - 1 /\ requests = Stored + 1
    /\ wk \in Waits => InRound = idx - 1 /\ requests = Stored
    /\ wk = "next" => InRound = idx /\ requests = Stored
    /\ wk = "head" => requests = Stored /\ (~stopReq => InRound = 0)
    /\ wk = "exit" /\ running => requests = Stored
    /\ requests - Stored \in {0, 1}
    /\ wk = "off" /\ initialized =>
          requests = 0 /\ successes = 0 /\ invalids = 0 /\ cycles = 0
    /\ timeouts + crcErrors <= invalids
    /\ cycles > 0 => \A a \in Devices : latest[a] # None
    /\ wk \in Pending \cup Waits => \A i \in 1..(idx - 1) : latest[Addresses[i]] # None
    /\ wk = "next" => \A i \in 1..idx : latest[Addresses[i]] # None

(* With the types, a round more is N results more. *)
LEMMA RoundArithmetic ==
  ASSUME TypeOK
  PROVE  /\ cycles * N \in Nat
         /\ (cycles + 1) * N = cycles * N + N
BY AddressFacts DEF TypeOK

(* StatInv says what StatisticsAgree says. *)
LEMMA StatImplies == TypeOK /\ StatusInv /\ StatInv => StatisticsAgree
<1> SUFFICES ASSUME TypeOK, StatusInv, StatInv PROVE StatisticsAgree
  OBVIOUS
<1>1. cycles * N \in Nat
  BY RoundArithmetic
<1>2. Stored \in Nat
  BY DEF TypeOK, Stored
<1>3. wk \in Pending => Stored = requests - 1 /\ Stored = cycles * N + idx - 1
  BY <1>1, <1>2 DEF StatInv, InRound, TypeOK
<1>4. wk \notin Pending => Stored = requests \/ (wk \in {"off", "exit"} /\ ~running)
  BY <1>2 DEF StatInv, TypeOK, StatusInv, StatusTruthful, Pending, Waits, Stored
<1>5. Stored \in {requests - 1, requests} /\ cycles * N <= Stored
  BY <1>1, <1>2 DEF StatInv, InRound, TypeOK
<1> QED BY <1>1, <1>2, <1>3, <1>4, <1>5 DEF StatisticsAgree, StatInv, Stored, TypeOK

(* StoreResult ends the pending request: one more result in this round. *)
LEMMA StatStore == ASSUME TypeOK, StatInv, StoreStep PROVE StatInv'
<1>1. PICK reading \in {Address, Failed}, t \in BOOLEAN, c \in BOOLEAN :
          /\ ~(t /\ c)
          /\ reading # Failed => ~t /\ ~c
          /\ StoreResult(reading, t, c)
  BY DEF StoreStep
<1>2. Address \in Devices /\ Address # None /\ Failed # None /\ Address # Failed
  BY AddressFacts, GasAssumption DEF TypeOK, Address
<1>3. cycles * N \in Nat
  BY RoundArithmetic
<1>4. wk \in Pending /\ wk' = "next" /\ idx' = idx /\ cycles' = cycles
      /\ requests' = requests
  BY <1>1 DEF StoreStep, StoreResult
<1>5. Stored' = Stored + 1 /\ Stored \in Nat
  BY <1>1 DEF StoreResult, TypeOK, Stored
<1>6. InRound' = InRound + 1 /\ InRound' = idx' /\ requests' = Stored'
  <2>1. InRound' = InRound + 1 /\ InRound \in Int
    BY <1>3, <1>4, <1>5 DEF InRound
  <2>2. InRound = idx - 1 /\ requests = Stored + 1
    BY <1>4 DEF StatInv
  <2> QED BY <1>4, <1>5, <2>1, <2>2 DEF TypeOK
<1>7. timeouts' + crcErrors' <= invalids'
  BY <1>1 DEF StatInv, StoreResult, TypeOK
<1>8. latest' = [latest EXCEPT ![Address] = reading] /\ reading # None
  BY <1>1, <1>2 DEF StoreResult
<1>9. cycles' > 0 => \A a \in Devices : latest'[a] # None
  BY <1>2, <1>4, <1>8 DEF StatInv, TypeOK
<1>10. \A i \in 1..idx' : latest'[Addresses[i]] # None
  <2> SUFFICES ASSUME NEW i \in 1..idx PROVE latest'[Addresses[i]] # None
    BY <1>4
  <2>1. Addresses[i] \in Devices
    BY AddressFacts DEF TypeOK
  <2>2. CASE i = idx
    BY <1>8, <2>1, <2>2 DEF Address, TypeOK
  <2>3. CASE i # idx
    <3>1. i \in 1..(idx - 1)
      BY <2>3 DEF TypeOK
    <3>2. latest[Addresses[i]] # None
      BY <1>4, <3>1 DEF StatInv
    <3> QED BY <1>8, <2>1, <3>2 DEF TypeOK
  <2> QED BY <2>2, <2>3
<1>11. idx \in Nat
  BY AddressFacts DEF TypeOK
<1> QED BY <1>4, <1>5, <1>6, <1>7, <1>9, <1>10, <1>11 DEF StatInv, Pending, Waits, TypeOK

(* StatInv is inductive. *)
LEMMA StatNext == TypeOK /\ StatusInv /\ StatInv /\ [Next]_vars => StatInv'
<1> SUFFICES ASSUME TypeOK, StatusInv, StatInv, [Next]_vars PROVE StatInv'
  OBVIOUS
<1>0. cycles * N \in Nat /\ (cycles + 1) * N = cycles * N + N /\ N \in Nat \ {0}
  BY RoundArithmetic, AddressFacts
<1>1. CASE UNCHANGED counters /\ latest' = latest
  <2>1. /\ Stored' = Stored /\ InRound' = InRound
        /\ UNCHANGED <<requests, successes, invalids, cycles, timeouts, crcErrors, latest>>
    BY <1>1 DEF Stored, InRound
  <2>2. CASE UNCHANGED <<wk, idx, stopReq, running, initialized>>
    BY <2>1, <2>2 DEF StatInv, Pending, Waits
  <2>3. ASSUME NEW c \in {"stop", "init"}, StopBegin(c) PROVE StatInv'
    BY <2>1, <2>3 DEF StopBegin, StatInv, Pending, Waits
  <2>4. CASE StopEnd      BY <2>1, <2>4 DEF StopEnd, StatInv, Pending, Waits
  <2>5. CASE Start
    BY <2>1, <2>5, <1>0 DEF Start, CanStart, StatInv, Pending, Waits, Stored, InRound
  <2>6. CASE StartFails
    BY <2>1, <2>6 DEF StartFails, StatusInv, StatInv, Pending, Waits
  <2>15. CASE StartWorker
    BY <2>1, <2>15, <1>0 DEF StartWorker, StatusInv, StatInv, Pending, Waits, Stored, InRound
  <2>7. CASE LoopHead
    BY <2>1, <2>7 DEF LoopHead, StatInv, Pending, Waits
  <2>8. CASE WaitTest \/ WaitSleep \/ WaitStopped
    BY <2>1, <2>8 DEF WaitTest, WaitSleep, WaitStopped, StatInv, Pending, Waits
  <2>9. CASE DiscardDone \/ Write \/ ReadHead
    <3>1. wk \in Pending /\ wk' \in Pending /\ UNCHANGED <<idx, stopReq, running, initialized>>
      BY <2>9 DEF DiscardDone, Write, ReadHead, Pending
    <3> QED BY <2>1, <3>1 DEF StatInv, Pending, Waits
  <2>10. CASE NextAddress
    <3>1. idx' - 1 = idx /\ idx' \in Nat
      BY <2>10, AddressFacts DEF NextAddress, TypeOK
    <3> QED BY <2>1, <2>10, <3>1 DEF NextAddress, StatInv, Pending, Waits
  <2>11. CASE WorkerThrows  BY <2>1, <2>11 DEF WorkerThrows, StatInv, Pending, Waits
  <2>12. \/ UNCHANGED <<wk, idx, stopReq, running, initialized>>
         \/ \E c \in {"stop", "init"} : StopBegin(c)
         \/ StopEnd \/ Start \/ StartWorker \/ StartFails
         \/ LoopHead \/ WaitTest \/ WaitSleep \/ WaitStopped
         \/ DiscardDone \/ Write \/ ReadHead \/ NextAddress \/ WorkerThrows
         \/ \E en, opened \in BOOLEAN : InitEnd(en, opened)
         \/ WaitOver \/ CycleDone \/ StoreStep
    BY StoreSteps DEF Next, Lifecycle, WorkerLoop, StartRefused, DiscardRead, Arrive
  <2>13. ASSUME NEW en \in BOOLEAN, NEW opened \in BOOLEAN, InitEnd(en, opened)
         PROVE  StatInv'
    BY <1>1, <1>0, <2>13
       DEF InitEnd, Cleared, StatInv, Stored, InRound, StatusInv, Pending, Waits
  <2>14. ~(WaitOver \/ CycleDone)
    BY <1>1 DEF WaitOver, CycleDone, TypeOK
  <2> QED BY <2>2, <2>3, <2>4, <2>5, <2>6, <2>7, <2>8, <2>9, <2>10, <2>11, <2>12, <2>13,
             <2>14, <2>15, StatStore
<1>2. ASSUME NEW en \in BOOLEAN, NEW opened \in BOOLEAN, InitEnd(en, opened)
      PROVE  StatInv'
  BY <1>0, <1>2 DEF InitEnd, Cleared, StatInv, Stored, InRound, StatusInv, Pending, Waits
<1>3. CASE WaitOver
  <2>1. Stored' = Stored /\ InRound' = InRound /\ requests' = requests + 1
    BY <1>3 DEF WaitOver, Stored, InRound
  <2> QED BY <1>3, <2>1 DEF WaitOver, StatInv, Pending, Waits, TypeOK, Stored
<1>4. CASE CycleDone
  <2>1. Stored' = Stored /\ InRound' = 0 /\ Stored \in Nat
    BY <1>0, <1>4 DEF CycleDone, Stored, InRound, StatInv, TypeOK
  <2>2. \A a \in Devices : latest[a] # None
    BY <1>4 DEF CycleDone, StatInv, Devices
  <2> QED BY <1>4, <2>1, <2>2 DEF CycleDone, StatInv, Pending, Waits, TypeOK
<1>5. CASE StoreStep
  BY <1>5, StatStore
<1>6. \/ UNCHANGED counters /\ latest' = latest
      \/ \E en, opened \in BOOLEAN : InitEnd(en, opened)
      \/ WaitOver \/ CycleDone \/ StoreStep
  BY StoreSteps
     DEF Next, Lifecycle, WorkerLoop, StopBegin, StopEnd, StartRefused, Start,
         StartWorker, StartFails, LoopHead, WaitTest, WaitSleep, WaitStopped, DiscardRead,
         DiscardDone, Write,
         ReadHead, NextAddress, WorkerThrows, Arrive
<1> QED BY <1>1, <1>2, <1>3, <1>4, <1>5, <1>6

(* The statistics agree with each other and with the readings, for any     *)
(* number of addresses, requests, restarts and exceptions.                 *)
THEOREM StatisticsCorrect == Spec => []StatisticsAgree
<1>1. Init0 => TypeOK /\ StatusInv /\ StatInv
  <2> SUFFICES ASSUME Init0 PROVE StatusInv /\ StatInv
    BY TypeInit
  <2>1. Stored = 0 /\ InRound = 0
    BY AddressFacts DEF Init0, Stored, InRound
  <2> QED BY <2>1 DEF Init0, StatusInv, StatusTruthful, StatInv, Pending, Waits
<1>2. (TypeOK /\ StatusInv /\ StatInv) /\ [Next]_vars => (TypeOK /\ StatusInv /\ StatInv)'
  BY TypeNext, StatusNext, StatNext
<1>3. TypeOK /\ StatusInv /\ StatInv => StatisticsAgree
  BY StatImplies
<1> QED BY <1>1, <1>2, <1>3, PTL DEF Spec
=============================================================================
