--------------------------- MODULE GasDetectorPoll ---------------------------
(***************************************************************************)
(* my_gas_detector_poll (MyGasDetectorPoll.cpp): a worker polls gas        *)
(* sensors, one address after another, over a half-duplex serial line with *)
(* Modbus requests.  An answer may be late, cut short, corrupted or        *)
(* missing; the worker gives up at a deadline and goes on to the next      *)
(* address.  Init, Start and Stop are serialised by lifecycle_mutex_; Stop *)
(* asks the worker to end and joins it before it closes the port.          *)
(*                                                                         *)
(* An answer is two pieces on the line, the three header bytes and the     *)
(* rest; of its registers only the device that measured them is kept.  A   *)
(* bad answer is corrupted, a Modbus exception, or of another function or  *)
(* length.                                                                 *)
(* Deadlines pass at any moment.  A header cut short is a header read and  *)
(* a body that does not come.                                              *)
(***************************************************************************)
EXTENDS Integers, Sequences

CONSTANTS
    Addresses,    \* config.addresses, a sequence
    MaxRequests,  \* bound of the model: requests between two Inits
    MaxLine,      \* bound of the model: pieces on the line
    None, Failed  \* nothing; an entry of latest_results_ after a failed request

ASSUME GasAssumption ==
    /\ Addresses \in Seq(Int) /\ Len(Addresses) > 0
    /\ MaxRequests \in Nat /\ MaxLine \in Nat
    /\ None \notin Int /\ Failed \notin Int /\ None # Failed

N == Len(Addresses)
Devices == {Addresses[i] : i \in 1..N}

VARIABLES
    call,         \* the lifecycle call in progress and where it is
    initialized, enabled, running, commOk, state, open,
    stopReq,      \* stop_requested_
    wk,           \* the worker; "off" when worker_ is not joinable
    idx,          \* position in the round over the addresses
    got,          \* the header the worker has read
    line,         \* pieces the devices have sent and the port has not received
    rx,           \* the receive buffer of the port
    old,          \* history: pieces of rx received before the request was begun
    latest,       \* latest_results_: the device whose reading an entry shows
    requests, successes, timeouts, invalids, crcErrors, cycles

flags    == <<initialized, enabled, running, commOk, state, open>>
counters == <<requests, successes, timeouts, invalids, crcErrors, cycles>>
results  == <<latest, counters>>
bytes    == <<line, rx, old>>
vars     == <<call, flags, stopReq, wk, idx, got, bytes, results>>

Piece == [part : {"head", "body"}, from : Devices, kind : {"data", "bad"}]

Cleared ==
    /\ latest' = [a \in Devices |-> None]
    /\ requests' = 0 /\ successes' = 0 /\ timeouts' = 0
    /\ invalids' = 0 /\ crcErrors' = 0 /\ cycles' = 0

Init0 ==
    /\ call = "none"
    /\ initialized = FALSE /\ enabled = FALSE /\ running = FALSE
    /\ commOk = FALSE /\ state = "Uninitialized" /\ open = FALSE
    /\ stopReq = FALSE
    /\ wk = "off" /\ idx = 1
    /\ got = None
    /\ line = <<>> /\ rx = <<>> /\ old = 0
    /\ latest = [a \in Devices |-> None]
    /\ requests = 0 /\ successes = 0 /\ timeouts = 0
    /\ invalids = 0 /\ crcErrors = 0 /\ cycles = 0

Address == Addresses[idx]
-----------------------------------------------------------------------------
(* Lifecycle calls. *)

(* StopInternalLocked, called by Stop, by the destructor and by Init (after *)
(* ParseConfig has accepted the configuration), up to the join.  The flag  *)
(* and the notification do without wait_mutex_: the notification reaches a *)
(* worker that sleeps, not one that is about to.                           *)
StopBegin(c) ==
    /\ call = "none"
    /\ call' = c
    /\ stopReq' = TRUE
    /\ wk' = IF wk = "asleep" THEN "wait" ELSE wk
    /\ UNCHANGED <<flags, idx, got, bytes, results>>

(* The worker is joined; close the port, reset the state. *)
StopEnd ==
    /\ call \in {"stop", "init"}
    /\ wk \in {"off", "exit"}
    /\ wk' = "off"
    /\ initialized' = FALSE /\ running' = FALSE /\ commOk' = FALSE
    /\ state' = "Uninitialized" /\ open' = FALSE
    /\ rx' = <<>> /\ old' = 0
    /\ stopReq' = FALSE
    /\ call' = IF call = "init" THEN "configure" ELSE "none"
    /\ UNCHANGED <<enabled, idx, got, line, results>>

(* The rest of Init: the configuration is disabled, or the port is opened, *)
(* which may fail.                                                         *)
InitEnd(en, opened) ==
    /\ call = "configure"
    /\ call' = "none"
    /\ enabled' = en
    /\ Cleared
    /\ initialized' = (~en \/ opened)
    /\ open' = (en /\ opened)
    /\ state' = IF ~en THEN "Disabled" ELSE IF opened THEN "Initialized" ELSE "Error"
    /\ UNCHANGED <<running, commOk, stopReq, wk, idx, got, bytes>>

(* A Start that starts nothing: not initialized, disabled, a worker is     *)
(* there (also one that has ended with an exception and was not joined),   *)
(* or the port is not open.                                                *)
StartRefused ==
    /\ call = "none"
    /\ ~initialized \/ ~enabled \/ running \/ wk # "off" \/ ~open
    /\ state' = CASE ~initialized           -> "Error"
                  [] initialized /\ ~enabled -> "Disabled"
                  [] initialized /\ enabled  -> IF running \/ wk # "off" THEN state
                                                                        ELSE "Error"
    /\ UNCHANGED <<call, initialized, enabled, running, commOk, open, stopReq, wk, idx,
                   got, bytes, results>>

CanStart ==
    call = "none" /\ initialized /\ enabled /\ ~running /\ wk = "off" /\ open

(* The flags say Running before there is a worker ... *)
Start ==
    /\ CanStart
    /\ call' = "start"
    /\ stopReq' = FALSE
    /\ running' = TRUE /\ commOk' = FALSE /\ state' = "Running"
    /\ UNCHANGED <<initialized, enabled, open, wk, idx, got, bytes, results>>

(* ... which is created, *)
StartWorker ==
    /\ call = "start"
    /\ call' = "none"
    /\ wk' = "head"
    /\ UNCHANGED <<flags, stopReq, idx, got, bytes, results>>

(* or std::thread throws. *)
StartFails ==
    /\ call = "start"
    /\ call' = "none"
    /\ stopReq' = TRUE
    /\ running' = FALSE /\ state' = "Error"
    /\ UNCHANGED <<initialized, enabled, commOk, open, wk, idx, got, bytes, results>>

Lifecycle ==
    \/ \E c \in {"stop", "init"} : StopBegin(c)
    \/ StopEnd
    \/ \E en, opened \in BOOLEAN : InitEnd(en, opened)
    \/ StartRefused \/ Start \/ StartWorker \/ StartFails
-----------------------------------------------------------------------------
(* WorkerLoop. *)

LoopHead ==
    /\ wk = "head"
    /\ wk' = IF stopReq THEN "exit" ELSE "wait"
    /\ idx' = 1
    /\ UNCHANGED <<call, flags, stopReq, got, bytes, results>>

(* WaitUntil tests the flag under wait_mutex_ ... *)
WaitTest ==
    /\ wk = "wait"
    /\ wk' = IF stopReq THEN "head" ELSE "doze"
    /\ UNCHANGED <<call, flags, stopReq, idx, got, bytes, results>>

(* ... and sleeps; what was notified in between is missed. *)
WaitSleep ==
    /\ wk = "doze"
    /\ wk' = "asleep"
    /\ UNCHANGED <<call, flags, stopReq, idx, got, bytes, results>>

(* A plausible slip: a round cut short is counted as well. *)
WaitStoppedCounts ==
    /\ wk = "asleep" /\ stopReq
    /\ wk' = "head"
    /\ cycles' = cycles + 1
    /\ UNCHANGED <<call, flags, stopReq, idx, got, bytes, latest, requests, successes,
                   timeouts, invalids, crcErrors>>

(* A plausible slip: the sleep has no deadline, only the notification ends *)
(* it.                                                                     *)
WaitStoppedByNotify ==
    /\ FALSE
    /\ UNCHANGED vars

(* At the deadline the flag is tested again: Stop has come, the round is   *)
(* not complete;                                                           *)
WaitStopped ==
    /\ wk = "asleep" /\ stopReq
    /\ wk' = "head"
    /\ UNCHANGED <<call, flags, stopReq, idx, got, bytes, results>>

(* or it is time for the next request. *)
WaitOver ==
    /\ wk = "asleep" /\ ~stopReq
    /\ requests < MaxRequests
    /\ requests' = requests + 1
    /\ wk' = "discard"
    /\ old' = Len(rx)
    /\ UNCHANGED <<call, flags, stopReq, idx, got, line, rx, latest, successes, timeouts,
                   invalids, crcErrors, cycles>>

(* The port hands out the first n pieces of its buffer. *)
Take(n) ==
    /\ rx' = SubSeq(rx, n + 1, Len(rx))
    /\ old' = IF n < old THEN old - n ELSE 0

(* A plausible slip: DiscardInputBuffer reads once. *)
DiscardReadOnce ==
    /\ wk = "discard" /\ ~stopReq
    /\ \E n \in 1..Len(rx) : Take(n)
    /\ wk' = "write"
    /\ UNCHANGED <<call, flags, stopReq, idx, got, line, results>>

(* DiscardInputBuffer reads what is there, at most 512 bytes at a time, *)
DiscardRead ==
    /\ wk = "discard" /\ ~stopReq
    /\ \E n \in 1..Len(rx) : Take(n)
    /\ UNCHANGED <<call, flags, stopReq, wk, idx, got, line, results>>

(* until there is nothing. *)
DiscardDone ==
    /\ wk = "discard" /\ ~stopReq
    /\ rx = <<>>
    /\ wk' = "write"
    /\ UNCHANGED <<call, flags, stopReq, idx, got, bytes, results>>

(* The request is written; the device answers, or not, or not completely.  *)
Write ==
    /\ wk = "write"
    /\ wk' = "readHead"
    /\ \E k \in {"data", "bad"}, len \in 0..2 :
          line' = line \o SubSeq(<<[part |-> "head", from |-> Address, kind |-> k],
                                   [part |-> "body", from |-> Address, kind |-> k]>>, 1, len)
    /\ Len(line') <= MaxLine
    /\ UNCHANGED <<call, flags, stopReq, idx, got, rx, old, results>>

(* ReadUpTo(3): something that serves as a header. *)
ReadHead ==
    /\ wk = "readHead" /\ ~stopReq
    /\ rx # <<>>
    /\ got' = Head(rx)
    /\ Take(1)
    /\ wk' = "readBody"
    /\ UNCHANGED <<call, flags, stopReq, idx, line, results>>
-----------------------------------------------------------------------------
(* StoreResult: a reading of a device, or Failed. *)
StoreResult(reading, timeout, crcError) ==
    /\ latest' = [latest EXCEPT ![Address] = reading]
    /\ commOk' = (reading # Failed)
    /\ successes' = IF reading # Failed THEN successes + 1 ELSE successes
    /\ invalids' = IF reading = Failed THEN invalids + 1 ELSE invalids
    /\ timeouts' = IF timeout THEN timeouts + 1 ELSE timeouts
    /\ crcErrors' = IF crcError THEN crcErrors + 1 ELSE crcErrors
    /\ wk' = "next"
    /\ got' = None
    /\ UNCHANGED <<call, initialized, enabled, running, state, open, stopReq, idx, line,
                   requests, cycles>>

(* A plausible slip: a request that was not sent stores no result. *)
SendFailsUnstored ==
    /\ wk \in {"discard", "write"}
    /\ wk' = "next"
    /\ UNCHANGED <<call, flags, stopReq, idx, got, bytes, results>>

(* The buffer or the port fails, or Stop interrupts the clearing. *)
SendFails ==
    /\ wk \in {"discard", "write"}
    /\ UNCHANGED <<rx, old>>
    /\ StoreResult(Failed, FALSE, FALSE)

(* Nothing before the deadline or before Stop, which counts as a timeout   *)
(* too; or an error of the port, which does not.                           *)
ReadHeadFails ==
    /\ wk = "readHead"
    /\ UNCHANGED <<rx, old>>
    /\ \E timeout \in BOOLEAN : StoreResult(Failed, timeout, FALSE)

(* The body is late, cut short or declared too long.  With five bytes read *)
(* this counts as a CRC error, since crc_ok is false from the start.       *)
ReadBodyFails ==
    /\ wk = "readBody"
    /\ UNCHANGED <<rx, old>>
    /\ \E crcError \in BOOLEAN : StoreResult(Failed, FALSE, crcError)

(* ParseResponse.  An answer is not interleaved with another on the line:  *)
(* a body that follows a header belongs to it.                             *)
Reading(c, d) ==
    c.part = "head" /\ d.part = "body" /\ c.kind = "data" /\ d.kind = "data"

(* A plausible slip: the address of the answer is not compared. *)
ValidFromAnyone(c, d) == Reading(c, d)

Valid(c, d) == Reading(c, d) /\ c.from = Address

(* The CRC is tested first: that of a reading is right, whoever sent it;   *)
(* any other answer fails there or at a later test.                        *)
ParseResponse ==
    /\ wk = "readBody" /\ ~stopReq
    /\ rx # <<>>
    /\ Take(1)
    /\ \E crcError \in BOOLEAN :
          /\ crcError => ~Reading(got, Head(rx))
          /\ StoreResult(IF Valid(got, Head(rx)) THEN got.from ELSE Failed, FALSE, crcError)

(* The next address, or the end of a complete round. *)
NextAddress ==
    /\ wk = "next" /\ idx < N
    /\ idx' = idx + 1
    /\ wk' = "wait"
    /\ UNCHANGED <<call, flags, stopReq, got, bytes, results>>

CycleDone ==
    /\ wk = "next" /\ idx = N
    /\ cycles' = cycles + 1
    /\ wk' = "head"
    /\ UNCHANGED <<call, flags, stopReq, idx, got, bytes, latest, requests, successes,
                   timeouts, invalids, crcErrors>>

WorkerLoop ==
    \/ LoopHead \/ WaitTest \/ WaitSleep \/ WaitStopped \/ WaitOver
    \/ DiscardRead \/ DiscardDone \/ Write \/ SendFails
    \/ ReadHead \/ ReadHeadFails \/ ReadBodyFails \/ ParseResponse
    \/ NextAddress \/ CycleDone

(* A plausible slip: the handler leaves running_ alone. *)
WorkerThrowsRunning ==
    /\ wk \notin {"off", "exit"}
    /\ wk' = "exit" /\ idx' = 1 /\ got' = None
    /\ commOk' = FALSE /\ state' = "Error"
    /\ UNCHANGED <<call, initialized, enabled, running, open, stopReq, bytes, results>>

(* An exception ends the worker; worker_ stays joinable. *)
WorkerThrows ==
    /\ wk \notin {"off", "exit"}
    /\ wk' = "exit" /\ idx' = 1 /\ got' = None
    /\ running' = FALSE /\ commOk' = FALSE /\ state' = "Error"
    /\ UNCHANGED <<call, initialized, enabled, open, stopReq, bytes, results>>
-----------------------------------------------------------------------------
(* The line delivers the next piece, in order; to a closed port it is lost.  *)
Arrive ==
    /\ line # <<>>
    /\ line' = Tail(line)
    /\ rx' = IF open THEN Append(rx, Head(line)) ELSE rx
    /\ UNCHANGED <<call, flags, stopReq, wk, idx, got, old, results>>

Next == Lifecycle \/ WorkerLoop \/ WorkerThrows \/ Arrive

Spec == Init0 /\ [][Next]_vars

(* The worker is scheduled and its deadlines pass; a lifecycle call in     *)
(* progress goes on.  Nothing makes a device answer.                       *)
FairSpec == Spec /\ WF_vars(WorkerLoop) /\ WF_vars(StopEnd)
-----------------------------------------------------------------------------
(* The states of the worker between the request count and StoreResult. *)
Pending == {"discard", "write", "readHead", "readBody"}

TypeOK ==
    /\ call \in {"none", "start", "stop", "init", "configure"}
    /\ initialized \in BOOLEAN /\ enabled \in BOOLEAN /\ running \in BOOLEAN
    /\ commOk \in BOOLEAN /\ open \in BOOLEAN /\ stopReq \in BOOLEAN
    /\ state \in {"Uninitialized", "Initialized", "Disabled", "Running", "Error"}
    /\ wk \in Pending \cup {"off", "head", "wait", "doze", "asleep", "next", "exit"}
    /\ idx \in 1..N
    /\ got \in Piece \cup {None} /\ (wk = "readBody" => got \in Piece)
    /\ line \in Seq(Piece) /\ rx \in Seq(Piece)
    /\ old \in 0..Len(rx)
    /\ latest \in [Devices -> Devices \cup {None, Failed}]
    /\ requests \in 0..MaxRequests
    /\ successes \in Nat /\ timeouts \in Nat /\ invalids \in Nat
    /\ crcErrors \in Nat /\ cycles \in Nat

(* The reading shown for an address was measured by the device at that     *)
(* address, however late the answers of the others come in                 *)
(* (ParseResponse, after DiscardInputBuffer).                              *)
OwnReading ==
    \A a \in Devices : latest[a] \notin {None, Failed} => latest[a] = a

(* What the port received before a request was begun, during the previous  *)
(* one, the wait between the two or since Init opened the port, is never   *)
(* read as its answer: once DiscardInputBuffer has succeeded none of it is *)
(* left.                                                                   *)
OldBytesDiscarded == wk \in {"write", "readHead", "readBody"} => old = 0

(* The statistics of Status agree.  Every request ends as one success or   *)
(* one invalid result (one may be pending, or lost with an exception);     *)
(* timeouts and CRC errors are kinds of invalid results; cycle_count_      *)
(* counts complete rounds only, after which every address has a result.    *)
StatisticsAgree ==
    /\ \/ successes + invalids = requests - (IF wk \in Pending THEN 1 ELSE 0)
       \/ wk \in {"off", "exit"} /\ ~running
    /\ successes + invalids \in {requests - 1, requests}
    /\ timeouts + crcErrors <= invalids
    /\ cycles > 0 => \A a \in Devices : latest[a] # None
    /\ cycles * N <= successes + invalids
    /\ wk \in Pending => successes + invalids = cycles * N + idx - 1

(* A worker has an open port until it has ended, and running_ and state_   *)
(* say that there is one, or that Start is about to create one, whatever   *)
(* Init, Start, Stop and an exception do.                                  *)
StatusTruthful ==
    /\ wk \notin {"off", "exit"} => open /\ running /\ state = "Running"
    /\ running => (wk # "off" \/ call = "start") /\ (wk = "exit" => stopReq)
    /\ commOk => running

(* Stop and Init return: the worker notices stop_requested_ wherever it    *)
(* is, and StopInternalLocked joins it.                                    *)
StopReturns == (call \in {"stop", "init"}) ~> (call \notin {"stop", "init"})
=============================================================================
