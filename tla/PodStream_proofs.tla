-------------------------- MODULE PodStream_proofs --------------------------
(***************************************************************************)
(* Proofs about PodStream for every set of pids, every debounce and crash  *)
(* limit and any number of restarts.                                       *)
(***************************************************************************)
EXTENDS PodStream, SequenceTheorems, TLAPS

USE DEF life, monitor, crashes, child, killing, vars

(* The types of the variables the child's life depends on. *)
ChildType ==
    /\ pid \in Pids \cup {NoPid}
    /\ proc \in [Pids -> {"free", "running", "zombie"}]
    /\ killed \in SUBSET Pids

(* mediamtx_pid_ is a child not waited for; the others are killed. *)
PidInv ==
    /\ pid # NoPid => proc[pid] # "free"
    /\ \A p \in Pids : proc[p] # "free" /\ p # pid => p \in killed

(* Only one thread handles the child at a time: the worker until Stop has  *)
(* joined it, then Stop.  What each place of the worker and of Stop says   *)
(* of the state and of the child.                                          *)
OwnerInv ==
    /\ stopping # "off" => "stopmtx" \in {wrk, stp} /\ pid # NoPid
    /\ stopping = "wait" => pid \in killed
    /\ stp \in {"joinWorker", "stopmtx", "end"} => mon = "off"
    /\ stp \in {"stopmtx", "end"} => wrk = "off"
    /\ stp = "end" => pid = NoPid
    /\ stp # "off" => inited
    /\ ~inited => pid = NoPid /\ mon = "off" /\ wrk = "off" /\ state = "Idle"
    /\ wrk = "off" /\ stp = "off" /\ inited =>
          pid = NoPid /\ state = (IF open THEN "Ready" ELSE "Idle")
    /\ wrk \in {"top", "round"} => /\ state \in {"Ready", "Running", "Error"}
                                   /\ (state = "Running") <=> (pid # NoPid)
    /\ wrk \in {"backoff", "prepare", "fork"} => state = "Ready" /\ pid = NoPid
    /\ wrk = "confirm" => state = "Ready" /\ pid # NoPid
    /\ wrk = "stopmtx" => state = "Stopping"
    /\ wrk \in {"off", "top", "round", "backoff", "prepare", "fork", "confirm",
                "stopmtx", "exit"}

ChildInv == ChildType /\ PidInv /\ OwnerInv

(* The constructor. *)
LEMMA ChildInit == Init0 => ChildInv
BY PodStreamAssumption DEF Init0, ChildInv, ChildType, PidInv, OwnerInv

(* With a pid on record kill(pid, 0) succeeds. *)
LEMMA AliveIsOnRecord == ChildInv => (IsMediaMtxAlive <=> pid # NoPid)
BY DEF ChildInv, PidInv, IsMediaMtxAlive

(* ReapChildIfNeeded collects the child if it has exited. *)
LEMMA Reap ==
  ASSUME ChildInv, ReapChildIfNeeded
  PROVE  /\ ChildType' /\ PidInv'
         /\ pid' = IF Exited THEN NoPid ELSE pid
BY PodStreamAssumption
   DEF ChildInv, ChildType, PidInv, ReapChildIfNeeded, Exited

(* The end of StopMediaMtx leaves no pid on record. *)
LEMMA StopMediaMtxEnds ==
  ASSUME ChildInv, StopMediaMtxReturns, pid' = NoPid,
         UNCHANGED <<inited, open, mon>>
  PROVE  OwnerInv'
<1>1. CASE wrk = "stopmtx"
  BY <1>1 DEF ChildInv, OwnerInv, StopMediaMtxReturns
<1>2. CASE stp = "stopmtx"
  BY <1>2 DEF ChildInv, OwnerInv, StopMediaMtxReturns
<1> QED BY <1>1, <1>2 DEF StopMediaMtxReturns

(* StopMediaMtx, run by the worker or by Stop. *)
LEMMA ChildStop == ChildInv /\ StopMediaMtxStep => ChildInv'
<1> SUFFICES ASSUME ChildInv, StopMediaMtxStep PROVE ChildInv'
  OBVIOUS
<1>1. CASE StopMediaMtx
  <2>1. CASE IsMediaMtxAlive
    BY <1>1, <2>1, AliveIsOnRecord
       DEF StopMediaMtx, ChildInv, ChildType, PidInv, OwnerInv
  <2>2. CASE ~IsMediaMtxAlive
    <3>1. pid = NoPid /\ ReapChildIfNeeded /\ StopMediaMtxReturns
      BY <1>1, <2>2, AliveIsOnRecord DEF StopMediaMtx
    <3>2. pid' = NoPid /\ UNCHANGED <<inited, open, mon>>
      BY <1>1, <3>1 DEF StopMediaMtx, ReapChildIfNeeded
    <3> QED BY <3>1, <3>2, Reap, StopMediaMtxEnds DEF ChildInv
  <2> QED BY <2>1, <2>2
<1>2. CASE GraceExpires
  BY <1>2 DEF GraceExpires, IsMediaMtxAlive, ChildInv, ChildType, PidInv, OwnerInv
<1>3. CASE WaitReaps
  <2>1. ReapChildIfNeeded /\ StopMediaMtxReturns /\ Exited
        /\ UNCHANGED <<inited, open, mon>>
    BY <1>3 DEF WaitReaps
  <2> QED BY <2>1, Reap, StopMediaMtxEnds DEF ChildInv
<1>4. CASE WaitAgain
  BY <1>4 DEF WaitAgain, ChildInv, ChildType, PidInv, OwnerInv
<1>5. CASE WaitGivesUp
  <2>1. ChildType' /\ PidInv'
    BY <1>5 DEF WaitGivesUp, ChildInv, ChildType, PidInv, OwnerInv
  <2>2. OwnerInv'
    BY <1>5, StopMediaMtxEnds DEF WaitGivesUp
  <2> QED BY <2>1, <2>2 DEF ChildInv
<1> QED BY <1>1, <1>2, <1>3, <1>4, <1>5 DEF StopMediaMtxStep

(* The worker's state machine. *)
LEMMA ChildWorker == ChildInv /\ WorkerLoop => ChildInv'
<1> SUFFICES ASSUME ChildInv, WorkerLoop PROVE ChildInv'
  OBVIOUS
<1>0. /\ stp \notin {"stopmtx", "end"} /\ wrk # "stopmtx" /\ wrk # "off"
      /\ stopping = "off" /\ inited
  BY DEF WorkerLoop, WrkHead, RoundReady, RoundDisconnected, RoundCrashed, RoundHealthy,
         RoundOther, BackoffOver, PrepareMediaMtxConfig, Fork, ForkFails, ConfirmStarted,
         ChildInv, OwnerInv
<1>1. CASE WrkHead
  BY <1>1 DEF WrkHead, ChildInv, ChildType, PidInv, OwnerInv
<1>2. CASE RoundReady
  <2>1. pid = NoPid /\ ReapChildIfNeeded
    BY <1>2 DEF RoundReady, ChildInv, OwnerInv
  <2>2. ~Exited
    BY <2>1 DEF Exited
  <2> QED BY <1>0, <1>2, <2>1, <2>2, Reap DEF RoundReady, RoundUnchanged, ChildInv, OwnerInv
<1>3. CASE RoundDisconnected
  <2>1. ReapChildIfNeeded
    BY <1>3 DEF RoundDisconnected
  <2> QED BY <1>0, <1>3, <2>1, Reap DEF RoundDisconnected, RoundUnchanged, ChildInv, OwnerInv
<1>4. CASE RoundCrashed
  <2>1. ReapChildIfNeeded /\ Exited
    BY <1>4 DEF RoundCrashed
  <2>2. state' \in {"Error", "Ready"}
    BY <1>4 DEF RoundCrashed
  <2> QED BY <1>0, <1>4, <2>1, <2>2, Reap DEF RoundCrashed, RoundUnchanged, ChildInv, OwnerInv
<1>5. CASE RoundHealthy
  <2>1. IsMediaMtxAlive
    BY <1>5, AliveIsOnRecord DEF RoundHealthy, ChildInv, OwnerInv
  <2> QED BY <1>0, <1>5, <2>1
          DEF RoundHealthy, RoundUnchanged, ChildInv, ChildType, PidInv, OwnerInv
<1>6. CASE RoundOther
  <2>1. pid = NoPid /\ ReapChildIfNeeded /\ state = "Error"
    BY <1>6 DEF RoundOther, ChildInv, OwnerInv
  <2>2. ~Exited
    BY <2>1 DEF Exited
  <2>3. state' \in {"Error", "Ready"}
    BY <1>6, <2>1 DEF RoundOther
  <2> QED BY <1>0, <1>6, <2>1, <2>2, <2>3, Reap
          DEF RoundOther, RoundUnchanged, ChildInv, OwnerInv
<1>7. CASE BackoffOver
  BY <1>0, <1>7 DEF BackoffOver, ChildInv, ChildType, PidInv, OwnerInv
<1>8. CASE PrepareMediaMtxConfig
  BY <1>0, <1>8 DEF PrepareMediaMtxConfig, ChildInv, ChildType, PidInv, OwnerInv
<1>9. CASE Fork
  <2>1. PICK p \in Pids : /\ proc[p] = "free"
                          /\ proc' = [proc EXCEPT ![p] = "running"]
                          /\ pid' = p
    BY <1>9 DEF Fork
  <2>2. pid = NoPid
    BY <1>9 DEF Fork, ChildInv, OwnerInv
  <2>3. \A q \in Pids : q # NoPid
    BY PodStreamAssumption
  <2>4. ChildType' /\ PidInv'
    BY <1>9, <2>1, <2>2, <2>3 DEF Fork, ChildInv, ChildType, PidInv
  <2> QED BY <1>0, <1>9, <2>1, <2>3, <2>4 DEF Fork, ChildInv, OwnerInv
<1>10. CASE ForkFails
  BY <1>0, <1>10 DEF ForkFails, ChildInv, ChildType, PidInv, OwnerInv
<1>11. CASE ConfirmStarted
  <2>1. IsMediaMtxAlive
    BY <1>11, AliveIsOnRecord DEF ConfirmStarted, ChildInv, OwnerInv
  <2> QED BY <1>0, <1>11, <2>1
          DEF ConfirmStarted, RoundUnchanged, ChildInv, ChildType, PidInv, OwnerInv
<1> QED BY <1>1, <1>2, <1>3, <1>4, <1>5, <1>6, <1>7, <1>8, <1>9, <1>10, <1>11
        DEF WorkerLoop

(* Init, Start and Stop. *)
LEMMA ChildCalls ==
  ASSUME ChildInv, (\E o \in BOOLEAN : Init(o)) \/ Start \/ StopBegin \/ Stop
  PROVE  ChildInv'
<1>1. ASSUME NEW o \in BOOLEAN, Init(o) PROVE ChildInv'
  BY <1>1 DEF Init, ChildInv, ChildType, PidInv, OwnerInv
<1>2. CASE Start
  BY <1>2 DEF Start, ChildInv, ChildType, PidInv, OwnerInv
<1>3. CASE StopBegin
  BY <1>3 DEF StopBegin, ChildInv, ChildType, PidInv, OwnerInv
<1>4. CASE StopJoinMonitor
  BY <1>4 DEF StopJoinMonitor, ChildInv, ChildType, PidInv, OwnerInv
<1>5. CASE StopJoinWorker
  BY <1>5, AliveIsOnRecord DEF StopJoinWorker, ChildInv, ChildType, PidInv, OwnerInv
<1>6. CASE StopEnd
  <2>1. ReapChildIfNeeded /\ pid = NoPid
    BY <1>6 DEF StopEnd, ChildInv, OwnerInv
  <2>2. pid' = NoPid
    BY <2>1, Reap
  <2> QED BY <1>6, <2>1, <2>2, Reap DEF StopEnd, ChildInv, OwnerInv
<1> QED BY <1>1, <1>2, <1>3, <1>4, <1>5, <1>6 DEF Stop

(* The invariant is inductive. *)
LEMMA ChildNext == ChildInv /\ [Next]_vars => ChildInv'
<1> SUFFICES ASSUME ChildInv, [Next]_vars PROVE ChildInv'
  OBVIOUS
<1>1. CASE MonitorLoop
  <2>1. /\ UNCHANGED <<inited, open, state, wrk, child, stopping, stp>>
        /\ mon # "off"
    BY <1>1 DEF MonitorLoop, MonHead, Probe, Probed
  <2> QED BY <2>1 DEF ChildInv, ChildType, PidInv, OwnerInv
<1>2. ASSUME NEW p \in Pids, ChildExits(p) PROVE ChildInv'
  BY <1>2 DEF ChildExits, ChildInv, ChildType, PidInv, OwnerInv
<1>3. CASE CooldownPasses \/ CrashLeavesWindow \/ PodChanges \/ UNCHANGED vars
  <2>1. UNCHANGED <<inited, open, state, mon, wrk, child, stopping, stp>>
    BY <1>3 DEF CooldownPasses, CrashLeavesWindow, PodChanges
  <2> QED BY <2>1 DEF ChildInv, ChildType, PidInv, OwnerInv
<1> QED BY <1>1, <1>2, <1>3, ChildStop, ChildWorker, ChildCalls DEF Next

(* No signal goes to a process that is not ours, no child is left running  *)
(* unkilled and unknown, and a stopped manager has no thread and no child, *)
(* for any number of restarts.                                             *)
THEOREM OwnsItsProcesses == Spec => []ProcessesOwned
<1>1. ChildInv => ProcessesOwned
  BY DEF ChildInv, PidInv, OwnerInv, ProcessesOwned
<1> QED BY <1>1, ChildInit, ChildNext, PTL DEF Spec

(* A round of the worker that finds kRunning has a child on record, and    *)
(* kIdle and kStopping are never found.                                    *)
THEOREM RunningIsTruthful == Spec => []RunningHasChild
<1>1. ChildInv => RunningHasChild
  BY AliveIsOnRecord DEF ChildInv, OwnerInv, RunningHasChild
<1> QED BY <1>1, ChildInit, ChildNext, PTL DEF Spec
-----------------------------------------------------------------------------
(* The manager gives up only for crashes that all lie inside the window:   *)
(* RecordCrash has just dropped the older ones.                            *)
THEOREM GivesUpDeservedly == Spec => ErrorIsDeserved
<1>1. [Next]_vars => [state # "Error" /\ state' = "Error" => TooOften(fresh')]_vars
  <2> SUFFICES ASSUME [Next]_vars, state # "Error", state' = "Error"
               PROVE  TooOften(fresh')
    OBVIOUS
  <2>1. RoundCrashed
    BY DEF Next, Init, Start, StopBegin, Stop, StopJoinMonitor, StopJoinWorker, StopEnd,
           MonitorLoop, MonHead, Probe, Probed, WorkerLoop, WrkHead, RoundReady,
           RoundDisconnected, RoundHealthy, RoundOther, BackoffOver,
           PrepareMediaMtxConfig, Fork, ForkFails, ConfirmStarted, StopMediaMtxStep,
           StopMediaMtx, StopMediaMtxReturns, GraceExpires, WaitReaps, WaitAgain,
           WaitGivesUp, ChildExits, CooldownPasses, CrashLeavesWindow, PodChanges
  <2>2. TooOften(stamps') /\ stamps' = fresh'
    BY <2>1 DEF RoundCrashed, RecordCrash
  <2> QED BY <2>2
<1> QED BY <1>1, PTL DEF Spec, ErrorIsDeserved
-----------------------------------------------------------------------------
(* The last n results of the probe history s are all equal to v. *)
Tailing(s, n, v) ==
    n <= Len(s) /\ \A i \in (Len(s) - n + 1)..Len(s) : s[i] = v

(* The counters of the monitor count the equal results at the end of the   *)
(* history, which holds at most Window of them.                            *)
DebounceInv ==
    /\ okCount \in 0..ConnectDebounce
    /\ failCount \in 0..DisconnectDebounce
    /\ probes \in Seq(BOOLEAN) /\ Len(probes) <= Window
    /\ reachable \in BOOLEAN /\ connected \in BOOLEAN
    /\ Tailing(probes, okCount, TRUE)
    /\ Tailing(probes, failCount, FALSE)

(* Both debounce counts fit into the history. *)
LEMMA WindowFacts ==
  /\ Window \in Nat \ {0}
  /\ ConnectDebounce \in 1..Window /\ DisconnectDebounce \in 1..Window
BY PodStreamAssumption DEF Window

(* What a probe with result ok does to the history. *)
LEMMA History ==
  ASSUME DebounceInv, NEW ok \in BOOLEAN, Probed(ok)
  PROVE  /\ probes' \in Seq(BOOLEAN) /\ Len(probes') \in 1..Window
         /\ probes'[Len(probes')] = ok
         /\ Len(probes') = IF Len(probes) < Window THEN Len(probes) + 1 ELSE Window
         /\ \A i \in 1..(Len(probes') - 1) :
               probes'[i] = probes[Len(probes) + 1 - Len(probes') + i]
<1> DEFINE s == Append(probes, ok)
           L == Len(probes) + 1
           m == UpTo(L, Window)
           j == L - m + 1
<1>1. s \in Seq(BOOLEAN) /\ Len(s) = L /\ L \in Nat /\ Len(probes) \in Nat
  BY DEF DebounceInv
<1>2. /\ m \in 1..Window /\ m <= L /\ m \in Nat
      /\ m = IF Len(probes) < Window THEN Len(probes) + 1 ELSE Window
  BY <1>1, WindowFacts DEF UpTo, DebounceInv
<1>3. probes' = SubSeq(s, j, L)
  BY <1>1 DEF Probed
<1>4. s[L] = ok /\ \A i \in 1..Len(probes) : s[i] = probes[i]
  BY <1>1 DEF DebounceInv
<1> HIDE DEF m
<1>5. j \in Int /\ L \in Int /\ j >= 1 /\ L - j + 1 = m /\ j <= L
  <2>1. m \in Nat /\ m >= 1 /\ m <= L
    BY <1>2, WindowFacts
  <2>2. L \in Nat
    BY <1>1
  <2> HIDE DEF L
  <2> QED BY <2>1, <2>2
<1>6. \A i \in j..L : s[i] \in BOOLEAN
  BY <1>1, <1>5
<1> HIDE DEF s, j
<1>7. /\ SubSeq(s, j, L) \in Seq(BOOLEAN)
      /\ Len(SubSeq(s, j, L)) = m
      /\ \A i \in 1..m : SubSeq(s, j, L)[i] = s[j + i - 1]
  BY <1>5, <1>6, SubSeqProperties
<1>8. probes'[m] = ok
  <2>1. m \in 1..m /\ j + m - 1 = L
    BY <1>1, <1>2, <1>5, WindowFacts
  <2> QED BY <1>3, <1>4, <1>7, <2>1
<1>9. ASSUME NEW i \in 1..(m - 1) PROVE probes'[i] = probes[Len(probes) + 1 - m + i]
  <2>1. probes'[i] = s[j + i - 1]
    BY <1>2, <1>3, <1>7, WindowFacts
  <2>2. m \in Nat /\ m >= 1 /\ m <= Len(probes) + 1 /\ i \in Nat /\ Len(probes) \in Nat
    BY <1>1, <1>2, WindowFacts
  <2>3. j + i - 1 = Len(probes) + 1 - m + i /\ j + i - 1 \in 1..Len(probes)
    BY <2>2 DEF j
  <2> QED BY <1>4, <2>1, <2>3
<1> QED BY <1>2, <1>3, <1>7, <1>8, <1>9

(* One more equal result, up to a bound. *)
LEMMA TailGrows ==
  ASSUME DebounceInv, NEW v \in BOOLEAN, Probed(v),
         NEW b \in 1..Window, NEW n \in 0..b, Tailing(probes, n, v)
  PROVE  Tailing(probes', UpTo(n + 1, b), v)
<1> DEFINE k == UpTo(n + 1, b)
           l == Len(probes')
<1>1. Len(probes) \in Nat
  BY DEF DebounceInv
<1>2. k \in 1..b /\ k <= n + 1
  BY WindowFacts DEF UpTo
<1>3. l \in 1..Window /\ k <= l
  <2>1. l \in 1..Window /\ l = IF Len(probes) < Window THEN Len(probes) + 1 ELSE Window
    BY History
  <2>2. n <= Len(probes)
    BY DEF Tailing
  <2> HIDE DEF k, l
  <2> QED BY <1>1, <1>2, <2>1, <2>2, WindowFacts
<1> HIDE DEF k, l
<1>4. ASSUME NEW i \in (l - k + 1)..l PROVE probes'[i] = v
  <2>1. CASE i = l
    BY <2>1, History DEF l
  <2>2. CASE i # l
    <3>1. i \in 1..(l - 1)
      BY <1>2, <1>3, <2>2, WindowFacts
    <3>2. probes'[i] = probes[Len(probes) + 1 - l + i]
      BY <3>1, History DEF l
    <3>3. Len(probes) + 1 - l + i \in (Len(probes) - n + 1)..Len(probes)
      BY <1>1, <1>2, <1>3, <3>1, WindowFacts
    <3> QED BY <3>2, <3>3 DEF Tailing
  <2> QED BY <2>1, <2>2
<1> QED BY <1>3, <1>4 DEF Tailing, l, k

(* A monitor that has not run yet. *)
LEMMA DebounceInit == Init0 => DebounceInv
<1> SUFFICES ASSUME Init0 PROVE DebounceInv
  OBVIOUS
<1>1. probes \in Seq(BOOLEAN) /\ Len(probes) = 0 /\ okCount = 0 /\ failCount = 0
  BY DEF Init0
<1>2. Tailing(probes, okCount, TRUE) /\ Tailing(probes, failCount, FALSE)
  BY <1>1 DEF Tailing
<1>3. okCount \in 0..ConnectDebounce /\ failCount \in 0..DisconnectDebounce
      /\ Len(probes) <= Window
  BY <1>1, WindowFacts, PodStreamAssumption
<1> QED BY <1>1, <1>2, <1>3 DEF Init0, DebounceInv

(* The monitor's counters stay true to the history. *)
LEMMA DebounceNext == DebounceInv /\ [Next]_vars => DebounceInv'
<1> SUFFICES ASSUME DebounceInv, [Next]_vars PROVE DebounceInv'
  OBVIOUS
<1>1. CASE Probe
  <2>0. /\ Len(probes') \in 1..Window /\ probes' \in Seq(BOOLEAN)
    BY <1>1, History DEF Probe, DebounceInv
  <2>3. Probed(reachable)
    BY <1>1 DEF Probe
  <2>4. reachable' \in BOOLEAN /\ connected' \in BOOLEAN
    BY <1>1, <2>3 DEF Probe, Probed, DebounceInv
  <2>5. Len(probes') <= Window
    BY <2>0, WindowFacts
  <2>1. CASE reachable
    <3>1. okCount' = UpTo(okCount + 1, ConnectDebounce) /\ failCount' = 0
      BY <1>1, <2>1 DEF Probe
    <3>2. Probed(TRUE)
      BY <2>3, <2>1 DEF DebounceInv
    <3>3. Tailing(probes', okCount', TRUE)
      BY <3>1, <3>2, TailGrows, WindowFacts DEF DebounceInv
    <3>4. Tailing(probes', failCount', FALSE)
      BY <2>0, <3>1, WindowFacts DEF Tailing
    <3>5. okCount' \in 0..ConnectDebounce /\ failCount' \in 0..DisconnectDebounce
      BY <3>1, PodStreamAssumption DEF UpTo, DebounceInv
    <3> QED BY <2>0, <2>4, <2>5, <3>3, <3>4, <3>5 DEF DebounceInv
  <2>2. CASE ~reachable
    <3>1. failCount' = UpTo(failCount + 1, DisconnectDebounce) /\ okCount' = 0
      BY <1>1, <2>2 DEF Probe
    <3>2. Probed(FALSE)
      BY <2>3, <2>2 DEF DebounceInv
    <3>3. Tailing(probes', failCount', FALSE)
      BY <3>1, <3>2, TailGrows, WindowFacts DEF DebounceInv
    <3>4. Tailing(probes', okCount', TRUE)
      BY <2>0, <3>1, WindowFacts DEF Tailing
    <3>5. okCount' \in 0..ConnectDebounce /\ failCount' \in 0..DisconnectDebounce
      BY <3>1, PodStreamAssumption DEF UpTo, DebounceInv
    <3> QED BY <2>0, <2>4, <2>5, <3>3, <3>4, <3>5 DEF DebounceInv
  <2> QED BY <2>1, <2>2
<1>2. CASE Start
  BY <1>2, WindowFacts, PodStreamAssumption DEF Start, DebounceInv, Tailing
<1>3. CASE PodChanges
  BY <1>3 DEF PodChanges, DebounceInv, Tailing
<1>4. CASE UNCHANGED <<okCount, failCount, probes, reachable, connected>>
  BY <1>4 DEF DebounceInv, Tailing
<1>5. Probe \/ Start \/ PodChanges
      \/ UNCHANGED <<okCount, failCount, probes, reachable, connected>>
  BY DEF Next, Init, StopBegin, Stop, StopJoinMonitor, StopJoinWorker, StopEnd,
         MonitorLoop, MonHead, WorkerLoop, WrkHead, RoundReady, RoundUnchanged,
         RoundDisconnected, RoundCrashed, RoundHealthy, RoundOther, BackoffOver,
         PrepareMediaMtxConfig, Fork, ForkFails, ConfirmStarted, StopMediaMtxStep,
         StopMediaMtx, GraceExpires, WaitReaps, WaitAgain,
         WaitGivesUp, ChildExits, CooldownPasses, CrashLeavesWindow
<1> QED BY <1>1, <1>2, <1>3, <1>4, <1>5

(* The step of DebounceHonoured. *)
DebouncedStep ==
    connected' # connected =>
        LET n == IF connected' THEN ConnectDebounce ELSE DisconnectDebounce
        IN  /\ Len(probes') >= n
            /\ \A i \in (Len(probes') - n + 1)..Len(probes') :
                   probes'[i] = connected'

(* is_connected_ follows only an unbroken run of equal probe results of    *)
(* the running monitor, for every pair of debounce counts.                 *)
THEOREM DebounceCorrect == Spec => DebounceHonoured
<1>1. Init0 => DebounceInv
  BY DebounceInit
<1>2. DebounceInv /\ DebounceInv' /\ [Next]_vars => [DebouncedStep]_vars
  <2> SUFFICES ASSUME DebounceInv, DebounceInv', [Next]_vars, connected' # connected
               PROVE  DebouncedStep
    BY DEF DebouncedStep
  <2>1. Probe
    BY DEF Next, Init, Start, StopBegin, Stop, StopJoinMonitor, StopJoinWorker, StopEnd,
           MonitorLoop, MonHead, WorkerLoop, WrkHead, RoundReady, RoundUnchanged,
           RoundDisconnected, RoundCrashed, RoundHealthy, RoundOther, BackoffOver,
           PrepareMediaMtxConfig, Fork, ForkFails, ConfirmStarted, StopMediaMtxStep,
           StopMediaMtx, GraceExpires, WaitReaps, WaitAgain, WaitGivesUp, ChildExits,
           CooldownPasses, CrashLeavesWindow, PodChanges
  <2>2. CASE reachable
    <3>1. connected' = (connected \/ okCount' = ConnectDebounce)
      BY <2>1, <2>2 DEF Probe
    <3>2. okCount' = ConnectDebounce /\ connected' = TRUE
      BY <3>1 DEF DebounceInv
    <3> QED BY <3>2, WindowFacts DEF DebounceInv, Tailing, DebouncedStep
  <2>3. CASE ~reachable
    <3>1. connected' = (connected /\ failCount' < DisconnectDebounce)
      BY <2>1, <2>3 DEF Probe
    <3>2. ~(failCount' < DisconnectDebounce) /\ connected' = FALSE
      BY <3>1 DEF DebounceInv
    <3>3. failCount' = DisconnectDebounce
      BY <3>2, PodStreamAssumption DEF DebounceInv
    <3> QED BY <3>2, <3>3, WindowFacts DEF DebounceInv, Tailing, DebouncedStep
  <2> QED BY <2>2, <2>3
<1>3. Spec => [][DebouncedStep]_vars
  BY <1>1, <1>2, DebounceNext, PTL DEF Spec
<1> QED BY <1>3 DEF DebounceHonoured, DebouncedStep
-----------------------------------------------------------------------------
(* The types that neither ChildInv nor DebounceInv gives. *)
CrashType ==
    /\ stamps \in 0..CrashCap
    /\ fresh \in 0..CrashCap
    /\ backoff \in 0..MaxBackoffLevel

RestType ==
    /\ inited \in BOOLEAN /\ open \in BOOLEAN /\ quit \in BOOLEAN /\ cooling \in BOOLEAN
    /\ inits \in Nat
    /\ state \in {"Idle", "Ready", "Running", "Stopping", "Error"}
    /\ mon \in {"off", "top", "probe", "exit"}
    /\ stopping \in {"off", "grace", "wait"}
    /\ attempts \in 0..(MaxWaitAttempts - 1)
    /\ stp \in {"off", "joinMonitor", "joinWorker", "stopmtx", "end"}

(* A step records a crash, lets one leave the window or does neither. *)
LEMMA CrashNext == CrashType /\ [Next]_vars => CrashType'
<1> SUFFICES ASSUME CrashType, [Next]_vars PROVE CrashType'
  OBVIOUS
<1>0. CrashCap \in Nat \ {0}
  BY PodStreamAssumption DEF CrashCap
<1>1. CASE RecordCrash
  BY <1>0, <1>1, PodStreamAssumption DEF RecordCrash, UpTo, CrashType
<1>2. CASE CrashLeavesWindow
  BY <1>0, <1>2 DEF CrashLeavesWindow, CrashType
<1>3. CASE UNCHANGED crashes
  BY <1>3 DEF CrashType
<1>4. RecordCrash \/ CrashLeavesWindow \/ UNCHANGED crashes
  BY DEF Next, Init, Start, StopBegin, Stop, StopJoinMonitor, StopJoinWorker, StopEnd,
         MonitorLoop, MonHead, Probe, Probed, WorkerLoop, WrkHead, RoundReady,
         RoundDisconnected, RoundCrashed, RoundHealthy, RoundOther, BackoffOver,
         PrepareMediaMtxConfig, Fork, ForkFails, ConfirmStarted, StopMediaMtxStep,
         StopMediaMtx, GraceExpires, WaitReaps, WaitAgain, WaitGivesUp, ChildExits,
         CooldownPasses, PodChanges
<1> QED BY <1>1, <1>2, <1>3, <1>4

(* The end of StopMediaMtx. *)
LEMMA ReturnsType ==
  ASSUME RestType, StopMediaMtxReturns
  PROVE  /\ stopping' = "off" /\ attempts' \in 0..(MaxWaitAttempts - 1)
         /\ state' \in {"Idle", "Ready", "Running", "Stopping", "Error"}
         /\ cooling' \in BOOLEAN
         /\ stp' \in {"off", "joinMonitor", "joinWorker", "stopmtx", "end"}
<1>1. attempts' \in 0..(MaxWaitAttempts - 1)
  BY PodStreamAssumption DEF StopMediaMtxReturns
<1> QED BY <1>1 DEF StopMediaMtxReturns, RestType

(* The other types. *)
LEMMA RestNext == RestType /\ [Next]_vars => RestType'
<1> SUFFICES ASSUME RestType, [Next]_vars PROVE RestType'
  OBVIOUS
<1>1. ASSUME NEW o \in BOOLEAN, Init(o) PROVE RestType'
  <2>1. inited' \in BOOLEAN /\ open' \in BOOLEAN /\ quit' \in BOOLEAN
    BY <1>1 DEF Init
  <2> QED BY <1>1, <2>1 DEF Init, RestType
<1>2. CASE Start \/ StopBegin
  <2>1. quit' \in BOOLEAN
    BY <1>2 DEF Start, StopBegin
  <2> QED BY <1>2, <2>1 DEF Start, StopBegin, RestType
<1>3. CASE Stop
  <2>1. inited' \in BOOLEAN
    BY <1>3 DEF Stop, StopJoinMonitor, StopJoinWorker, StopEnd, RestType
  <2> QED BY <1>3, <2>1 DEF Stop, StopJoinMonitor, StopJoinWorker, StopEnd, RestType
<1>4. CASE MonitorLoop
  BY <1>4 DEF MonitorLoop, MonHead, Probe, Probed, RestType
<1>5. CASE WorkerLoop
  <2>1. /\ UNCHANGED <<life, mon, killing, cooling, stp>>
        /\ state' \in {state, "Ready", "Running", "Stopping", "Error"}
    BY <1>5 DEF WorkerLoop, WrkHead, RoundUnchanged, RoundReady, RoundDisconnected,
        RoundCrashed, RoundHealthy, RoundOther, BackoffOver, PrepareMediaMtxConfig, Fork,
        ForkFails, ConfirmStarted
  <2> QED BY <2>1 DEF RestType
<1>6. CASE StopMediaMtxStep
  <2>1. UNCHANGED <<life, mon>>
    BY <1>6 DEF StopMediaMtxStep, StopMediaMtx, GraceExpires, WaitReaps, WaitAgain, WaitGivesUp
  <2>2. CASE StopMediaMtxReturns
    BY <2>1, <2>2, ReturnsType DEF RestType
  <2>3. CASE WaitAgain
    <3>1. attempts' \in 0..(MaxWaitAttempts - 1)
      BY <2>3, PodStreamAssumption DEF WaitAgain, RestType
    <3> QED BY <2>1, <2>3, <3>1 DEF WaitAgain, RestType
  <2>4. CASE stopping' \in {"grace", "wait"} /\ UNCHANGED <<attempts, cooling, state, stp>>
    BY <2>1, <2>4 DEF RestType
  <2> QED BY <1>6, <2>2, <2>3, <2>4
          DEF StopMediaMtxStep, StopMediaMtx, GraceExpires, WaitReaps, WaitGivesUp
<1>7. CASE CooldownPasses
  <2>1. cooling' \in BOOLEAN
    BY <1>7 DEF CooldownPasses
  <2> QED BY <1>7, <2>1 DEF CooldownPasses, RestType
<1>8. CASE CrashLeavesWindow \/ PodChanges \/ UNCHANGED vars
  BY <1>8 DEF CrashLeavesWindow, PodChanges, RestType
<1>9. ASSUME NEW q \in Pids, ChildExits(q) PROVE RestType'
  BY <1>9 DEF ChildExits, RestType
<1> QED BY <1>1, <1>2, <1>3, <1>4, <1>5, <1>6, <1>7, <1>8, <1>9 DEF Next

(* The types of all variables; in particular the backoff, the attempts of  *)
(* StopMediaMtx and the records of crashes keep within their limits.       *)
THEOREM TypeCorrect == Spec => []TypeOK
<1>1. Init0 => RestType /\ CrashType
  <2> SUFFICES ASSUME Init0 PROVE RestType /\ CrashType
    OBVIOUS
  <2>1. inited \in BOOLEAN /\ open \in BOOLEAN /\ quit \in BOOLEAN /\ cooling \in BOOLEAN
    BY DEF Init0
  <2>2. RestType
    BY <2>1, PodStreamAssumption DEF Init0, RestType
  <2>3. CrashType
    BY PodStreamAssumption DEF Init0, CrashType, CrashCap
  <2> QED BY <2>2, <2>3
<1>2. RestType /\ CrashType /\ ChildInv /\ DebounceInv => TypeOK
  <2> SUFFICES ASSUME RestType, CrashType, ChildInv, DebounceInv PROVE TypeOK
    OBVIOUS
  <2>1. /\ pid \in Pids \cup {NoPid} /\ proc \in [Pids -> {"free", "running", "zombie"}]
        /\ killed \in SUBSET Pids
        /\ wrk \in {"off", "top", "round", "backoff", "prepare", "fork", "confirm",
                    "stopmtx", "exit"}
    BY DEF ChildInv, ChildType, OwnerInv
  <2> QED BY <2>1 DEF RestType, CrashType, DebounceInv, TypeOK
<1> QED
  BY <1>1, <1>2, ChildInit, ChildNext, DebounceInit, DebounceNext, CrashNext, RestNext, PTL
  DEF Spec
=============================================================================
