----------------------------- MODULE PodStream -----------------------------
(***************************************************************************)
(* pod_stream::PodStreamManager                                            *)
(* (src/src/util/my_mediamtx_monitor/v2/PodStreamManager.{h,cpp}): the     *)
(* monitor thread pings the camera pod and debounces the result into       *)
(* is_connected_; the worker thread runs the state machine that starts,    *)
(* watches and stops the MediaMTX child process; Stop joins both and       *)
(* cleans up after them.                                                   *)
(*                                                                         *)
(* The kernel's side of a child is proc[p]: "free" (no such process, the   *)
(* pid may be given to anybody), "running", or "zombie" (exited and not    *)
(* yet waited for).  kill(p, 0) succeeds on a zombie.  A killed process    *)
(* may take arbitrarily long to die.  Time only passes as the expiry of    *)
(* the cooldown and of the crash window.                                   *)
(***************************************************************************)
EXTENDS Integers, Sequences

CONSTANTS
    Pids,                \* the pids fork can return
    NoPid,               \* -1
    ConnectDebounce,     \* connect_debounce_count
    DisconnectDebounce,  \* disconnect_debounce_count
    MaxCrashCount,       \* max_crash_count; negative: no limit
    MaxBackoffLevel,     \* kMaxBackoffLevel
    MaxWaitAttempts,     \* max_wait_attempts of StopMediaMtx
    MaxInits             \* bound of the model: successful calls of Init

ASSUME PodStreamAssumption ==
    /\ NoPid \notin Pids
    /\ ConnectDebounce \in Nat \ {0}
    /\ DisconnectDebounce \in Nat \ {0}
    /\ MaxCrashCount \in Int
    /\ MaxBackoffLevel \in Nat
    /\ MaxWaitAttempts \in Nat \ {0}
    /\ MaxInits \in Nat

VARIABLES
    inited,     \* inited_
    open,       \* config_.open
    state,      \* state_
    quit,       \* quit_
    connected,  \* is_connected_
    mon,        \* the monitor thread: "off", "top", "probe", "exit"
    okCount,    \* local_success_count, counted up to ConnectDebounce
    failCount,  \* local_fail_count, counted up to DisconnectDebounce
    wrk,        \* the worker thread
    pid,        \* mediamtx_pid_
    stopping,   \* where StopMediaMtx is: "off", "grace", "wait"
    attempts,   \* wait_attempts of StopMediaMtx
    stamps,     \* the number of crash_timestamps_, up to CrashCap
    fresh,      \* how many of the recorded crashes lie inside the window
    backoff,    \* backoff_level_
    cooling,    \* less than kCooldownMs have passed since last_stop_time_
    stp,        \* the caller of Stop
    inits,      \* successful calls of Init
    proc,       \* the kernel's process table
    killed,     \* processes that were sent SIGKILL
    reachable,  \* the pod answers pings
    probes      \* history: the last probe results of this monitor thread

life    == <<inited, open, quit, inits>>
monitor == <<mon, okCount, failCount, connected, probes>>
crashes == <<stamps, fresh, backoff>>
child   == <<pid, proc, killed>>
killing == <<stopping, attempts>>
vars    == <<life, state, monitor, wrk, child, killing, crashes, cooling, stp,
             reachable>>

Window     == IF ConnectDebounce > DisconnectDebounce THEN ConnectDebounce
                                                      ELSE DisconnectDebounce
CrashCap   == IF MaxCrashCount > 0 THEN MaxCrashCount ELSE 1
UpTo(n, b) == IF n < b THEN n ELSE b

Init0 ==
    /\ inited = FALSE /\ open = FALSE /\ quit = FALSE /\ inits = 0
    /\ state = "Idle"
    /\ mon = "off" /\ okCount = 0 /\ failCount = 0 /\ connected = FALSE
    /\ probes = <<>>
    /\ wrk = "off"
    /\ pid = NoPid /\ proc = [p \in Pids |-> "free"] /\ killed = {}
    /\ stopping = "off" /\ attempts = 0
    /\ stamps = 0 /\ fresh = 0 /\ backoff = 0
    /\ cooling = FALSE
    /\ stp = "off"
    /\ reachable \in BOOLEAN
-----------------------------------------------------------------------------
(* Crash bookkeeping. *)

(* A plausible slip: the records that left the window are kept. *)
RecordCrashUnpruned ==
    /\ stamps' = UpTo(stamps + 1, CrashCap)
    /\ fresh' = UpTo(fresh + 1, CrashCap)
    /\ backoff' = UpTo(backoff + 1, MaxBackoffLevel)

(* Add a time stamp, drop those outside the window, raise the backoff.     *)
RecordCrash ==
    /\ stamps' = UpTo(fresh + 1, CrashCap)
    /\ fresh' = UpTo(fresh + 1, CrashCap)
    /\ backoff' = UpTo(backoff + 1, MaxBackoffLevel)

(* IsCrashingTooOften for n recorded time stamps. *)
TooOften(n) == MaxCrashCount >= 0 /\ n >= MaxCrashCount
-----------------------------------------------------------------------------
(* The child process. *)

(* kill(pid, 0) == 0: true of a zombie too. *)
IsMediaMtxAlive == pid # NoPid /\ proc[pid] # "free"

(* waitpid(pid, WNOHANG) would return pid. *)
Exited == pid # NoPid /\ proc[pid] = "zombie"

(* A plausible slip: the pid is remembered after the child was reaped. *)
ReapChildKeepsPid ==
    /\ proc' = IF Exited THEN [proc EXCEPT ![pid] = "free"] ELSE proc
    /\ killed' = IF Exited THEN killed \ {pid} ELSE killed
    /\ UNCHANGED pid

ReapChildIfNeeded ==
    /\ proc' = IF Exited THEN [proc EXCEPT ![pid] = "free"] ELSE proc
    /\ killed' = IF Exited THEN killed \ {pid} ELSE killed
    /\ pid' = IF Exited THEN NoPid ELSE pid

(* StopMediaMtx returns: to the worker, which notes the time and goes back *)
(* to Ready, or to Stop.                                                   *)
StopMediaMtxReturns ==
    /\ stopping' = "off"
    /\ attempts' = 0
    /\ \/ /\ wrk = "stopmtx"
          /\ cooling' = TRUE
          /\ state' = "Ready"
          /\ wrk' = "top"
          /\ UNCHANGED stp
       \/ /\ stp = "stopmtx"
          /\ stp' = "end"
          /\ UNCHANGED <<cooling, state, wrk>>

(* StopMediaMtx(false): nothing to do, or SIGTERM. *)
StopMediaMtx ==
    /\ "stopmtx" \in {wrk, stp}
    /\ stopping = "off"
    /\ IF IsMediaMtxAlive
       THEN /\ stopping' = "grace"
            /\ UNCHANGED <<child, attempts, cooling, state, wrk, stp>>
       ELSE /\ ReapChildIfNeeded
            /\ StopMediaMtxReturns
    /\ UNCHANGED <<life, monitor, crashes, reachable>>

(* A plausible slip: no SIGKILL after the grace period. *)
GraceExpiresUnkilled ==
    /\ stopping = "grace"
    /\ stopping' = "wait"
    /\ UNCHANGED <<killed, life, state, monitor, wrk, pid, proc, attempts,
                   crashes, cooling, stp, reachable>>

(* graceful_stop_timeout_ms have passed: a child that exits in time is a   *)
(* zombie, for which the loop waits all the same.                          *)
GraceExpires ==
    /\ stopping = "grace"
    /\ IsMediaMtxAlive
    /\ stopping' = "wait"
    /\ killed' = killed \union {pid}
    /\ UNCHANGED <<life, state, monitor, wrk, pid, proc, attempts, crashes,
                   cooling, stp, reachable>>

(* waitpid collects the child. *)
WaitReaps ==
    /\ stopping = "wait"
    /\ Exited
    /\ ReapChildIfNeeded
    /\ StopMediaMtxReturns
    /\ UNCHANGED <<life, monitor, crashes, reachable>>

(* The child is not dead yet: another attempt. *)
WaitAgain ==
    /\ stopping = "wait"
    /\ ~Exited
    /\ attempts < MaxWaitAttempts - 1
    /\ attempts' = attempts + 1
    /\ UNCHANGED <<life, state, monitor, wrk, child, stopping, crashes,
                   cooling, stp, reachable>>

(* A plausible slip: waitpid without a limit. *)
WaitGivesUpNever ==
    /\ stopping = "wait"
    /\ ~Exited
    /\ attempts = MaxWaitAttempts - 1
    /\ UNCHANGED vars

(* After the last attempt the pid is forgotten. *)
WaitGivesUp ==
    /\ stopping = "wait"
    /\ ~Exited
    /\ attempts = MaxWaitAttempts - 1
    /\ pid' = NoPid
    /\ StopMediaMtxReturns
    /\ UNCHANGED <<life, monitor, proc, killed, crashes, reachable>>

(* StopMediaMtx, whoever runs it. *)
StopMediaMtxStep ==
    StopMediaMtx \/ GraceExpires \/ WaitReaps \/ WaitAgain \/ WaitGivesUp
-----------------------------------------------------------------------------
(* The monitor thread. *)

(* while (!quit_.load()) *)
MonHead ==
    /\ mon = "top"
    /\ mon' = IF quit THEN "exit" ELSE "probe"
    /\ UNCHANGED <<life, state, okCount, failCount, connected, probes, wrk,
                   child, killing, crashes, cooling, stp, reachable>>

Probed(ok) ==
    /\ probes' = LET s == Append(probes, ok)
                 IN  SubSeq(s, Len(s) - UpTo(Len(s), Window) + 1, Len(s))
    /\ mon' = "top"
    /\ UNCHANGED <<life, state, wrk, child, killing, crashes, cooling, stp,
                   reachable>>

(* A plausible slip: a failure does not restart the count of successes. *)
ProbeSticky ==
    /\ mon = "probe"
    /\ IF reachable
       THEN /\ okCount' = UpTo(okCount + 1, ConnectDebounce)
            /\ failCount' = 0
       ELSE /\ okCount' = okCount
            /\ failCount' = UpTo(failCount + 1, DisconnectDebounce)
    /\ connected' = IF reachable THEN connected \/ okCount' = ConnectDebounce
                    ELSE connected /\ failCount' < DisconnectDebounce
    /\ Probed(reachable)

(* A plausible slip: no debounced loss of the connection. *)
ProbeNeverLost ==
    /\ mon = "probe"
    /\ IF reachable
       THEN /\ okCount' = UpTo(okCount + 1, ConnectDebounce)
            /\ failCount' = 0
       ELSE /\ okCount' = 0
            /\ failCount' = UpTo(failCount + 1, DisconnectDebounce)
    /\ connected' = (connected \/ okCount' = ConnectDebounce)
    /\ Probed(reachable)

(* Ping once, count, and debounce the result into is_connected_. *)
Probe ==
    /\ mon = "probe"
    /\ IF reachable
       THEN /\ okCount' = UpTo(okCount + 1, ConnectDebounce)
            /\ failCount' = 0
       ELSE /\ okCount' = 0
            /\ failCount' = UpTo(failCount + 1, DisconnectDebounce)
    /\ connected' = IF reachable THEN connected \/ okCount' = ConnectDebounce
                    ELSE connected /\ failCount' < DisconnectDebounce
    /\ Probed(reachable)

MonitorLoop == MonHead \/ Probe
-----------------------------------------------------------------------------
(* The worker thread. *)

(* while (!quit_.load()) *)
WrkHead ==
    /\ wrk = "top"
    /\ wrk' = IF quit THEN "exit" ELSE "round"
    /\ UNCHANGED <<life, state, monitor, child, killing, crashes, cooling,
                   stp, reachable>>

RoundUnchanged == UNCHANGED <<life, monitor, killing, cooling, stp, reachable>>

(* case kReady: wait out the cooldown and the backoff, then start. *)
RoundReady ==
    /\ wrk = "round"
    /\ state = "Ready"
    /\ ReapChildIfNeeded
    /\ wrk' = CASE ~connected \/ cooling -> "top"
                [] connected /\ ~cooling /\ backoff > 0 -> "backoff"
                [] OTHER -> "prepare"
    /\ UNCHANGED <<state, crashes>>
    /\ RoundUnchanged

(* case kRunning, the pod is gone: stop the child. *)
RoundDisconnected ==
    /\ wrk = "round"
    /\ state = "Running"
    /\ ~connected
    /\ ReapChildIfNeeded
    /\ state' = "Stopping"
    /\ wrk' = "stopmtx"
    /\ UNCHANGED crashes
    /\ RoundUnchanged

(* A plausible slip: the state is left at Running. *)
RoundCrashedUnnoted ==
    /\ wrk = "round"
    /\ state = "Running"
    /\ connected
    /\ Exited
    /\ ReapChildIfNeeded
    /\ RecordCrash
    /\ state' = IF TooOften(stamps') THEN "Error" ELSE "Running"
    /\ wrk' = "top"
    /\ RoundUnchanged

(* case kRunning, this round's reap found the child dead. *)
RoundCrashed ==
    /\ wrk = "round"
    /\ state = "Running"
    /\ connected
    /\ Exited
    /\ ReapChildIfNeeded
    /\ RecordCrash
    /\ state' = IF TooOften(stamps') THEN "Error" ELSE "Ready"
    /\ wrk' = "top"
    /\ RoundUnchanged

(* case kRunning with nothing to do.  Without a process the round would    *)
(* record a crash and go to Ready.                                         *)
RoundHealthy ==
    /\ wrk = "round"
    /\ state = "Running"
    /\ connected
    /\ ~Exited
    /\ IF IsMediaMtxAlive THEN UNCHANGED <<state, crashes>>
                          ELSE RecordCrash /\ state' = "Ready"
    /\ wrk' = "top"
    /\ UNCHANGED child
    /\ RoundUnchanged

(* case kError, kStopping, kIdle. *)
RoundOther ==
    /\ wrk = "round"
    /\ state \notin {"Ready", "Running"}
    /\ ReapChildIfNeeded
    /\ state' = IF \/ state = "Error" /\ ~TooOften(stamps)
                   \/ state = "Stopping" /\ pid' = NoPid
                THEN "Ready" ELSE state
    /\ wrk' = "top"
    /\ UNCHANGED crashes
    /\ RoundUnchanged

(* Wake up from the backoff and look again. *)
BackoffOver ==
    /\ wrk = "backoff"
    /\ wrk' = IF quit \/ ~connected THEN "top" ELSE "prepare"
    /\ UNCHANGED <<life, state, monitor, child, killing, crashes, cooling,
                   stp, reachable>>

(* PrepareMediaMtxConfig writes the configuration, or fails. *)
PrepareMediaMtxConfig ==
    /\ wrk = "prepare"
    /\ \/ wrk' = "fork" /\ UNCHANGED crashes
       \/ wrk' = "top" /\ RecordCrash
    /\ UNCHANGED <<life, state, monitor, child, killing, cooling, stp,
                   reachable>>

(* StartMediaMtx: fork and exec; the child may fail at once. *)
Fork ==
    /\ wrk = "fork"
    /\ ~IsMediaMtxAlive
    /\ \E p \in Pids :
        /\ proc[p] = "free"
        /\ proc' = [proc EXCEPT ![p] = "running"]
        /\ pid' = p
    /\ wrk' = "confirm"
    /\ UNCHANGED <<life, state, monitor, killed, killing, crashes, cooling,
                   stp, reachable>>

(* fork() < 0. *)
ForkFails ==
    /\ wrk = "fork"
    /\ ~IsMediaMtxAlive
    /\ RecordCrash
    /\ wrk' = "top"
    /\ UNCHANGED <<life, state, monitor, child, killing, cooling, stp,
                   reachable>>

(* 100 ms later: a child that has exited is a zombie and still "alive". *)
ConfirmStarted ==
    /\ wrk = "confirm"
    /\ IF IsMediaMtxAlive
       THEN state' = "Running" /\ UNCHANGED <<child, crashes>>
       ELSE ReapChildIfNeeded /\ RecordCrash /\ UNCHANGED state
    /\ wrk' = "top"
    /\ RoundUnchanged

WorkerLoop ==
    \/ WrkHead
    \/ RoundReady \/ RoundDisconnected \/ RoundCrashed \/ RoundHealthy
    \/ RoundOther
    \/ BackoffOver \/ PrepareMediaMtxConfig \/ Fork \/ ForkFails
    \/ ConfirmStarted
-----------------------------------------------------------------------------
(* The calls of Pipeline. *)

(* Init with a valid configuration, open or not (o); an invalid one leaves *)
(* everything but the configuration as it was.                             *)
Init(o) ==
    /\ ~inited
    /\ inits < MaxInits
    /\ inits' = inits + 1
    /\ inited' = TRUE
    /\ open' = o
    /\ quit' = TRUE
    /\ state' = IF o THEN "Ready" ELSE "Idle"
    /\ UNCHANGED <<monitor, wrk, child, killing, crashes, cooling, stp,
                   reachable>>

Start ==
    /\ inited
    /\ open
    /\ mon = "off" /\ wrk = "off"
    /\ stp = "off"
    /\ quit' = FALSE
    /\ mon' = "top" /\ okCount' = 0 /\ failCount' = 0 /\ probes' = <<>>
    /\ wrk' = "top"
    /\ UNCHANGED <<inited, open, inits, state, connected, child, killing,
                   crashes, cooling, stp, reachable>>

StopBegin ==
    /\ inited
    /\ stp = "off"
    /\ quit' = TRUE
    /\ stp' = "joinMonitor"
    /\ UNCHANGED <<inited, open, inits, state, monitor, wrk, child, killing,
                   crashes, cooling, reachable>>

StopJoinMonitor ==
    /\ stp = "joinMonitor"
    /\ mon \in {"off", "exit"}
    /\ mon' = "off"
    /\ stp' = "joinWorker"
    /\ UNCHANGED <<life, state, okCount, failCount, connected, probes, wrk,
                   child, killing, crashes, cooling, reachable>>

(* A plausible slip: the child is looked for before the worker has ended. *)
StopJoinWorkerLate ==
    /\ stp = "joinWorker"
    /\ wrk' = IF wrk = "exit" THEN "off" ELSE wrk
    /\ stp' = IF IsMediaMtxAlive THEN "stopmtx" ELSE "end"
    /\ UNCHANGED <<life, state, monitor, child, killing, crashes, cooling,
                   reachable>>

(* Join the worker, then clean up a child that is left. *)
StopJoinWorker ==
    /\ stp = "joinWorker"
    /\ wrk \in {"off", "exit"}
    /\ wrk' = "off"
    /\ stp' = IF IsMediaMtxAlive THEN "stopmtx" ELSE "end"
    /\ UNCHANGED <<life, state, monitor, child, killing, crashes, cooling,
                   reachable>>

StopEnd ==
    /\ stp = "end"
    /\ ReapChildIfNeeded
    /\ state' = "Idle"
    /\ inited' = FALSE
    /\ stp' = "off"
    /\ UNCHANGED <<open, quit, inits, monitor, wrk, killing, crashes, cooling,
                   reachable>>

Stop == StopJoinMonitor \/ StopJoinWorker \/ StopEnd
-----------------------------------------------------------------------------
(* The environment. *)

(* A child exits, by itself or because of a signal. *)
ChildExits(p) ==
    /\ proc[p] = "running"
    /\ proc' = [proc EXCEPT ![p] = "zombie"]
    /\ UNCHANGED <<life, state, monitor, wrk, pid, killed, killing, crashes,
                   cooling, stp, reachable>>

CooldownPasses ==
    /\ cooling
    /\ cooling' = FALSE
    /\ UNCHANGED <<life, state, monitor, wrk, child, killing, crashes, stp,
                   reachable>>

(* crash_window_seconds pass for the oldest recorded crashes. *)
CrashLeavesWindow ==
    /\ fresh > 0
    /\ fresh' \in 0..(fresh - 1)
    /\ UNCHANGED <<life, state, monitor, wrk, child, killing, stamps, backoff,
                   cooling, stp, reachable>>

PodChanges ==
    /\ reachable' = ~reachable
    /\ UNCHANGED <<life, state, monitor, wrk, child, killing, crashes,
                   cooling, stp>>

Next ==
    \/ \E o \in BOOLEAN : Init(o)
    \/ Start
    \/ StopBegin
    \/ Stop
    \/ MonitorLoop
    \/ WorkerLoop
    \/ StopMediaMtxStep
    \/ \E p \in Pids : ChildExits(p)
    \/ CooldownPasses
    \/ CrashLeavesWindow
    \/ PodChanges

Spec == Init0 /\ [][Next]_vars

(* The scheduler runs every thread, ping and the file operations return    *)
(* and time passes.  Nothing is assumed of the pod, of the life of a child *)
(* or of how fast a killed one dies.                                       *)
FairSpec ==
    /\ Spec
    /\ WF_vars(Stop)
    /\ WF_vars(MonitorLoop)
    /\ WF_vars(WorkerLoop)
    /\ WF_vars(StopMediaMtxStep)
    /\ WF_vars(CooldownPasses)
    /\ WF_vars(CrashLeavesWindow)
-----------------------------------------------------------------------------
TypeOK ==
    /\ inited \in BOOLEAN /\ open \in BOOLEAN /\ quit \in BOOLEAN
    /\ inits \in Nat
    /\ state \in {"Idle", "Ready", "Running", "Stopping", "Error"}
    /\ connected \in BOOLEAN
    /\ mon \in {"off", "top", "probe", "exit"}
    /\ okCount \in 0..ConnectDebounce
    /\ failCount \in 0..DisconnectDebounce
    /\ wrk \in {"off", "top", "round", "backoff", "prepare", "fork",
                "confirm", "stopmtx", "exit"}
    /\ pid \in Pids \union {NoPid}
    /\ proc \in [Pids -> {"free", "running", "zombie"}]
    /\ killed \in SUBSET Pids
    /\ stopping \in {"off", "grace", "wait"}
    /\ attempts \in 0..(MaxWaitAttempts - 1)
    /\ stamps \in 0..CrashCap
    /\ fresh \in 0..CrashCap
    /\ backoff \in 0..MaxBackoffLevel
    /\ cooling \in BOOLEAN
    /\ stp \in {"off", "joinMonitor", "joinWorker", "stopmtx", "end"}
    /\ reachable \in BOOLEAN
    /\ probes \in Seq(BOOLEAN)

(* The manager owns the processes it starts.  mediamtx_pid_ names a child  *)
(* that was not waited for yet: after the reap the kernel may give the     *)
(* number to any process, which the signals of StopMediaMtx would hit.  A  *)
(* child it no longer remembers (StopMediaMtx gave up waiting) has been    *)
(* sent SIGKILL.  When Stop has returned both threads have ended and no    *)
(* child is on record, even if Stop met the worker starting one.           *)
ProcessesOwned ==
    /\ pid # NoPid => proc[pid] # "free"
    /\ \A p \in Pids : proc[p] # "free" /\ p # pid => p \in killed
    /\ ~inited => pid = NoPid /\ mon = "off" /\ wrk = "off" /\ state = "Idle"

(* At the head of its loop the worker is in Ready, Running or Error, and   *)
(* Running means a child is on record and was not reaped: the kIdle and    *)
(* kStopping cases and the "process is gone" case of kRunning are never    *)
(* needed.                                                                 *)
RunningHasChild ==
    wrk = "round" => /\ state \in {"Ready", "Running", "Error"}
                     /\ (state = "Running") <=> IsMediaMtxAlive

(* The manager gives up (kError) only after MaxCrashCount crashes inside   *)
(* one crash window, however many older ones there were.                   *)
ErrorIsDeserved ==
    [][state # "Error" /\ state' = "Error" => TooOften(fresh')]_vars

(* is_connected_ changes only after as many equal probe results in a row   *)
(* as the debounce counts ask for, all from the running monitor thread.    *)
DebounceHonoured ==
    [][connected' # connected =>
        LET n == IF connected' THEN ConnectDebounce ELSE DisconnectDebounce
        IN  /\ Len(probes') >= n
            /\ \A i \in (Len(probes') - n + 1)..Len(probes') :
                   probes'[i] = connected']_vars

(* Stop returns, even when MediaMTX ignores SIGTERM and is slow to die. *)
StopReturns == (stp # "off") ~> (stp = "off")

(* When the pod stays away no MediaMTX keeps running unkilled. *)
StreamEndsWithPod ==
    []<>(\/ reachable \/ quit
         \/ \A p \in Pids : proc[p] = "running" => p \in killed)

(* "Error state, try to recover after some time": when every recorded      *)
(* crash has left the window the worker leaves kError.                     *)
ErrorRecovers == (state = "Error" /\ fresh = 0) ~> (state # "Error")
=============================================================================
