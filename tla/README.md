# Verification of fast_cpp_server

TLA+ models of the core of `fast_cpp_server`, the TLC runs that check them and
the TLAPS proofs about them. `PROJECT.json` ties every definition to the source
lines it stands for and lists runs, mutants, findings, hazards and theorems.

## 1. The system and its parts

`main.cpp` reads the configuration and hands it to `Pipeline`
(`tools/pipeline`), which creates the services and, through `MyEdgeManager`,
the *edges*. An edge controls devices. A command arrives by REST (`my_api`) or
MQTT (`FastMQTT`, `my_comm`), is normalised into a task by the edge and put
into the device's `TaskQueue`; the device's `Workflow` thread takes it out and
executes it through a `Control`. Heartbeat, health, relay, pod, gas, light,
audio and flight-controller modules run beside that, each with threads of its
own.

| Component | State | Operations | Interacts with | What is hard | What makes it correct |
|---|---|---|---|---|---|
| `TaskQueue` (`my_control`) | deque, `shutdown_` | Push, PopBlocking, Clear, Shutdown | edge pushes, Workflow pops | notifications outside the mutex, deadlines, several consumers | FIFO, no lost wake-up, Shutdown releases everybody |
| `BlockingQueue` (`my_fast_MQTT`) | deque, capacity, `shutdown_` | Push, Pop (with/without timeout), Clear, Shutdown | threads of FastMQTT | capacity, spurious wake-ups | bounded FIFO, no lost wake-up |
| `Workflow`, `UUVDevice` | thread, `stop_`, reported status | Start, Stop, Join, RunLoop; on_start/on_finish | queue, edge's `estop_` | EStop read before a blocking call; exceptions; stop half way | every task once and in order; status tells the truth |
| `BaseEdge` | `run_state_`, `estop_`, maps of queues and devices, threads | Init, Start, Submit, AppendTask, SetEStop, Shutdown | everything above; callers from several threads | joins under `rw_mutex_`, failed Start, restart | accepted tasks have a consumer; Stopped means quiet; Shutdown ends |
| Self tasks of `BaseEdge` | self queue, slot `self_task`, `self_task_run_state_` | monitor thread, action thread, SayHelloAction | edge lifecycle | hand-over through an atomic, raw pointer outside the lock, thread never joined | a fetched task is executed once |
| `FastMQTT` | lifecycle state, flags, backoff index, callbacks, two queues | Initialize, Start, Stop, Destroy, Publish, Register/Unregister/ClearCallback; four threads | broker, callers | reconnection against registration; Stop at any moment | subscriptions follow callbacks; messages accounted for; Stop ends; reconnects |
| `UUVEdge`, `TUNAEdge` | as BaseEdge, own copies; snapshot and self-action threads | as BaseEdge | MyEdgeManager | joins both threads under the lock they take | Shutdown ends; no thread outlives its queue |
| `UAVEdge`, `UNAEdge` | normalizer cache, handlers | subclasses of BaseEdge | BaseEdge | handlers run in the action thread | as BaseEdge |
| `Pipeline`, `main` | nodes still to launch, exit flag | LaunchRoBot, Stop, exit signal | every service | a node that fails or waits; the order of the stops; a port in use | the nodes are all reached; after a signal the process ends |
| `MyEdgeManager` | registry of edges behind one mutex | create, startAllEdges, stopAllEdges, appendTask, GetHeartbeatInfo | edges, REST threads, heartbeat | mutex held while edges stop; REST starts edges during the stop | stopped edges stay stopped |
| `my_heartbeat`, `MyAPI`, `JsonComm` | `running_`, one thread each, topics | Start, Stop, requests, callbacks | manager, FastMQTT | joined while the edges are stopped; callback in flight when unregistered | stop ends; at most the message in hand reaches a callback after the stop |
| `PodStreamManager` (`my_mediamtx_monitor/v2`) | `state_`, `is_connected_`, `mediamtx_pid_`, crash stamps, backoff | Init, Start, Stop; monitor and worker threads | ping, child process | pid reuse, zombies, a child that ignores SIGTERM, crash storms, flapping link | owns exactly its child; debounced; ends with the pod; gives up and recovers as configured |
| `my_gas_detector_poll` | flags, latest results, counters | Init, Start, Stop, worker | serial line | late, partial and corrupted answers, deadlines, exceptions | a reading belongs to its address; counters agree; Stop returns |
| `my_mediamtx_monitor` v1, `my_pod` | stream state machines, monitor threads | start, probe, restart, stop | processes, network | timeouts, retries | state machine legality, bounded retries |
| `my_serial`, `my_light`, `my_airdrop_lock`, `my_fly_control`, `my_mav` | request/reply over serial or UDP | poll, parse, command | hardware | late replies, partial frames, retries | replies matched to requests; parser resynchronises |
| `my_cache`, `my_context`, `my_db` | files, maps, tables | store, evict, look up | callers | limits, partial failure | index agrees with files |
| `my_soft_healthy`, `my_system_healthy`, `my_network`, `my_mqtt*`, `my_audio`, `tools/*` | periodic threads | start, stop, report | FastMQTT, OS | stop while sleeping | stop ends |
| controllers of `my_api`, `my_config`, `my_log`, `my_doctor`, `my_script`, `my_tools`, `my_data` | none or configuration | convert, format | – | – | not modelled: translation and I/O |

## 2. The modules

| Module | Models | Notes |
|---|---|---|
| `ClosableFifo` | what a hand-over queue promises | abstract specification |
| `TaskQueue` | `TaskQueue.cpp` | a section under `mu_` is a step; `notify_one`/`notify_all` after the unlock are steps of their own; a consumer is outside, entering, asleep, woken or past its deadline |
| `BlockingQueue` | `BlockingQueue.hpp` | notifies under the mutex, so Push and Shutdown are single steps |
| `BaseEdge` | `BaseEdge.cpp`, `Workflow.cpp`, `UUVDevice.cpp` | `op` is the Init, Start or Shutdown that holds `rw_mutex_` and its stage; each stage that joins a thread waits for it |
| `SelfTask` | self-task threads of `BaseEdge.cpp` | the queue object is a generation number, so that a pointer to a destroyed one is visible |
| `FastMQTT` / `MCFastMQTT` | `FastMQTT.cpp` | each thread is a program counter; messages are counted, not carried; `link` is the real connection, the flags what the module believes |
| `PodStream` | `PodStreamManager.cpp` | monitor, worker and Stop are program counters; `proc` is the kernel's view of the children (running, zombie, free for reuse) |
| `UUVEdge` | `UUVEdge.cpp` | actions of one edge, without a specification of its own |
| `Pipeline` | `main.cpp`, `Pipeline.cpp`, `MyEdgeManager.cpp`, heartbeat, `MyAPI`, `JsonComm` | composes edges (`EXTENDS UUVEdge`) with their manager and the process; a call under the manager's mutex is one step, except `stopAllEdges`, which waits inside it |
| `GasDetectorPoll` / `MCGasDetectorPoll` | `MyGasDetectorPoll.cpp` | an answer is two pieces on the line (header, rest), each with its sender and whether it is sound |
| `TaskQueue_proofs`, `BlockingQueue_proofs`, `BaseEdge_proofs`, `SelfTask_proofs`, `FastMQTT_proofs`, `Pipeline_proofs`, `PodStream_proofs`, `GasDetectorPoll_proofs` | – | theorems about the module of that name |

Correspondence of state: variables carry a comment with the member they stand
for. History variables (`accepted`, `done`, `late`, `appended`, `fetched`,
`executed`, `fails`, parts of `stats`, `probes`, `old`) exist only to state properties.

Abstractions. A task or message is a number or a model value. `Submit` keeps
its tests (running, EStop, known device with a normalizer, open queue) and drops
the parsing: a refused command changes nothing. `BaseEdge` knows the devices as
healthy, without a control (`broken`, chosen anew by each Init among
`NoControl`: Init of the device failed, so `device.Start` fails) or `Absent` (a
queue but no object: unknown type). `BaseEdge` uses `TaskQueue` through its
promise: PopBlocking is "a task, if there is one; otherwise it may return
false". Devices are stopped and joined in any order, where the code follows the
order of a map.

`Pipeline` knows FastMQTT as off, started or ready, with its dispatcher; its
connection may come and go at any moment. Any node may fail or throw at
its launch before it has done anything, heartbeat and FastMQTT also half way; the self queue of an edge refuses tasks beyond its
limit. The dispatcher takes a message, copies the callbacks under JsonComm's
`mutex_`, and calls them after the unlock, each a step. The nodes are launched in any order,
since the order is that of the configuration file; nodes that only call one
component and share nothing with the others are left out. `PodStream` counts
crashes, not times: `fresh` is how many of the recorded ones lie inside the
window, and it may shrink at any moment. In `GasDetectorPoll` a deadline may
pass at any moment, and a device may answer wholly, partly, badly or not at all.
`Start` sets the flags in one step and creates the worker in another, and the
worker's wait tests `stop_requested_` and goes to sleep in two, so that a
notification can be missed.

Operators whose comment begins with "A plausible slip" are not part of any
specification: they are the mutated forms used to show that the properties can
fail.

## 3. The runs

| Run | Shows | Result |
|---|---|---|
| `taskqueue` | no lost wake-up, sleepers of a shut-down queue are woken; implements `ClosableFifo` | holds |
| `blockingqueue` | the same for the bounded queue; every Pop returns after Shutdown | holds |
| `edge` | order, one task at most after EStop, truthful status, consumer for what is accepted, nothing left after Shutdown; Shutdown ends unless it waits for the snapshot thread, queued tasks are executed; a healthy device, one that may fail to start (failed Start, second Start, new Init) and one of unknown type, a restart | holds |
| `edge_snapshot` | Shutdown ends, with the snapshot thread | **violated**: it joins a thread that waits for the lock Shutdown holds |
| `selftask` | with SayHelloAction and restarts nothing is executed twice and Shutdown ends; before a restart every queued self task is executed, but for one fetched right after a SayHelloAction | holds |
| `selftask_dangling` | the monitor uses the self queue only while it exists | **violated**: Shutdown destroys it without stopping the monitor |
| `mqtt` | subscriptions follow callbacks, backoff follows failures, Stop leaves nothing, received messages are dispatched, dropped, in hand, queued or discarded by Destroy, and counted so | holds |
| `mqtt_live` | Stop ends; a running client reconnects; accepted messages are sent, failed, in hand, queued or discarded by Destroy, and counted so, over restarts | holds |
| `podstream` | the manager owns exactly its processes, kRunning has a child, kError is deserved, the link is debounced, Stop returns, no stream outlives the pod | holds |
| `podstream_error` | kError is left when the crashes have left the window | **violated**: the list of crashes is pruned only by the next crash, and there is none in kError |
| `pipeline` | edges stay stopped, the self-action thread never uses a dead queue, after JsonComm::Stop the callbacks of at most one message still start and none once FastMQTT is destroyed, after a signal the process exits (unless an edge's Shutdown waits for its own lock), the launch reaches every node although any may fail | holds |
| `gas` | readings are of their address, bytes received before a request began are never its answer, statistics agree, flags tell the truth, Stop returns | holds |

`TypeOK` of every module was checked on these instances and is not part of the
configurations; it is proved for every module with a specification (`TypeCorrect`).

Where a property needed an exception, the exception is code behaviour worth
knowing. `OneTaskAfterEStop`: a Workflow that is already in PopBlocking when
EStop is set still takes one task, though never two. `LostOnlyAfterHello`:
SayHelloAction stores RunOver before its task is over, and the task fetched then
can be lost. `ServedInFirstLife`: a restarted edge takes its ended monitor
thread for a running one and serves no self tasks. `ShutdownEndsUnlessLocked`
and `ExitCompletes`: both `BaseEdge` and `UUVEdge` join threads under the lock
these threads take. `LaunchFinishes`: `LaunchRestAPI` calls `MyAPI::Start`
twice, and if the server thread has ended with an exception in between, the
assignment to a joinable `std::thread` terminates the process. `CallbacksEnd`:
`OnRawMessage` copies the callbacks under `mutex_` and calls them after the
unlock, so those of one message may start after `JsonComm::Stop` has returned;
TLC reaches this case.

Bounds. The interesting cases need two of a kind: two producers and two
consumers (a notification can go to the wrong one), two devices with a Workflow
(one stopped while the other works), two tasks (order), two Inits (restart), two
owners of one topic, a network or broker failure beside a broker that may be
down from the start (one while connected, one while connecting). Queues of one
message and two messages make "full" happen, and so does a self queue of one
task (`MaxTaskQueueSize`, 1000 in the code) with two appends. The backoff table has its real
length, and a broker that is down lets its end be reached. `podstream` has two
pids (one given up and not yet dead while the next is started), debounce counts
of two, a limit of two crashes, two attempts to wait and two lives of the
manager; `podstream_error` needs one of each only. `gas` has two sensors and
three requests, so that an answer can arrive during the request to the other
sensor or during the next round. `pipeline` has every node and one edge: edges
share nothing but the manager's mutex, which no step of an edge holds, and
`Pipeline_proofs` has no bound on edges, requests or tasks. `MaxLen`,
`MaxTasks`, `MaxInits`, `MaxPublish`, `MaxReceive`, `MaxDrops`, `MaxAppends`,
`MaxRequests` and `MaxLine` only disable further inputs (at `MaxRequests` the
worker waits for its next turn, from which Stop still wakes it). Symmetry is
used in runs without temporal properties only.

Deadlock is checked except where a system really may come to rest: a
destroyed client, a stopped edge or gas detector that nobody calls again, a
process that has ended, and where Shutdown may wait for a thread that waits for
its lock (`edge`, `pipeline`).

Fairness. Weak fairness of each thread and of the lifecycle call that holds a
lock: the operating system schedules every runnable thread, sleeps and timed
waits end, handlers, `DoTask` and callbacks return. Callers, the network and
the broker are under no obligation, and neither are REST requests, the exit
signal, the REST port, the pod, the sensors and the life of a child process. For
`StreamEndsWithPod` and `StopReturns` of `PodStream` time passes (the cooldown
and the crash window end); nothing is assumed of how fast a killed process
dies, which is why `StopMediaMtx` needs its limit. `LaunchFinishes` has the free
port as its premise. A lock is always taken in steps that do not
wait inside it, except where the model makes the waiting visible (`op`).

## 4. What is proved

`TaskQueue_proofs`, for any finite sets of producers and consumers:
`TypeCorrect`; `NoLostWakeup` (`WakeupPending` is inductive with the types; its
proof counts notifying producers and woken consumers); `NobodyLeftAsleep`
(strengthened by: the flag is set exactly when Shutdown has begun);
`ImplementsFifo` (each step is a step of `ClosableFifo` or leaves it alone).

`BlockingQueue_proofs`, for any finite set of consumers and any capacity:
`TypeCorrect`; `NobodySleepsThrough` (`SleepersAreSafe` is inductive with the
types; because Push notifies under the mutex, counting the woken consumers is
enough, and the proof is about what one more or one fewer of them does to the
count); `ImplementsFifo`, with the capacity as part of the abstract queue.

`BaseEdge_proofs`, for any set of devices, of failing and of absent devices,
any number of tasks and restarts:

- `TypeCorrect`. `TypeOK` is not inductive: `WfFinish` appends the task in hand
  to `done`, so the invariant adds that a Workflow in DoTask holds a task
  (`HoldsTask`).
- `EStopBounded`. The bound needs `EStopInv`: a Workflow that has taken its late
  task is not in PopBlocking again while EStop lasts.
- `ConsumerExists` and `StoppedQuiet`, from `LifeInv`: `OpInv` (run state and
  lock holder agree), `ServiceInv` (the devices Start has dealt with are served,
  a Workflow ends only on request, queues of a Ready edge are open), `QuietInv`
  (what Shutdown has joined stays joined).
- `OrderKept`, inductive with the types; three lemmas on sequences say that a
  task moves from queue to hand to history without a gap.
- `StatusTruthful`, inductive with the types.
- `LockedForGood`: a Shutdown that joins a snapshot thread waiting for the lock
  Shutdown holds stays there under every step. What `ShutdownEndsUnlessLocked`
  excludes is therefore a deadlock and not a delay.

`SelfTask_proofs`, for any set of tasks and of restarts: `TypeCorrect`.
`ExecutedAtMostOnce` needs `Places` (a task is in one place on its way: what is
queued has not been fetched, what FetchSelfTask holds is neither executed nor in
the slot nor with the action thread) and `Fresh` (what the action thread is going
to read from the slot, or has read, is not yet executed).
`OnlyHelloLoses` needs `HandOver`, which follows the hand-over through every place
of the two threads in the first life of the edge: FetchSelfTask is behind its
test only in RunOver, and only SayHelloAction stores RunOver before
FinishSelfTask. `Unborn` says that nothing runs before the first Init.

`FastMQTT_proofs`, for any owners, topics shared among them in any way, both
capacities (0 included), clean and persistent sessions, and any number of
failures and restarts: `TypeCorrect`, and four theorems from one inductive
invariant `IndInv`. None of the four properties is inductive by itself:

- `LifeInv` says where the four threads, the queues and the flags are in each
  state of the lifecycle (a disabled client is Initialized without queues);
  `QuietWhenStopped` is part of it.
- `LinkInv` says what `session_ready_` tells of the connection: it may be set
  after the link has gone, never cleared while the link is up. The Receiver
  connects only with the flag cleared, and no CONNACK is read once the queues are
  shut.
- `SubsInv` extends `SubscribedWhenSettled` over the two stages of
  ResubscribeAll: after the copy under the lock a settled topic may still be only
  in the copy.
- `BackoffFollowsFailures` (`BackoffCorrect`) and `MessagesAccounted`
  (`NoMessageUnaccounted`) are inductive with the others.

`Pipeline_proofs`, for any sets of edges, nodes and request threads:
`StoppedForGood` and `QueueOutlivesThread` from `LifeInv` (an edge has threads
only while Running or Stopping, and Shutdown's stage says which are gone), with
`EdgesStayStopped` itself: the step that could break it is a REST
`startAllEdges` after the stop, which changes only Ready edges.
`CallbacksEndInOrder` needs `CommInv`: between the stop of JsonComm and the
destruction of FastMQTT there is no entry to copy callbacks from, and while the
dispatcher holds a copy it has not started yet, none has started since the stop. `StuckForGood` is about the
exception of `ExitCompletes`: if an edge's Shutdown waits for a thread that waits
for the edge's lock, no step of any thread, request or signal frees it, and
stopAllEdges keeps the manager's `mutex_` (`MutexInv`). TLC reaches such a state,
so the theorem is not empty. `TypeCorrect` includes `SelfQueueInv`: a self queue
never holds more tasks than its limit.

`PodStream_proofs`, for any pids, debounce counts, crash limits and restarts:
`OwnsItsProcesses` and `RunningIsTruthful` from `ChildInv`. The pid part alone is
not inductive: `WaitGivesUp` forgets a pid, so the invariant says that a child
being waited for has been killed, and that only one thread handles the child at
a time (the worker until Stop has joined it, then Stop), with what each place of
the two implies for `state_` and the pid. `GivesUpDeservedly` needs no invariant.
`DebounceCorrect` needs `DebounceInv`: the counters are the lengths of the runs
of equal results at the end of the probe history, through a lemma on what a
bounded history keeps. `TypeCorrect` combines `ChildInv` and `DebounceInv`, which
give the types of the pid and of the counters, with those of the rest.

`GasDetectorPoll_proofs`, for every list of addresses and any number of
requests: `TypeCorrect`; `StatusCorrect` (`StatusInv` adds that a worker belongs
to an initialized, enabled object, that there is none between the halves of
Init, and that everything is ready for the one a `Start` in progress creates); `ReadingsAreOwn`; `OldBytesNeverRead`; `StatisticsCorrect` (`StatInv`: the
place of the worker and `idx` tell how many results the round has stored and for
which addresses, and a worker starts with cleared counters).

The assumptions are the ASSUMEs of the modules. The strengthened invariants
were checked with TLC before they were proved: those of `BaseEdge` on the
instance of `edge`, those of `SelfTask` on that of `selftask`, `IndInv` of
`FastMQTT` with two Inits, once with a topic shared by two owners and once with
two topics and a persistent session.

So every safety invariant, every action property and both refinements that a
passing run checks are also theorems. What stays with TLC is liveness
(`ShutdownCompletes`, `ShutdownEndsUnlessLocked`, `SubmittedRuns`,
`PopReturnsAfterShutdown`, `ServedInFirstLife`, `StopCompletes`, `Reconnects`,
`StopReturns`, `StreamEndsWithPod`, `ExitCompletes`, `LaunchFinishes`): it
depends on fairness, hence on ENABLED, which the prover does not handle. The
three disagreements are counterexamples, and TLC finds them.

## 5. What is not modelled

See `components` in `PROJECT.json`. The repository holds about 430 000 lines of
C and C++, nearly all of it vendored (the mavsdk headers under `source/lib`
alone are most of it, twice, for two architectures); the program itself is
`src/src`, and the share of lines the models cover can only be judged against
that.

Time is not modelled: a timeout may happen at any moment the wait allows. Memory
ordering weaker than sequential consistency is not modelled (the atomics use the
default order). What a `Control` does inside DoTask, payloads, topics with
wildcards and formatting are left out. Use of a released queue in
`FastMQTT::Publish` is modelled as a Publish that queues nothing (see the
hazards). `FastMQTT::Start` throwing between two of its threads is not modelled.

`Pipeline`: a REST request runs in a thread oatpp detaches, and a request still
running when `main` has returned is cut off with the process. `Pipeline::Stop`
stops neither the gas detector nor the v1 relay monitor; they end with the
process. The stops it makes between JsonComm and FastMQTT (airdrop lock, audio,
`PodStreamManager`, pods, flight control) share nothing with the modelled nodes
and are left out of `Pipeline`; that of `PodStreamManager` returns
(`StopReturns` of `PodStream`). `JsonComm::Start` is called once; if FastMQTT is not ready then, the
topics are never registered. Devices and their Workflows are those of
`BaseEdge`; `UUVEdge` repeats neither them nor Submit and SetEStop.
`UUVEdge::AppendTask` takes `rw_mutex_` shared a second time inside a shared
lock; with the reader preference of libstdc++'s `shared_mutex` on Linux this does
not block behind a waiting writer, and the model has no such step.

`GasDetectorPoll`: Modbus answers carry no request number, so a late answer of
the *same* sensor can be taken for the answer to the next request to it; the
model allows it and no property excludes it. `DiscardInputBuffer` has no
deadline of its own and ends because the line falls silent or Stop comes.
`StatusTruthful` is about the flags `Status` reports, not about the value
`Start` returns.

`PodStream`: Init and Start are called one after the other by the pipeline; an
invalid configuration and the text of MediaMTX's configuration are left out.
`StartMediaMtx` returns at once when the recorded child is alive; by `ChildInv`
the worker calls it only without one, so this return has no step. `DebounceHonoured` is
about changes of `is_connected_`: a value kept over Stop and Start is used as it
is until the probes change it.

Tables, SQL, HTTP translation, readers of `/proc`, logging and argument parsing
have no protocol to check and stay out.

## 6. Plan

1. Edges: `TUNAEdge` (a copy of `UUVEdge`'s lifecycle), `UAVEdge`, `UNAEdge`.
2. Stream monitor v1 (`RtspRelayMonitor`), pod sessions.
3. Hardware protocols: `MySerial`, `MyAirdropLock`, `Searchlight`,
   `MyFlyControl` with its frame parser as a pure algorithm.
4. `MyCache`, `ServiceGuard`, `ThreadSafeQueue` (a third implementation of
   `ClosableFifo`).
5. Proofs: the parts of the liveness arguments that are safety, as
   `LockedForGood` and `StuckForGood` are (what a step may not undo on the way
   to the end of a Shutdown or Stop).

A new module gets one run that checks its invariants and liveness together
where its state space allows. A run that only documents a disagreement
(`edge_snapshot`, `selftask_dangling`, `podstream_error`) goes when the code is
corrected; the invariants around it stay.
