\* Two pids, debounce of two probes, the second crash in the window is too
\* many, two lives of the manager.
SPECIFICATION FairSpec
CONSTANTS
    Pids = {p1, p2}
    NoPid = NoPid
    ConnectDebounce = 2
    DisconnectDebounce = 2
    MaxCrashCount = 2
    MaxBackoffLevel = 1
    MaxWaitAttempts = 2
    MaxInits = 2
INVARIANTS ProcessesOwned RunningHasChild
PROPERTIES ErrorIsDeserved DebounceHonoured StopReturns StreamEndsWithPod
