\* A healthy device, one that may fail to start and one of unknown type, a
\* snapshot thread, a restart.
SPECIFICATION FairSpec
CONSTANTS
    Devices = {d1, d2, d3}
    NoControl = {d2}
    Absent = {d3}
    AllowQueueWhenEStop = TRUE
    SnapshotEnable = TRUE
    MaxTasks = 2
    MaxInits = 2
    None = None
INVARIANTS OneTaskAfterEStop OrderPreserved StatusMatches AcceptedHasConsumer StoppedIsQuiet
PROPERTIES ShutdownEndsUnlessLocked SubmittedRuns
\* Shutdown may wait for the snapshot thread for ever (run edge_snapshot).
CHECK_DEADLOCK FALSE
