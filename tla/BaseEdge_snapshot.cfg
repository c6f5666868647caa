\* With the snapshot thread Shutdown waits for a thread that waits for its lock.
SPECIFICATION FairSpec
CONSTANTS
    Devices = {d1}
    NoControl = {}
    Absent = {}
    AllowQueueWhenEStop = FALSE
    SnapshotEnable = TRUE
    MaxTasks = 1
    MaxInits = 1
    None = None
PROPERTIES ShutdownCompletes
