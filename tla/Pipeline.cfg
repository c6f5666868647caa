\* An edge with snapshot and self-action threads, every kind of node, one
\* request at a time.
SPECIFICATION FairSpec
CONSTANTS
    Edges = {e1}
    SnapshotEnable = TRUE
    MaxTaskQueueSize = 1
    MaxAppends = 2
    Nodes = {"heartbeat", "edge", "edge_monitor", "rest_api", "fast_mqtt", "2536_comm"}
    Requests = {r1}
INVARIANTS EdgesStayStopped SelfQueueAlive CallbacksEnd
PROPERTIES ExitCompletes LaunchFinishes
\* The process may end, or hang in a Shutdown.
CHECK_DEADLOCK FALSE
