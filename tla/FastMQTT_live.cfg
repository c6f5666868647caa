\* Fair threads: Stop ends, the connection comes back, what is published is
\* accounted for.
SPECIFICATION FairSpec
CONSTANTS
    r1 = r1
    r2 = r2
    Owners = {}
    TopicOf <- NoOwner
    Publishers = {p1}
    SendCap = 1
    RecvCap = 1
    AutoReconnect = TRUE
    CleanSession = TRUE
    MaxPublish = 2
    MaxReceive = 0
    MaxDrops = 1
    MaxInits = 1
INVARIANTS MessagesAccounted
PROPERTIES StopCompletes Reconnects
\* The module may be destroyed, with nobody left to call it.
CHECK_DEADLOCK FALSE
