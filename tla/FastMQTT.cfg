\* Two owners of one topic against reconnections, received messages and Stop.
SPECIFICATION Spec
CONSTANTS
    r1 = r1
    r2 = r2
    Owners = {r1, r2}
    TopicOf <- SharedTopic
    Publishers = {}
    SendCap = 1
    RecvCap = 1
    AutoReconnect = TRUE
    CleanSession = TRUE
    MaxPublish = 0
    MaxReceive = 2
    MaxDrops = 1
    MaxInits = 1
SYMMETRY OwnerSymmetry
INVARIANTS SubscribedWhenSettled StoppedIsQuiet BackoffFollowsFailures MessagesAccounted
