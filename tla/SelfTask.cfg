\* One task of SayHelloAction among others, a restart.
SPECIFICATION FairSpec
CONSTANTS
    Tasks = {t1, t2, t3}
    Hello = {t1}
    MaxInits = 2
    None = None
INVARIANTS AtMostOnce LostOnlyAfterHello
PROPERTIES ShutdownCompletes ServedInFirstLife
\* A stopped edge with its monitor gone and nothing left to append.
CHECK_DEADLOCK FALSE
