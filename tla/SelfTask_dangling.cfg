\* Shutdown destroys the queue the monitor waits on.
SPECIFICATION Spec
CONSTANTS
    Tasks = {t1}
    Hello = {}
    MaxInits = 1
    None = None
INVARIANTS QueueOutlivesUse
\* A stopped edge with its monitor gone and nothing left to append.
CHECK_DEADLOCK FALSE
