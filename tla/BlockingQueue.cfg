\* max_size_ = 2, one Pop without and one with a timeout.
SPECIFICATION FairSpec
CONSTANTS
    Messages = {m1, m2}
    Consumers = {c1, c2, c3}
    Timed = {c2}
    MaxSize = 2
    MaxLen = 3
    None = None
INVARIANTS SleepersAreSafe
PROPERTIES PopReturnsAfterShutdown FifoSpec
