\* Two producers, a consumer with a deadline and one without.
SPECIFICATION FairSpec
CONSTANTS
    Tasks = {t1, t2}
    Producers = {p1, p2}
    Consumers = {c1, c2}
    Timed = {c2}
    MaxLen = 3
    None = None
INVARIANTS WakeupPending ShutdownWakes
PROPERTIES FifoSpec
