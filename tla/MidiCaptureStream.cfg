CONSTANTS
    Threads = {t1, t2}
    RingCapacity = 2
    MaxFrame = 1
    MaxEpoch = 8
    MaxClients = 2
    MaxRuns = 2
SPECIFICATION StreamSpec
INVARIANTS
    NoLostWakeup
PROPERTIES
    BytesAreRead
CHECK_DEADLOCK FALSE
