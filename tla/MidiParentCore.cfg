CONSTANTS
    Threads = {t1, t2}
    RingCapacity = 2
    MaxFrame = 1
    MaxEpoch = 11
    MaxClients = 2
    MaxRuns = 2
SPECIFICATION FairSpec
INVARIANTS
    CallbacksHaveOwners
    TeardownIsQuiet
    NoStaleBytes
PROPERTIES
    StopRunsDown
CHECK_DEADLOCK FALSE
