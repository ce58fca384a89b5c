CONSTANTS
    Clients = {c1, c2}
    Rates = {44, 48}
    FirstRate = 48
    Sizes = {512, 1024}
    PreferredSize = 512
    MaxStarts = 2
    MaxChanges = 1
    Streams = {A, B}
    MaxCycles = 2
    MaxUsages = 1
SPECIFICATION FairSpec
INVARIANTS
    StreamsForItsClients
    RateAgrees
    CyclesWrittenOnce
PROPERTIES
    SeedNamesTimeline
    AbandonedStreamStops
CHECK_DEADLOCK FALSE
