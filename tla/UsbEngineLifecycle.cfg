CONSTANTS
    CaptureDepth = 2
    Lead = 2
    PlaybackMax = 3
    CounterSize = 16
    MaxSessions = 2
    MaxStops = 1
    MaxFailures = 2
SPECIFICATION FairSpec
INVARIANTS
    TransfersAccounted
    DepthSustained
PROPERTIES
    CaptureFlows
CHECK_DEADLOCK FALSE
