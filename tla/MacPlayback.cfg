CONSTANTS
    Capacity = 4
    StartLatency = 1
    RestartLatency = 1
    TargetLatency = 1
    HighWater = 2
    Prefetch = 2
    FrameBytes = 2
    StartByte = 1
    TransferFrames = 1
    IoFrames = {2}
    MaxLoudCycles = 3
    MaxFrame = 5
SPECIFICATION PlaybackSpec
INVARIANTS
    PhaseKept
PROPERTIES
    ImplementsTape
    PlayedFreshInOrder
