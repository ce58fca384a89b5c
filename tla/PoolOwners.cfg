CONSTANTS
    MaxSlots = 4
    MaxGen = 20
    CaptureSize = 2
    PlaybackSize = 1
    WrongSize = 3
    MaxAccepted = 3
    MaxRefused = 1
    MaxCompletions = 9
    MaxFailures = 1
    MaxDescriptors = 5
    MaxStreams = 2
    MaxQueued = 3
    MaxPeriods = 3
    SubmitterConfigs <- SomeSubmitterConfigs
    DriverConfigs <- SomeDriverConfigs
    LeadConfigs <- SomeLeadConfigs
SPECIFICATION OwnersSpec
INVARIANTS
    OwnersMatchTheirPool
    SessionCompletionsMatch
    SlotsSubmittedOnce
    DirectionsInStep
    SafetyReportsHold
