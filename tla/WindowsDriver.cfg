SPECIFICATION DriverSpec
CONSTANTS
  RenderStreams = {r1}
  CaptureStreams = {c1}
  Slots = {1}
  PacketFrames = 1
  MaxPrepares = 4
  MaxRuns = 2
  MaxTransfers = 1
  MaxFaults = 1
  Modes = {"line", "phono"}
  DefaultMode = "line"
  Rates = {"r44", "r48"}
  DefaultRate = "r48"
  WriteAttempts = 2
  ReadRounds = 2
  Budgets <- DriverBudgets
INVARIANTS PacketsHeld EpochsKeptApart ReferencesAccounted
  DeviceAsBelieved OneShotsAlone SomeoneGoesOn
CHECK_DEADLOCK FALSE
