SPECIFICATION Spec
CONSTANTS
  RenderStreams = {r1}
  CaptureStreams = {c1}
  Slots = {1}
  PacketFrames = 1
  MaxPrepares = 4
  MaxRuns = 2
  MaxTransfers = 0
  MaxFaults = 0
INVARIANT RunIsServed
CHECK_DEADLOCK FALSE
