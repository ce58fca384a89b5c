SPECIFICATION FairSpec
CONSTANTS
  SlotCount = 1
  RetryLimit = 0
  Workers = {w1}
  MaxStarts = 2
  MaxPrepares = 2
  MaxFaults = 1
  MaxOvertaken = 1
INVARIANTS ReleaseSucceeds GenerationFence
PROPERTY StoppingEnds
CHECK_DEADLOCK FALSE
