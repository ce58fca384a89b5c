SPECIFICATION Spec
CONSTANTS
  SlotCount = 2
  RetryLimit = 1
  Workers = {w1}
  MaxStarts = 1
  MaxPrepares = 1
  MaxFaults = 1
  MaxOvertaken = 0
INVARIANTS RequestsAccounted NoStrandedCompletion
PROPERTY OrderedPurgeDrains
CHECK_DEADLOCK FALSE
