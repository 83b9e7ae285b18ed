\* The message of a refused start is true: one writer, nothing fails.
SPECIFICATION Spec
CONSTANTS
  Writers = {w1}
  NoOne = NoOne
  MaxSeq = 2
  MaxFaults = 0
  MaxCrashes = 0
  QueueCapacity = 3
  Torn = Torn
INVARIANT
  AlarmMeansRollback
CHECK_DEADLOCK FALSE
