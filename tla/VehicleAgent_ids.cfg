SPECIFICATION Spec
CONSTANTS
  Collectors = {"can0"}
  MaxSamples = 0
  MaxRounds = 1
  Metrics = 2
  MaxTime = 0
  Tick = 1
  QueueLen = 3
  Window = 2
  BufferBudget = 3
  FaultBudget <- MCNone
  MaxFaults = 0
CHECK_DEADLOCK FALSE
INVARIANTS DistinctIds
