SPECIFICATION Spec
CONSTANTS
  MaxActs = 2
  FaultBudget <- MCQueueFile
  MaxFaults = 2
CHECK_DEADLOCK FALSE
INVARIANTS ReplayIsHarmless
