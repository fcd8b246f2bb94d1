SPECIFICATION Spec
CONSTANTS
  MaxActs = 2
  FaultBudget <- MCCancel
  MaxFaults = 1
CHECK_DEADLOCK FALSE
INVARIANTS EveryChangePublished
