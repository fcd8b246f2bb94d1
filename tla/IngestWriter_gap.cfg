SPECIFICATION Spec
CONSTANTS
  Gens = {1}
  MaxBatches = 2
  FetchBatch = 1
  MaxAckPending = 3
  BatchRows = 2
  MaxBufferedRows = 2
  FaultBudget <- MCRestart
  MaxFaults = 1
INVARIANTS NoGap
