SPECIFICATION Spec
CONSTANTS
  Gens = {1}
  MaxBatches = 3
  FetchBatch = 2
  MaxAckPending = 3
  BatchRows = 2
  MaxBufferedRows = 2
  FaultBudget <- MCAll
  MaxFaults = 2
INVARIANTS TypeOK NoDuplicateRows LossOnlyIfExposed SettledIsSafe HeldNotPassed
PROPERTIES ArchiveSpec
