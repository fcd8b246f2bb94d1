SPECIFICATION FairSpec
CONSTANTS
  Gens = {1}
  MaxBatches = 3
  FetchBatch = 1
  MaxAckPending = 3
  BatchRows = 2
  MaxBufferedRows = 2
  FaultBudget <- MCCrash
  MaxFaults = 2
INVARIANTS BufferBounded
PROPERTIES EventuallyIngested
