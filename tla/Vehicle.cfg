SPECIFICATION ComponentsSpec
CONSTANTS
  Collectors = {"can0"}
  MaxSamples = 2
  MaxRounds = 1
  Metrics = 0
  MaxTime = 1
  Tick = 1
  QueueLen = 1
  Window = 2
  BufferBudget = 1
  FaultBudget <- MCAll
  MaxFaults = 2
  Malformed = {2}
  MaxMessages = 4
  InboxMaxFaults = 3
  Sentences = {3, 4}
  BackoffStart = 1
  BackoffMax = 2
  RawRetry = 1
  SerialMaxFaults = 3
  Values = {0, 3, 4, 5}
  Scale = 3
  Offset = 2
  Deadband = 1
  MinInterval = 1
  MaxInterval = 2
  ReportTick = 2
  ReportMaxTime = 3
  Axes = {1, 2}
  Roles = {"lat", "lon"}
  MaxSkew = 0
  Period = 2
  Lateness = 1
  MaxQueue = 3
  InputMaxTime = 2
INVARIANTS
  Accounted MemoryBounded NothingLeftBehind StreamIsSound IntakeIsTrue SamplesAreTrue
PROPERTIES
  VehicleProgress
CHECK_DEADLOCK FALSE
