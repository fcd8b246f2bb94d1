SPECIFICATION ComponentsSpec
CONSTANTS
  Part = 2
  LapTime = 2
  RefuelMin = 3
  Service = 1
  Ranges = {2, 3, 5}
  Fuels = {0, 1, 3, 6}
  Ends = {0, 2, 5, 8}
  Limits = {0, 1, 4, 7}
  Plans <- StopPlans
  MaxStops = 20
  Horizon = 4
  FuelLapTime = 2
  Tank = 8
  Fills = {6, 8}
  Unusable = 1
  Uncertainty <- MCUncertainty
  Slosh = 1
  FuelMaxLaps = 3
  FuelMaxStops = 2
  Monitors = {"fuel"}
  Channels = {"c1"}
  OutboxSize = 1
  PitInterval = 1
  MaxInterval = 1
  MaxSessions = 2
  StrategyMaxLaps = 1
  StrategyMaxFaults = 1
  Comps = {1, 2}
  Shapes <- MCShapes
  Registries <- MCRegistries
  FeedMaxLaps = 1
  MaxEpochs = 2
  MixedCars = 1
  FeedQueueSize = 1
  FeedMaxFaults = 1
  Ids = 3
  PayloadMax = 1
  Sizes <- MCSizes
  MaxSize = 3
  Backoff <- MCBackoff
  ConnectionMaxFaults = 2
  FieldMaxLaps = 2
  Tolerance = 1
  Times = {1, 2, 4}
  FieldWindow = 2
  MaxRows = 2
  FieldMaxFaults = 1
  Clients = {"x", "y"}
  MaxWorkers = 1
  Layouts = {1, 2}
  BoardBoards <- MCBoardBoards
  BoardQueueSize = 1
  MaxSent = 3
  Starters = {"agent", "tool"}
  Names = {"a", "b", "c", "d", "e"}
  SourceOf <- MCSourceOf
  Profiles <- ChannelProfiles
  First <- FirstProfile
  DerivedStart = 5
  Synthetic <- MCSynthetic
  MaxSeq = 2
  NoOne = "nobody"
  MaxEdits = 1
  IdentityMaxFaults = 1
  SampleDumps <- MCSampleDumps
  LapDumps <- MCLapDumps
  BatchRows = 2
  CheckpointLines = 3
  MaxRuns = 2
INVARIANTS
  StrategyIsSound  ArchiveIsTrue
PROPERTIES
  ChangesAreSeen
CHECK_DEADLOCK FALSE
