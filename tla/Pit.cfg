SPECIFICATION ComponentsSpec
CONSTANTS
  MaxActs = 4
  FaultBudget <- MCAll
  MaxFaults = 3
  Drivers = {"A", "B", "C"}
  Times = {0, 1, 2, 3}
  MaxStints = 4
  Clients = {"c1", "c2"}
  Workers = 2
  Bodies <- PlanBodies
  Tank = 1
  MaxSessions = 2
  MaxRequests = 2
  PlanMaxFaults = 1
  Threads = {"t1", "t2"}
  ClientQueue = 1
  HeartbeatLimit = 0
  Names <- MCNames
  Files <- LiveFiles
  MaxInbox = 1
  MaxEdits = 1
  DecoderMaxFaults = 1
  Chans = {1, 2}
  Views <- LiveViews
  Tps = 2
  QueueSize = 2
  Batches <- MCBatches
  MaxOffers = 3
  LimiterMaxFaults = 1
INVARIANTS
  Recorded PublishedIsRecorded RefusedHasNoEffect QuietIsPublished SessionSound
  PlanIsSafe 
PROPERTIES
  NatsInOrder SessionSurvives PitProgress
CHECK_DEADLOCK FALSE
