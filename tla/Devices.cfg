SPECIFICATION ComponentsSpec
CONSTANTS
  Appliers = {"old", "new", "other"}
  Versions = {1, 2, 3}
  Dir <- MCDir
  RoleFrom = 2
  NoOne = NoOne
  MaxFaults = 2
  Devices <- MCDevices
  CanBackoffStart = 1
  CanBackoffMax = 2
  MaxReported = 1
  MaxTime = 3
  CanMaxOffset = 1
  CanMaxQueue = 2
  MaxFrames = 2
  CanMaxFaults = 2
  FsyncInterval = 2
  RotateInterval = 3
  CandumpBackoffStart = 1
  CandumpBackoffMax = 4
  MaxLines = 4
  MaxRuns = 2
  CandumpMaxFaults = 2
  Second = 6
  ShimMaxOffset = 1
  MaxDelay = 2
  Width = 3
  MaxLatency = 1
  MaxError = 5
  ShimMaxFaults = 2
  NtripBackoffStart = 1
  NtripBackoffMax = 3
  AuthRetry = 3
  IdleTimeout = 2
  GgaInterval = 1
  MaxFixes = 2
  NtripMaxFaults = 3
  HostGroups = {"cpu", "clock"}
  NatsPages = 3
  Interval = 2
  MaxSlow = 5
  MonitorMaxFaults = 3
  Alerts = {"oil", "drill"}
  TestAlert = "drill"
  Severity <- MCSeverity
  Channels <- MCChannels
  MinSeverity <- MCMinSeverity
  RepeatS <- MCRepeatS
  Backoff <- MCBackoff
  RetryDeadline = 2
  NotifierMaxQueue = 2
INVARIANTS
  AppliedSafely CanPathIsTrue  AlertsAreKept
PROPERTIES
  DevicesProgress
CHECK_DEADLOCK FALSE
