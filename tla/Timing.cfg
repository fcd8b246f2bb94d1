SPECIFICATION ComponentsSpec
CONSTANTS
  N = 2
  Reentry = 2
  MinLap = 3
  MaxBuffered = 3
  MaxCross = 6
  Gaps = {1}
  FaultBudget <- MCAll
  MaxFaults = 1
  ImuTimeout = 1
  ImuRecovery = 3
  Stale = 2
  Second = 2
  MaxOutage = 4
  FrozenSamples = 2
  Fallback = 3
  Multiple = 1
  ExtrapolatorMinLap = 2
  Reports <- ClockReports
  Skews = {0, 2}
  MaxTime = 3
  MaxFlight = 3
  ExtrapolatorMaxFaults = 1
  K = 1
  H = 8
  Sigma = 2
  Residuals = {0, 2, 3, 4, 6}
  Shift = 3
  MaxCusum = 20
  Kinds = {"envelope", "whole_car", "drift", "stored", "ratio", "counter"}
  Baseline = 1
  MaxTick = 3
  MaxSession = 2
  MaxStint = 1
  MaxBacklog = 1
  WatchMaxFaults = 1
INVARIANTS
    PositionIsTrue ClockShownIsTrue 
PROPERTIES
  EvidenceDecides
CHECK_DEADLOCK FALSE
