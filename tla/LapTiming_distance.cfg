SPECIFICATION Spec
CONSTANTS
    N = 2
    Reentry = 2
    MinLap = 3
    MaxBuffered = 3
    MaxCross = 3
    Gaps = {2}
    FaultBudget <- MCNone
    MaxFaults = 0
INVARIANT DistanceAnchored
CHECK_DEADLOCK FALSE
