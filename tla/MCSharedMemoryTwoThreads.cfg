SPECIFICATION Spec
CONSTANTS
    MaxSafetyAge = 1
    Travel = 1
    Distance <- MCDistance
    Unit = 2
    MaxCount = 1
    Beater = "heartbeat"
    Uptime = 2
    MaxTime = 5
    MaxSequence = 2
    MaxRegions = 1
    HeartbeatBudget = 1
INVARIANTS RegionHoldsCurrentVerdict
CHECK_DEADLOCK FALSE
