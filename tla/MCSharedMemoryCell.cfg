SPECIFICATION Spec
CONSTANTS
    MaxSafetyAge = 1
    Travel = 1
    Distance <- MCDistance
    Unit = 2
    MaxCount = 1
    Beater = "main"
    Uptime = 2
    MaxTime = 4
    MaxSequence = 2
    MaxRegions = 2
    HeartbeatBudget = 1
INVARIANTS TypeOK RegionHoldsCurrentVerdict DeadWriterStopsTheCell
PROPERTIES NeverBackToOlderVerdict EveryStopIsMeasured ImplementsLease NoSpuriousStaleness
CHECK_DEADLOCK FALSE
