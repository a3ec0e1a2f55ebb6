SPECIFICATION Spec
CONSTANTS
    MaxSafetyAge = 2
    Travel = 1
    Distance <- MCDistance
    Unit = 2
    MaxCount = 0
    Formats = {"stamped", "readiness"}
    PollPeriod = 1
    PollSlack = 0
    MaxTurnaround = 1
    CutFactors = {2}
    Uptime = 3
    MaxTime = 7
    MaxSequence = 2
    MaxStarts = 1
INVARIANTS TypeOK MovesOnlyOnAPermitGiven SilenceExplainsStaleness
PROPERTIES ImplementsLease NeverBackToOlderVerdict EveryStopIsMeasured
VIEW UndatedView
CHECK_DEADLOCK FALSE
