SPECIFICATION FairSpec
CONSTANTS
    MaxSafetyAge = 1
    Travel = 1
    Distance <- MCDistance
    Unit = 12
    MaxCount = 1
    MaxTime = 2
    MaxSequence = 1
INVARIANTS TypeOK PermitFlagMatchesMotion
PROPERTIES CycleOrder MeasuredOnlyOnTheEdge UninterruptedSpeed CyclesForever
