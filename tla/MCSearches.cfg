SPECIFICATION Spec
CONSTANTS
    Top = 8
    StepLengths = {2, 3}
    TracePoints = 3
    Rounds = 3
    MaxValue = 2
    MaxReaction = 1
INVARIANTS TypeOK Bracket HighestSpeedThatFits FirstInstantBelow PhasesAreTheRuns PhasesTileTheStop TraceSpansTheStop
CHECK_DEADLOCK FALSE
