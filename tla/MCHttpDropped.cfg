SPECIFICATION Spec
CONSTANTS
    MaxSafetyAge = 5
    Travel = 1
    Distance <- MCDistance
    Unit = 2
    MaxCount = 1
    Formats = {"stamped"}
    PollPeriod = 2
    PollSlack = 0
    MaxTurnaround = 20
    CutFactors = {2}
    Uptime = 6
    MaxTime = 40
    MaxSequence = 2
    MaxStarts = 1
INVARIANTS OneDroppedRequestIsSurvived
CHECK_DEADLOCK FALSE
