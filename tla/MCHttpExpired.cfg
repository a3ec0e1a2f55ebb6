SPECIFICATION Spec
CONSTANTS
    MaxSafetyAge = 1
    Travel = 1
    Distance <- MCDistance
    Unit = 2
    MaxCount = 1
    Formats = {"stamped"}
    PollPeriod = 1
    PollSlack = 0
    MaxTurnaround = 1
    CutFactors = {2}
    Uptime = 2
    MaxTime = 6
    MaxSequence = 2
    MaxStarts = 1
INVARIANTS MotionWithinPermit
CHECK_DEADLOCK FALSE
