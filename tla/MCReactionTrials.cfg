SPECIFICATION TrialsSpec
CONSTANTS
    MaxSafetyAge = 1
    Travel = 1
    Distance <- MCDistance
    Unit = 2
    MaxCount = 1
    Formats = {"stamped"}
    PollPeriod = 2
    PollSlack = 0
    MaxTurnaround = 0
    CutFactors = {}
    Uptime = 2
    MaxTime = 10
    MaxSequence = 5
    MaxStarts = 1
    Settle = 3
    Patience = 2
INVARIANTS TrialsTypeOK NewSequenceNewTimestamp SampleIsOfThisTrial
CHECK_DEADLOCK FALSE
