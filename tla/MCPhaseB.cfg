SPECIFICATION Spec
CONSTANTS
    Intervals = {3}
    Fractions <- MCFractions
    FractionUnit = 3
    ProfileTicks = 1
    Speed = 2
    Braking = 3
    Plane = 5
    Delta = 1
    Errors <- MCErrors
    MaxEdits = 2
INVARIANTS PassedTheFrozenLadder PassedTheFrozenCriterion WithinToleranceAgrees
CHECK_DEADLOCK FALSE
