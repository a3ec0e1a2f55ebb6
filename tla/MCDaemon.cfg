SPECIFICATION Spec
CONSTANTS
    Clients = {c1, c2}
    Room = 3
    Slices = 2
INVARIANTS TypeOK NothingIsUsedOutOfScope AtMostOneMore HealthIsHonest
PROPERTIES SignalEndsIt FailedStartEndsIt
CHECK_DEADLOCK FALSE
