SPECIFICATION Spec
CONSTANTS
    Writers = {w1, w2}
    Readers = {r1}
    Nobody = Nobody
    MaxOperations = 3
    MaxFaults = 1
    MaxCrashes = 1
    MaxStatuses = 1
CHECK_DEADLOCK FALSE
INVARIANTS ActivityNamesOwner PreviousIsTrue RunningRowIsNewest
PROPERTIES LockIsReleased
