SPECIFICATION Spec
CONSTANTS
    MaxIno = 3
    MaxReqs = 5
    MaxFaults = 2
    Len = {1, 2}
    Missing = Missing
CHECK_DEADLOCK FALSE
INVARIANTS TypeOK SyncedSurvivesPowerLoss NoForeignBytes DataGoesOnRequest
