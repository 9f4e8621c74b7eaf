SPECIFICATION Spec
CONSTANTS
    B = 2
    Missing = Missing
    Worker = {w1, w2}
    MaxIno = 3
    MaxReqs = 4
    MaxFaults = 1
    MaxMounts = 2
    ReadOps <- MCReadOps
    WriteOps <- MCWriteOps
    Sizes <- MCSizes
SYMMETRY WorkerSymmetry
INVARIANTS TypeOK CommittedMatches WriterOwnsEntry ReadsCommitted CleanMeansSaved SyncedSurvivesKill
CHECK_DEADLOCK FALSE
