SPECIFICATION Spec
CONSTANTS
    B = 2
    Missing = Missing
    Worker = {w1, w2}
    MaxIno = 3
    MaxReqs = 3
    MaxFaults = 0
    MaxMounts = 2
    ReadOps <- MCReadOps
    WriteOps <- MCWriteOps
    Sizes <- MCSizes
SYMMETRY WorkerSymmetry
INVARIANT UnmountSavesAll
CHECK_DEADLOCK FALSE
