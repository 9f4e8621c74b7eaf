SPECIFICATION Spec
CONSTANTS
    Proc = {p1, p2}
    MaxVersion = 3
    MaxFaults = 2
SYMMETRY Symmetry
CHECK_DEADLOCK FALSE
INVARIANTS TypeOK ReplacedWhole ReportedRemains
