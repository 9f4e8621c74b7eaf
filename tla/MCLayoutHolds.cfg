SPECIFICATION Spec
CONSTANTS
    Proc = {p1, p2}
    MaxVersion = 3
    MaxFaults = 0
CHECK_DEADLOCK FALSE
INVARIANT LayoutHolds
