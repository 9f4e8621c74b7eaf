SPECIFICATION StreamSpec
CONSTANTS
    OsName = {"a", "b"}
    Name = {"a", "b"}
    Lossy <- MCLossy
    NoIndex = NoIndex
    MaxIno = 3
    MaxFaults = 1
    MaxMoves = 4
INVARIANTS StreamTypeOK MissesAtMostLeft RepeatsAtMostCame
