SPECIFICATION Spec
CONSTANTS
    OsName = {"a", "b", "b_invalid_utf8"}
    Name = {"a", "b"}
    Lossy <- MCLossy
    NoIndex = NoIndex
    MaxIno = 4
    MaxFaults = 2
INVARIANTS TypeOK IndexConsistent ParentsLive TreeHasNoCycle StaleNumberStaysFree
PROPERTY OneNameAtATime
