SPECIFICATION Spec
CONSTANTS
    B = 2
    Missing = Missing
    Byte = {1}
    MaxSize = 4
    MaxWrite = 2
    MaxFaults = 2
INVARIANTS TypeOK ReadsAreHonest MissingMeansEmpty OnlyHarmRefuses
