SPECIFICATION Spec
CONSTANTS
    None = None
    Torn = Torn
    MaxKey = 3
    MaxEdits = 2
    MaxCrashes = 3
INVARIANTS TypeOK PairRecoverable AckedSurvives
PROPERTIES SwapIsAtomic RootKept
