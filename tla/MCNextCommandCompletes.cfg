SPECIFICATION Spec
CONSTANTS
    None = None
    Torn = Torn
    MaxKey = 2
    MaxEdits = 1
    MaxCrashes = 1
INVARIANT NextCommandCompletes
