SPECIFICATION Spec
CONSTANTS
    Proc = {p1, p2}
    Password = {pw1, pw2}
    Identity = {ann, bob}
    None = None
    MaxCommands = 5
    MaxKey = 3
CHECK_DEADLOCK FALSE
SYMMETRY Symmetry
INVARIANTS TypeOK OneKeyPerHeader SlotsInBounds VolumeOpens RekeyRetires RevokedStaysOut
PROPERTIES CommandsEditTheList
