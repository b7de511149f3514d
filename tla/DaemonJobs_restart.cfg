SPECIFICATION FairSpec
CONSTANTS
    Runtimes = {r1, r2}
    None = None
    MaxId = 3
    MaxCrashes = 2
INVARIANTS RosterSound Accounted WaitSound
PROPERTIES RosterDrains
CHECK_DEADLOCK FALSE
