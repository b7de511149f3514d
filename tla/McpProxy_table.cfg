SPECIFICATION ProxySpec
CONSTANTS
    Calls = {c1, c2}
    MaxSessions = 2
INVARIANTS PendingSound
PROPERTIES ReplacedReleases
CHECK_DEADLOCK FALSE
