SPECIFICATION FairSpec
CONSTANTS
    Jobs = {a, b, c}
    None = None
    Native = {b, c}
    Sessions = {s}
    Cap = 2
    Attempts = 2
    MaxTurns = 3
    MaxFaults = 1
INVARIANTS AnsweredIsFiled LatestSound
PROPERTIES HistoryImmutable StopAnswered
CHECK_DEADLOCK FALSE
