SPECIFICATION Spec
CONSTANTS
    BusCap = 1
    MaxEnvelopes = 2
    MaxSessions = 2
    MaxRestarts = 1
INVARIANTS NumberingSound JoinSound
PROPERTIES BacklogDelivered
CHECK_DEADLOCK FALSE
