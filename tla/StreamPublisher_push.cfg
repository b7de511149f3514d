SPECIFICATION StreamFairSpec
CONSTANTS
    Chains = {p}
    Bus = bus
    Classes = {"public", "team", "bad"}
    MaxEvents = 2
    QueueCap = 1
    HeldCap = 2
    Retries = 2
    MaxRecords = 2
    MaxJournal = 1
    MaxChanges = 1
    MaxFaults = 2
INVARIANTS CursorSound DeliveredInOrder FailClosed
PROPERTIES PublicSettled
CHECK_DEADLOCK FALSE
