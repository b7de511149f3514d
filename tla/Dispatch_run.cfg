SPECIFICATION FairSpec
CONSTANTS
    a = a
    b = b
    Tasks = {a, b}
    DependsOn <- Chain
    Oracle = {b}
    MaxAttempts = 2
    MaxInflight = 2
    OnTaskFail = "pause"
    GlobalAccept = TRUE
    MaxReplans = 1
    Signatures = {"s"}
    NoTask = NoTask
    MaxJobs = 4
    MaxStarts = 1
    MaxFaults = 1
INVARIANTS SealedBeforeClaimed OneOutcome GateHeld InputsSound
PROPERTIES Terminates
CHECK_DEADLOCK FALSE
