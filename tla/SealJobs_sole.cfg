SPECIFICATION Spec
CONSTANTS
    Procs = {repl}
    Faults = {"append", "rename"}
    MaxJob = 2
    MaxHash = 6
    MaxFaults = 2
    MaxRestarts = 2
INVARIANTS JobChainsSound ReferencesSound
CHECK_DEADLOCK FALSE
