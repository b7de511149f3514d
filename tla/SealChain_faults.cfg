SPECIFICATION Spec
CONSTANTS
    Procs = {shell, daemon}
    Events = {"note", "agent.complete"}
    Terminal = {"agent.complete"}
    Faults = {"split", "torn", "bytes", "unreadable"}
    MaxRecords = 3
    MaxFaults = 2
SYMMETRY ProcSymmetry
INVARIANTS MirrorSound
PROPERTIES MirrorKeepsVerifying
