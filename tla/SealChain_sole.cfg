SPECIFICATION Spec
CONSTANTS
    Procs = {shell}
    Events = {"note", "tool", "agent.complete", "agent.failed"}
    Terminal = {"agent.complete", "agent.failed"}
    Faults = {}
    MaxRecords = 4
    MaxFaults = 0
INVARIANTS ChainVerifies AckedDurable TamperEvident
PROPERTIES ImplementsSealLog
