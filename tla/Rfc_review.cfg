SPECIFICATION Spec
CONSTANTS
    Agents = {a1, a2}
    Human = human
    Services = {shell, detached}
    Shell = shell
    None = None
    MaxAsks = 2
    MaxCalls = 3
    MaxVersions = 2
    MaxFaults = 1
SYMMETRY AgentSymmetry
INVARIANTS EditsInOrder LogWellFormed NothingLost PromotedReviewed
