SPECIFICATION RoutingSpec
CONSTANTS
    Jobs = {j1}
    InProject = {j1}
    MaxHooks = 3
INVARIANTS ClosedOnce LiveHooksSealed
PROPERTIES ExitSeals
CHECK_DEADLOCK FALSE
