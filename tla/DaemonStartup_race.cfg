SPECIFICATION Spec
CONSTANTS
    Daemons = {d1, d2, d3}
    Repls = {r1}
    None = None
    MaxCrashes = 2
INVARIANTS SoleOwnerUntilReclaim ReachableUntilReclaim SomeoneWins
CHECK_DEADLOCK FALSE
