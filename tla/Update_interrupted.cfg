SPECIFICATION FairSpec
CONSTANTS
    Runs = {p, q, r}
    None = None
    Builds = {1, 3}
    Bad = Bad
    Unit = unit
    Hand = hand
    MaxCommands = 1
    MaxFaults = 2
CHECK_DEADLOCK FALSE
INVARIANTS TypeOK Exclusive ServesItsSchema
PROPERTIES NoRestartLoop UpdateFinishes
