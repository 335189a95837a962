SPECIFICATION Spec
CONSTANTS
    Cap = 2
    Limits <- SomeLimits
    None = None
    Torn = Torn
    Newline = Newline
    MaxRecords = 3
    MaxFaults = 0
INVARIANT FollowsFromTheFirst
