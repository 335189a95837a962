SPECIFICATION FairSpec
CONSTANTS
    Cap = 2
    Limits <- SomeLimits
    None = None
    Torn = Torn
    Newline = Newline
    MaxRecords = 3
    MaxFaults = 1
INVARIANTS TypeOK LogInOrder ShownOnce NothingSkipped
PROPERTIES NothingFused PrunesByTheLimits CatchesUp
