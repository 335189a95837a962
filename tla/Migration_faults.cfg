SPECIFICATION FairSpec
CONSTANTS
    Names = {config, policies}
    Folders = {policies}
    Target = 2
    Origins = {0, 1, 2}
    Starts = {{}, {config, policies}}
    OldBackup = TRUE
    None = None
    Empty = Empty
    Bad = Bad
    MaxCrashes = 1
    MaxErrors = 2
    MaxFaults = 2
CHECK_DEADLOCK FALSE
INVARIANTS TypeOK MarkerNotAhead NeverItsOwnOutput NoSilentLoss NothingLost CleanEnd
PROPERTIES StepsAsPromised MigratesOrJams
