SPECIFICATION Spec
CONSTANTS
    Names = {config, policies}
    Folders = {policies}
    Target = 2
    Origins = {0}
    Starts = {{config}}
    OldBackup = FALSE
    None = None
    Empty = Empty
    Bad = Bad
    MaxCrashes = 1
    MaxErrors = 0
    MaxFaults = 1
CHECK_DEADLOCK FALSE
INVARIANT NoSilentLoss
