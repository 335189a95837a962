SPECIFICATION Spec
CONSTANTS
    Worlds <- StateWorlds
    Nfc <- MCNfc
    Nfd <- MCNfd
    Calls <- MCCalls
    Alphabet <- Characters
    Torn = Torn
    None = None
    MaxParts = 1
CHECK_DEADLOCK FALSE
INVARIANT PickedUpLater
