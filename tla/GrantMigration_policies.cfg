SPECIFICATION Spec
CONSTANTS
    Worlds <- MCWorlds
    Nfc <- MCNfc
    Nfd <- MCNfd
    Calls <- MCCalls
    Alphabet <- Characters
    Torn = Torn
    None = None
    MaxParts = 1
CHECK_DEADLOCK FALSE
INVARIANTS TypeOK NoTransferAmongAgents StillGranted NoneLooksCurrent KeepsToItsLevel StaysUnder
