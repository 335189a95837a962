SPECIFICATION FairSpec
CONSTANTS
    Names = {a}
    Specs = {s1, s2}
    Procs = {p1, p2}
    Jobs = {j1}
    Sup = Sup
    None = None
    Broken = Broken
    MaxEdits = 1
    MaxFaults = 1
PROPERTIES ConfigApplied ReconcileEnds ShutdownEnds
