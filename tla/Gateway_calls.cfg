SPECIFICATION Spec
CONSTANTS
    Agents = {x}
    Servers = {s, t}
    AgentIds = {a1, a2}
    ServerIds = {d1, d2}
    Keys = {k1, k2}
    Calls = {c1}
    None = None
    CacheMax = 1
    MaxEdits = 3
SYMMETRY Symmetry
INVARIANTS TypeOK OnlyWhatIsGranted OutageIsNotDenial GrantsAsGiven
PROPERTY AuthenticatesTheHolder
