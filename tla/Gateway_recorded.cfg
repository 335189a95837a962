SPECIFICATION Spec
CONSTANTS
    Agents = {x}
    Servers = {s}
    AgentIds = {a1, a2}
    ServerIds = {d1, d2}
    Keys = {k1, k2}
    Calls = {c1}
    None = None
    CacheMax = 1
    MaxEdits = 3
SYMMETRY Symmetry
INVARIANT EveryCallRecorded
