SPECIFICATION Spec
CONSTANTS
    Names = {a, b}
    Specs = {s1, s2}
    Procs = {p1, p2, p3, p4}
    Jobs = {j1}
    Sup = Sup
    None = None
    Broken = Broken
    MaxEdits = 1
    MaxFaults = 1
SYMMETRY Symmetry
INVARIANTS TypeOK NoOrphan OneInstance StatusTruthful
PROPERTIES ReconcileApplies SlotsSpec
