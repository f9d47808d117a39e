SPECIFICATION Spec
CONSTANTS
    SubsystemIds = {s1, s2}
    ControllerIds = {k1, k2}
    NamespaceIds = {x1}
    Nqns = {n1, n2}
    Cntlids = {0, 1}
    Nsids = {1}
    Calls = {c1, c2}
    None = None
    Faults = {"delete"}
    Overlap = FALSE
    SnapRefusesBusy = FALSE
    s1 = s1
    s2 = s2
    k1 = k1
    k2 = k2
    x1 = x1
    n1 = n1
    n2 = n2
    c1 = c1
    c2 = c2
SYMMETRY Symmetry
INVARIANTS
    NoOrphanOnSnap
