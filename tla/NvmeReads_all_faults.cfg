SPECIFICATION ReadsSpec
CONSTANTS
    SubsystemIds = {s1, s2}
    ControllerIds = {k1}
    NamespaceIds = {x1}
    Nqns = {n1, n2}
    Cntlids = {0}
    Nsids = {1}
    Calls = {c1}
    None = None
    Faults = {"create", "delete"}
    Overlap = FALSE
    SnapRefusesBusy = FALSE
    s1 = s1
    s2 = s2
    k1 = k1
    x1 = x1
    n1 = n1
    n2 = n2
    c1 = c1
SYMMETRY ReadsSymmetry
INVARIANTS
    NoFalseMiss
    NoFalseHit
