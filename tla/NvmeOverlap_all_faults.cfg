SPECIFICATION OverlapSpec
CONSTANTS
    SubsystemIds = {s1, s2}
    ControllerIds = {k1}
    NamespaceIds = {x1}
    Nqns = {n1}
    Cntlids = {0, 1}
    Nsids = {1}
    Calls = {c1, c2}
    None = None
    Faults = {"create", "delete"}
    Overlap = TRUE
    SnapRefusesBusy = FALSE
    s1 = s1
    s2 = s2
    k1 = k1
    x1 = x1
    n1 = n1
    c1 = c1
    c2 = c2
SYMMETRY OverlapSymmetry
PROPERTIES
    OnlyRivalsStray
    OnlyRivalsReplace
