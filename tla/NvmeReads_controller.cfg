SPECIFICATION ReadsSpec
CONSTANTS
    SubsystemIds = {s1, s2}
    ControllerIds = {k1}
    NamespaceIds = {}
    Nqns = {n1, n2}
    Cntlids = {0}
    Nsids = {1}
    Calls = {c1}
    None = None
    Faults = {"delete"}
    Overlap = FALSE
    SnapRefusesBusy = TRUE
    s1 = s1
    s2 = s2
    k1 = k1
    n1 = n1
    n2 = n2
    c1 = c1
SYMMETRY ReadsSymmetry
INVARIANTS
    ControllerFoundIsThere
