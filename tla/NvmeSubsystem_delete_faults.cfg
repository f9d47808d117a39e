SPECIFICATION SubsysSpec
CONSTANTS
    SubsystemIds = {s1, s2}
    ControllerIds = {}
    NamespaceIds = {}
    Nqns = {n1}
    Cntlids = {0}
    Nsids = {}
    Calls = {c1}
    None = None
    Faults = {"delete"}
    Overlap = FALSE
    SnapRefusesBusy = TRUE
    s1 = s1
    s2 = s2
    n1 = n1
    c1 = c1
SYMMETRY Symmetry
INVARIANTS
    NqnsUniqueAtRest
