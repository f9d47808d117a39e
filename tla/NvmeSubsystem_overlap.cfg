SPECIFICATION SubsysSpec
CONSTANTS
    SubsystemIds = {s1, s2}
    ControllerIds = {}
    NamespaceIds = {}
    Nqns = {n1, n2}
    Cntlids = {0}
    Nsids = {}
    Calls = {c1, c2}
    None = None
    Faults = {}
    Overlap = TRUE
    SnapRefusesBusy = TRUE
    s1 = s1
    s2 = s2
    n1 = n1
    n2 = n2
    c1 = c1
    c2 = c2
SYMMETRY Symmetry
PROPERTIES
    ObjectsNotReplaced
