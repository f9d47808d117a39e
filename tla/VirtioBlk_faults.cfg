SPECIFICATION Spec
CONSTANTS
    VirtioIds = {v1, v2, v3}
    SerialNames = {v1, v2}
    Pfs = {f1, f2}
    Calls = {c1, c2, c3}
    None = None
    Overlap = FALSE
    v1 = v1
    v2 = v2
    v3 = v3
    f1 = f1
    f2 = f2
    c1 = c1
    c2 = c2
    c3 = c3
SYMMETRY VirtioSymmetry
INVARIANTS
    VirtioTypeOK
    LiveVirtioOnSnap
    LivePfsUnique
    GetsConsistent
PROPERTIES
    SnapLosesOnlyObjects
    TableImplemented
