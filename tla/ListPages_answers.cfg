SPECIFICATION Spec
CONSTANTS
    Methods = {"ListNvmeSubsystems", "ListNvmeControllers", "ListNvmeNamespaces", "ListVirtioBlks"}
    Clients = {c1}
    Nqns <- MCNqns
    Items = {1, 2, 3}
    Below <- MCBelow
    PageSizes = {0, 1, 5}
    DefaultSize = 2
    MaxSize = 2
    MaxRestarts = 1
    None = None
    n1 = n1
    n2 = n2
    c1 = c1
INVARIANTS
    ListTypeOK
    AnswersTrue
CHECK_DEADLOCK FALSE
