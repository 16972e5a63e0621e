SPECIFICATION FairAllSpec
CONSTANTS
    m1 = m1
    m2 = m2
    Parts = {"given", "restarts"}
    Managers = {m1, m2}
    h1 = h1
    Hosts = {h1, h2}
    DefaultHost = h1
    None = None
    Attempts = 2
    MaxOps = 3
    Serial = TRUE
    Faults = {}
INVARIANTS OrderlySafe
PROPERTIES OperationsEndAnyway
CHECK_DEADLOCK FALSE
