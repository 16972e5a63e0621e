SPECIFICATION Spec
CONSTANTS
    Managers = {m1, m2}
    Hosts = {h1, h2}
    DefaultHost = h1
    None = None
    Attempts = 1
    MaxOps = 3
    Serial = FALSE
    Faults = {}
INVARIANTS SingleWriter
CHECK_DEADLOCK FALSE
