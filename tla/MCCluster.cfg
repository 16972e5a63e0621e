SPECIFICATION AllSpec
CONSTANTS
    m1 = m1
    m2 = m2
    Parts = {"given"}
    Managers = {m1, m2}
    h1 = h1
    Hosts = {h1, h2}
    DefaultHost = h1
    None = None
    Attempts = 2
    MaxOps = 2
    Serial = FALSE
    Faults = {"timeout", "expiry"}
INVARIANTS TokenNamesHost StopBeforeLaunch
CHECK_DEADLOCK FALSE
SYMMETRY ManagerSymmetry
