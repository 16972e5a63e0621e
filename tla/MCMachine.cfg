SPECIFICATION AllFair
CONSTANTS
    u1 = u1
    u2 = u2
    a = a
    b = b
    c = c
    None = None
    Account = TRUE
    Slow = FALSE
    PromptScopes = TRUE
    EnablePatch = TRUE
    SpawnFails = FALSE
    MaxRestarts = 1
    BadPlugins = 1
    MaxInsts = 4
    MaxRequests = 3
INVARIANTS NoStray NeverWedged
PROPERTIES LocalObeys Adopted Confined
CHECK_DEADLOCK FALSE
