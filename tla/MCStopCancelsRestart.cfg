SPECIFICATION Spec
CONSTANTS
    Account = TRUE
    Slow = FALSE
    PromptScopes = TRUE
    EnablePatch = FALSE
    SpawnFails = FALSE
    MaxRestarts = 1
    BadPlugins = 0
    MaxInsts = 4
    MaxRequests = 3
PROPERTIES
    StopCancelsRestart
CHECK_DEADLOCK FALSE
