SPECIFICATION AllFair
CONSTANTS
    m1 = m1
    m2 = m2
    h1 = h1
    None = None
    Managers = {m1, m2}
    Hosts = {h1}
    NoHost = None
    Ttl = 4
    Renew = 1
    Skew <- SkewedClock
    Prompt = TRUE
    Latency = 1
    MaxCalls = 2
    MaxNow = 4
    MaxEpoch = 2
INVARIANTS PromptLease
PROPERTIES PageRecovers SchemaComplete ContentRight PluginsTell
CHECK_DEADLOCK FALSE
