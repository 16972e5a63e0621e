SPECIFICATION AllSpec
CONSTANTS
    m1 = m1
    m2 = m2
    r1 = r1
    r2 = r2
    Managers = {m1, m2}
    Hosts = {h1}
    NoHost = NoHost
    Ttl = 3
    Renew = 1
    Skew <- FarClock
    Prompt = FALSE
    Latency = 0
    MaxCalls = 2
    MaxNow = 2
    MaxEpoch = 2
    N = 2
    Default = 1
    Requests = {r1, r2}
    MaxFlips = 2
    MaxFails = 1
    MaxRestarts = 1
INVARIANTS TokenInv OneHolder
PROPERTIES ImplementsFencing RoutingTrue ProxyServes
CHECK_DEADLOCK FALSE
SYMMETRY RequestSymmetry
