SPECIFICATION AllFair
CONSTANTS
    a = a
    b = b
    d = d
    Hosts = {a, b, d}
    Dialers = {d}
    Ports = {1}
    Conns = {1, 2, 3}
    None = None
    Absent = Absent
    MaxHosts = 3
    UtilMaxPct = 66
    MaxStreamsPerPort = 1
    StreamIds = {1}
    NoChunk = NoChunk
    Traffic <- Orderly
    Parts = {"ports", "stream", "presence"}
INVARIANTS TablesMatch SeatsWithinLimits
PROPERTIES KeepsSeat StopEnds StreamsCarry PresenceTrue
CHECK_DEADLOCK FALSE
