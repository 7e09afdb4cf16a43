SPECIFICATION HandlerSpec
CONSTANTS
    k1 = k1
    k2 = k2
    k3 = k3
    k4 = k4
    s1 = s1
    s2 = s2
    day = day
    past = past
    older = older
    NoRequest = NoRequest
    h1 = h1
    h2 = h2
    Keys = {k1, k2, k3, k4}
    Sms = {s1, s2}
    Sessions = {day, past, older}
    HistorySessions = {past, older}
    Handlers = {h1, h2}
    Requests <- ClientRequests
    MaxScan = 2
    MaxRolling = 2
    MaxBurst = 2
    RollingWindow = 1
    BurstWindow = 2
    Cooldown = 1
    Lease = 1
    MaxTime = 2
    MaxCalls = 3
    MaxAttempts = 1
    FirstStrikes <- TwoStrikes
INVARIANTS
    OneRunPerRequest
    WithinLimits
    StrikesAreEarned
PROPERTIES
    NoTerminalStart
SYMMETRY Symmetry
CHECK_DEADLOCK FALSE
