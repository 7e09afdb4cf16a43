SPECIFICATION VoiceSpec
CONSTANTS
    k1 = k1
    k2 = k2
    k3 = k3
    h1 = h1
    h2 = h2
    home = home
    NoWindow = NoWindow
    Keys = {k1, k2, k3}
    Handlers = {h1, h2}
    Zones = {home}
    Midnight <- AtHome
    Day = 3
    DailyLimit = 1
    BurstLimit = 1
    BurstWindow = 2
    Lease = 2
    Retention = 4
    MaxWait = 1
    MaxTime = 6
    MaxCalls = 4
INVARIANTS
    OneRunPerIdentity
    UsageLimited
SYMMETRY Symmetry
CHECK_DEADLOCK FALSE
