SPECIFICATION ResendSpec
CONSTANTS
    h1 = h1
    h2 = h2
    Handlers = {h1}
    Cooldown = 3
    WindowLength = 10
    MaxResends = 2
    Lease = 2
    MaxWait = 0
    MaxSend = 1
    MaxTime = 10
    MaxSignUps = 1
    MaxIds = 3
    NoRow = NoRow
INVARIANTS
    EveryMailLimited
CHECK_DEADLOCK FALSE
