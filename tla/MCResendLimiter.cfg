SPECIFICATION ResendSpec
CONSTANTS
    h1 = h1
    h2 = h2
    Handlers = {h1, h2}
    Cooldown = 4
    WindowLength = 13
    MaxResends = 2
    Lease = 2
    MaxWait = 1
    MaxSend = 2
    MaxTime = 18
    MaxSignUps = 1
    MaxIds = 4
    NoRow = NoRow
INVARIANTS
    WindowLimited
    NoUncountedMail
    MailsSpaced
SYMMETRY Symmetry
VIEW WithoutDenied
CHECK_DEADLOCK FALSE
