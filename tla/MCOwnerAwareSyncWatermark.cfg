SPECIFICATION OwnerSpec
CONSTANTS
    Users = {a, b}
    NoUser = NoUser
    Actors = {a}
    MaxTime = 2
    MaxEdits = 0
INVARIANTS
    OwnerMarkedUpToDate
