SPECIFICATION OwnerFairSpec
CONSTANTS
    Users = {a, b}
    NoUser = NoUser
    Actors = {a}
    MaxTime = 2
    MaxEdits = 1
INVARIANTS
    OwnerTypeOK
    NoLostEdit
    ReceiptMeansRecovered
PROPERTIES
    NewOwnerUpToDate
    EditsReachServer
    ReceiptInTheEnd
