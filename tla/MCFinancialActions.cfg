SPECIFICATION FairFinancialSpec
CONSTANTS
    d1 = d1
    d2 = d2
    a1 = a1
    a2 = a2
    a3 = a3
    None = None
    Devices = {d1, d2}
    Actions = {a1, a2, a3}
    MaxFaults = 1
INVARIANTS
    BooksBalance
    NoFalseOutcome
    BalanceWasTrue
PROPERTIES
    EveryActionEnds
