SPECIFICATION LanguageSpec
CONSTANTS
    user = user
    public = public
    en = en
    ar = ar
    None = None
    Users = {user}
    Public = public
    Languages = {en, ar}
    Rtl = {ar}
    MaxInputs = 4
INVARIANTS
    ReadyIsApplied
PROPERTIES
    PersistFirst
    SettlesInTheEnd
CHECK_DEADLOCK FALSE
