SPECIFICATION Spec
CONSTANTS
    Pages = {p1}
    Places <- TwoPlaces
    Titles = {t1}
    Contents = {a, b}
    Occurrences = {2}
    Callers = {c1}
    Master = master
    Keys = {k1, k2}
    Routes <- ContentRoutes
    NoPage = NoPage
    NoETag = NoETag
    Clocks = {1, 3}
    MaxTime = 4
    MaxRevision = 3
    MaxRestores = 0
    MaxReceipts = 4
SYMMETRY Interchangeable
CHECK_DEADLOCK FALSE
INVARIANTS
    TypeOK
    ETagsNeverRepeat
    NoLostUpdate
    ReceiptsReplay
