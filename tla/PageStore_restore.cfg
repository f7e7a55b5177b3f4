SPECIFICATION Spec
CONSTANTS
    Pages = {p1, p2}
    Places <- TwoPlaces
    Titles = {t1}
    Contents = {a, b}
    Occurrences = {2}
    Callers = {c1}
    Master = master
    Keys = {k1}
    Routes <- RestoreRoutes
    NoPage = NoPage
    NoETag = NoETag
    Clocks = {1, 3}
    MaxTime = 4
    MaxRevision = 3
    MaxRestores = 1
    MaxReceipts = 3
SYMMETRY Interchangeable
CHECK_DEADLOCK FALSE
INVARIANTS
    ExactlyOnce
PROPERTIES
    ImplementsRegister
