SPECIFICATION Spec
CONSTANTS
    Pages = {p1}
    Places <- TwoPlaces
    Titles = {t1, t2}
    Contents = {a, b}
    Occurrences = {2}
    Callers = {c1}
    Master = master
    Keys = {k1, k2}
    Routes <- MembershipRoutes
    NoPage = NoPage
    NoETag = NoETag
    Clocks = {1, 3}
    MaxTime = 4
    MaxRevision = 3
    MaxRestores = 0
    MaxReceipts = 3
SYMMETRY Interchangeable
CHECK_DEADLOCK FALSE
INVARIANTS
    TimelineReconstructs
    BackupAccepts
PROPERTIES
    TriggersAccept
