SPECIFICATION MCSpec
CONSTANTS
    PageUids = {u1, u2, u3, u4, u5}
    Stamps = {1, 2}
    Slugs <- NoteSlugs
    Attempts = 2
    MaxOrdinal = 4
    NoId = NoId
    Pages = {p1, p2}
    Sections <- TwoSections
    Scopes <- NestedScopes
    Titles = {t1, t2}
    Occurrences = {1}
    Versions = {v1, v2}
    MaxRevision = 2
    MaxSequence = 3
    MaxGeneration = 2
    NoPage = NoPage
    NoState = NoState
    NoBackup = NoBackup
    LibraryIds = {l1}
    SectionIds = {s1, s2}
    BookIds = {b1}
    Names = {n1, n2}
    Texts = {x1}
    Readmes = {EmptyReadme, r1}
    EmptyReadme = EmptyReadme
    Agents = {a1}
    Clocks = {1}
    MaxWrites = 3
    None = None
SYMMETRY Interchangeable
INVARIANTS
    IdentifiersSound
    SearchNeverStale
PROPERTIES
    WritesAreCurrent
CHECK_DEADLOCK FALSE
