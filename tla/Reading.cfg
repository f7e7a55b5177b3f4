SPECIFICATION MCSpec
CONSTANTS
    Pages = {1, 2, 3}
    Sections = {1, 2}
    Here = 1
    Watched = 2
    Stamps = {1, 2}
    Limits = {1, 2}
    AdminLimit = 1
    Routes = {"sections", "pages", "library", "search", "book", "trash", "history",
              "current", "locate", "preview", "revision", "file"}
    MaxRevision = 4
    MaxWrites = 2
    Absent = Absent
    NoCursor = NoCursor
    Refused = Refused
    Instants = {1, 2}
    Ids = {1, 2}
    PageSize = 1
    MaxEntries = 4
    MaxLogins = 2
    NoPosition = NoPosition
INVARIANTS
    ListedExactlyOnce
    SearchWalksOneRanking
    FeedListedExactlyOnce
PROPERTIES
    AnswersOnlyTheAdmitted
CHECK_DEADLOCK FALSE
