SPECIFICATION MCSpec
CONSTANTS
    Tokens = {a, b}
    TicketIds = {t1}
    Clocks = {1, 2, 3}
    NoIdentity = NoIdentity
    NoTicket = NoTicket
    SetupTTL = 1
    SessionTTL = 2
    TicketTTL = 2
    MaxGeneration = 2
    MaxCookies = 2
    MaxAudits = 3
    p1 = p1
    p2 = p2
    r1 = r1
    r2 = r2
    Creators = {p1, p2}
    Restorers = {r1, r2}
    VersionOf <- MCVersionOf
    MaxStarted = 3
    Absent = Absent
    Somebody = Somebody
CHECK_DEADLOCK FALSE
INVARIANTS
    GenerationsAscend
    TicketsBuyOneAgent
    WholeOrNothing
PROPERTIES
    NothingForeignRemoved
