SPECIFICATION MCSpec
CONSTANTS
    a1 = a1
    s1 = s1
    s2 = s2
    b1 = b1
    b2 = b2
    Agents = {a1}
    Connections = {c1, c2}
    AgentOf <- MCAgentOf
    Sections = {s1, s2}
    Books = {b1, b2}
    SectionOf <- MCSectionOf
    Pages = {p1}
    Keys = {k1, k2}
    Rights <- MCRights
    MaxVersion = 3
    None = None
    Uploads <- MCUploads
    MaxMetadata = 1
    MaxFile = 3
    MaxPage = 5
    MaxFiles = 2
SYMMETRY Interchangeable
INVARIANTS
    RetryFollowsThePage
    TrashIsRestorable
    VerdictIgnoresChunks
CHECK_DEADLOCK FALSE
