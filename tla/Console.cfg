SPECIFICATION MCSpec
CONSTANTS
    Pages = {p1}
    Skills = {v1, v2}
    Labels = {w1, w2}
    Snapshots <- MCSnapshots
    Changes <- MCChanges
    Entry = Entry
    Other = Other
    x = x
    y = y
    Times = {0}
    Clocks = {1, 2}
    Keys = {z1, z2}
    MaxStates = 3
    None = None
    md = md
    a = a
    b = b
    Packages <- MCPackages
    UserPaths <- MCUserPaths
    UserWork = UserWork
    Directory = Directory
    Temporary = Temporary
    NoFile = NoFile
    l1 = l1
    l2 = l2
    s1 = s1
    s2 = s2
    s3 = s3
    op = op
    legacy = legacy
    scoped = scoped
    Libraries = {l1, l2}
    Sections = {s1, s2, s3}
    PageUids = {v1, v2}
    TagIds = {w1, w2}
    LibraryOf <- MCLibraryOf
    Names = {"Go", "go", "art", "zen", " x"}
    KeyOf <- MCKeyOf
    Callers = {op, legacy, scoped}
    Policy <- MCPolicy
    Grants <- MCGrants
    MaxBatch = 2
    MaxWrites = 5
    Null = Null
    LibraryUids = {z1, z2}
    Creds = {v1, v2}
    Forms = {w1, w2}
    MaxEdits = 3
    Unused = Unused
    Legacy = Legacy
    NoForm = NoForm
SYMMETRY Interchangeable
INVARIANTS
    WorkspaceBackupAccepts
    PristineInstallsUpdate
    BatchesComplete
    DirectoryAgrees
PROPERTIES
    EditsSeenOrFlagged
    TouchesOnlyItsOwn
    NoStaleSubmission
    RotationKeepsRights
CHECK_DEADLOCK FALSE
