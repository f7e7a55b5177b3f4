SPECIFICATION JournalSpec
CONSTANTS
    Processes = {i1, i2}
    Ops = {o1}
    Callers = {c1, c2}
    MaxAttempts = 2
    MaxETag = 2
    MaxFailures = 1
    NoOp = NoOp
    NoRecord = NoRecord
INVARIANTS
    AppliedOnce
    JournalAgrees
PROPERTIES
    CommandsEnd
CHECK_DEADLOCK FALSE
