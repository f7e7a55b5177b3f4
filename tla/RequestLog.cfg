SPECIFICATION LogSpec
CONSTANTS
    Exchanges = {q1, q2}
    Retention = Retention
    OldRows = 3
    Batch = 2
    Attempts = 3
    Nobody = Nobody
INVARIANTS
    AcceptedWritesDecided
PROPERTIES
    ShutdownEnds
CHECK_DEADLOCK FALSE
