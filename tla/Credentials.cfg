SPECIFICATION MCSpec
CONSTANTS
    Operator = op
    Agents = {a1, a2}
    Creds = {k1, k2, k3, k4}
    Lifetimes = {2}
    Coalesce = 1
    MaxTime = 3
    NoRow = NoRow
    NoCred = NoCred
SYMMETRY Interchangeable
CHECK_DEADLOCK FALSE
INVARIANTS
    OneLivePerAgent
    LiveAreManageable
    SurvivorsOfRecovery
PROPERTIES
    RetirementIsFinal
