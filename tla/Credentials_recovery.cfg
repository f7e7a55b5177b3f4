SPECIFICATION CredentialsSpec
CONSTANTS
    Operator = op
    Agents = {a1}
    Creds = {k1, k2, k3}
    Lifetimes = {3}
    Coalesce = 1
    MaxTime = 3
    NoRow = NoRow
    NoCred = NoCred
SYMMETRY Interchangeable
CHECK_DEADLOCK FALSE
INVARIANT
    RecoveryRetiresAll
