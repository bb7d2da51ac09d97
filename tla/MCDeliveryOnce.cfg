CONSTANTS
    Account = {a1, a2}
    Partition = {p1}
    BatchSize = 1
    MaxFaults = 1
    MaxAssigns = 2
    NULL = NULL
SPECIFICATION Spec
INVARIANT VerifiedAtStays
CHECK_DEADLOCK FALSE
