CONSTANTS
    Row = {r1, r2, r3}
    BatchSize = 2
    MaxFaults = 1
SPECIFICATION FairSpec
INVARIANTS TypeOK MarkedIsStored CausalOrder CopiesAccounted
PROPERTIES OutboxSpec AllPublished
CHECK_DEADLOCK FALSE
