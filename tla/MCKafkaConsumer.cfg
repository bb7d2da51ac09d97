CONSTANTS
    Partition = {p1, p2}
    Message = {m1, bad}
    Invalid = {bad}
    MaxLen = 2
    MaxCopies = 3
    MaxAssigns = 3
    NULL = NULL
SPECIFICATION FairSpec
INVARIANTS TypeOK LossAccounted EffectsAccounted HandledInOrder
PROPERTIES CommitsAdvance Settled
CHECK_DEADLOCK FALSE
