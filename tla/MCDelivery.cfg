CONSTANTS
    Account = {a1, a2}
    Partition = {p1}
    BatchSize = 1
    MaxFaults = 1
    MaxAssigns = 2
    NULL = NULL
SPECIFICATION FairSpec
INVARIANTS TypeOK NothingLeftBehind UpdatesAccounted
PROPERTIES UsersSpec EveryoneSettles
CHECK_DEADLOCK FALSE
