CONSTANTS
    Call = {k1, k2}
    Account = {a1, a2}
    Address = {e1, e2}
    Code = {t1}
    Oab = {o1, o2}
    MaxAbandoned = 1
    NULL = NULL
SPECIFICATION Spec
SYMMETRY Symmetry
INVARIANTS TypeOK CodesHaveUsers AccountsComplete CreatedIsUsable AnswersAreTrue StatusFollowsAuth
PROPERTY LifeSpec
CHECK_DEADLOCK FALSE
