CONSTANTS
    Call = {k1}
    ValidEmail = {e1}
    BadEmail = {}
    Code = {t1, t2}
    ShortCode = {}
    CredId = {c1}
    VerId = {v1, v2}
    CodeLifetime = 2
    MaxAttempts = 3
    I32Max = 5
    MaxClock = 4
    NULL = NULL
SPECIFICATION GuessSpec
SYMMETRY Symmetry
INVARIANTS GuessLimit OneActiveCode
CHECK_DEADLOCK FALSE
