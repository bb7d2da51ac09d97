CONSTANTS
    Call = {k1, k2}
    ValidEmail = {e1}
    BadEmail = {}
    Code = {t1, t2}
    ShortCode = {}
    CredId = {c1}
    VerId = {v1}
    CodeLifetime = 2
    MaxAttempts = 3
    I32Max = 5
    MaxClock = 0
    NULL = NULL
SPECIFICATION GuessSpec
SYMMETRY Symmetry
INVARIANT GuessLimit
CHECK_DEADLOCK FALSE
