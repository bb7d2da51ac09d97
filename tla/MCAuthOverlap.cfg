CONSTANTS
    Call = {k1, k2}
    ValidEmail = {e1}
    BadEmail = {}
    Code = {t1, t2}
    ShortCode = {}
    CredId = {c1, c2}
    VerId = {v1, v2}
    CodeLifetime = 1
    MaxAttempts = 1
    I32Max = 2
    MaxClock = 1
    NULL = NULL
SPECIFICATION FairSpec
PROPERTIES AbstractSpec CallsFinish
CHECK_DEADLOCK FALSE
