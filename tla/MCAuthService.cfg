CONSTANTS
    Call = {k1, k2}
    ValidEmail = {e1, e2}
    BadEmail = {bad}
    Code = {t1, t2}
    ShortCode = {short}
    CredId = {c1, c2}
    VerId = {v1, v2}
    CodeLifetime = 1
    MaxAttempts = 1
    I32Max = 3
    MaxClock = 2
    NULL = NULL
SPECIFICATION Spec
SYMMETRY Symmetry
INVARIANTS TypeOK VerifiedEventOnce CodesMailedOnce MailBeforeVerified UsedOnlyIfVerified OkIsDurable NoWaitCycle
CHECK_DEADLOCK FALSE
