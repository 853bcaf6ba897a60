CONSTANTS
    t1 = t1
    t2 = t2
    Task = {t1}
    Finisher = {f1}
    Requests <- Breaking
    MaxBreaks = 1
    KleverType = TRUE
SPECIFICATION Spec
INVARIANTS
    TypeOK
PROPERTY TaskLifecycle
CHECK_DEADLOCK FALSE
