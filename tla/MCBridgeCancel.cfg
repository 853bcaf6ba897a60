CONSTANTS
    t1 = t1
    t2 = t2
    Task = {t1, t2}
    Finisher = {}
    Requests = {"start", "create", "update", "stop"}
    MaxBreaks = 1
    KleverType = TRUE
SPECIFICATION Spec
PROPERTY CancelSticks

CHECK_DEADLOCK FALSE
