CONSTANTS
    t1 = t1
    t2 = t2
    Task = {t1, t2}
    Finisher = {}
    Requests <- Solving
    MaxBreaks = 1
    KleverType = TRUE
SPECIFICATION Spec
INVARIANTS
    CountersAgree
    FinishedHasSolution
SYMMETRY MCPermutations
CHECK_DEADLOCK FALSE
