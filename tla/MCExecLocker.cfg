CONSTANTS
    r1 = r1
    r2 = r2
    r3 = r3
    decision = decision
    job = job
    Request <- MCRequest
    Name <- MCName
    names <- MCNames
SPECIFICATION FairSpec
INVARIANTS
    TypeOK
    MutualExclusion
    NoDuplicateRow
    FailedKeepsLocks
    QuiescentClean
PROPERTY Answered
CHECK_DEADLOCK FALSE
