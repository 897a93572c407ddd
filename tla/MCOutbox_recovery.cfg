SPECIFICATION FairSpec
CONSTANTS
    Key = {k1, k2}
    Worker = {w1}
    NoJob = NoJob
    MaxAttempts = 2
    Limit = 1
    RecoveryVerify = TRUE
    RecoveryStrict = TRUE
    AuditCanFail = FALSE
    MaxEnqueues = 1
    MaxFaults = 1
    MaxStalls = 0
INVARIANTS OneFailurePostsOnce
PROPERTIES EveryJobSettles
