SPECIFICATION Spec
CONSTANTS
    Key = {k1}
    Worker = {w1, w2}
    NoJob = NoJob
    MaxAttempts = 2
    Limit = 1
    RecoveryVerify = FALSE
    RecoveryStrict = FALSE
    AuditCanFail = FALSE
    MaxEnqueues = 2
    MaxFaults = 1
    MaxStalls = 1
SYMMETRY Symmetry
INVARIANTS OncePostedInv NothingLost
PROPERTIES KeepsContract AcceptedNotReposted
