SPECIFICATION Spec
CONSTANTS
    Key = {k1}
    Worker = {w1}
    NoJob = NoJob
    MaxAttempts = 2
    Limit = 1
    RecoveryVerify = FALSE
    RecoveryStrict = FALSE
    AuditCanFail = TRUE
    MaxEnqueues = 1
    MaxFaults = 0
    MaxStalls = 0
INVARIANTS DeadLetterKeepsPayload
