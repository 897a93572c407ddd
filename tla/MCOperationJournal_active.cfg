SPECIFICATION Spec
CONSTANTS
    Op = {1}
    Keyed = {1}
    Unreadable = {}
    Runner = {r1, r2}
    NoEntry = NoEntry
    MaxAttempts = 1
    Purgeable = {}
    MaxCalls = 1
    MaxFaults = 0
    MaxStalls = 1
PROPERTIES ActiveLeaseKept
