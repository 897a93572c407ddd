SPECIFICATION Spec
CONSTANTS
    Op = {1, 2}
    Keyed = {}
    Unreadable = {}
    Runner = {r1}
    NoEntry = NoEntry
    MaxAttempts = 2
    Purgeable = {}
    MaxCalls = 1
    MaxFaults = 0
    MaxStalls = 0
PROPERTIES RecoveryKeepsNewer
