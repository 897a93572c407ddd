SPECIFICATION Spec
CONSTANTS
    Op = {1, 2}
    Keyed = {1, 2}
    Unreadable = {1}
    Runner = {r1, r2}
    NoEntry = NoEntry
    MaxAttempts = 2
    Purgeable = {1}
    MaxCalls = 1
    MaxFaults = 1
    MaxStalls = 1
SYMMETRY Symmetry
INVARIANTS JournalInv OkMeansDone
PROPERTIES FinishedStaysFinished NoRerunOverNewer
