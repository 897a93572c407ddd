SPECIFICATION BothSpec
CONSTANTS
    Proc = {p1, p2}
    TTL = 7
    Interval = 1
    Delay = 1
    MaxTime = 11
    MaxToken = 2
SYMMETRY Symmetry
INVARIANTS LeaseInv AliveWhenLate
PROPERTIES ImplementsMutex OwnerKeepsLockLate
