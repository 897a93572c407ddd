SPECIFICATION Spec
CONSTANTS
    Request = {r1}
    Handler = {h1, h2}
    Slice = {ban}
    MaxAmount = 1
    Timely = TRUE
    MaxFaults = 0
    Threshold = 1
SYMMETRY Symmetry
INVARIANTS SanctionedOnce
CHECK_DEADLOCK FALSE
