SPECIFICATION AllSpec
CONSTANTS
    Human = {h1}
    Bot = {}
    Channel = {ch1}
    Task = {a1, a2}
    LastStep = 1
    MaxIncidents = 2
    MaxSignals = 1
    MaxCommands = 1
    MaxFaults = 1
    Thing = {b1, b2}
    MaxAttempts = 1
    MaxLockCommands = 3
    MaxLockFaults = 4
    MaxHands = 2
    Slice = {"ban"}
    MaxAmount = 2
    Timely = TRUE
    Threshold = 1
    Commander = {1, 2, 3}
    NoBackup = "none"
    MaxBackups = 1
    AdRequest = {"r1"}
    Ad = {"a1"}
    Unverified = "unverified"
    Limit = 2
    MaxSnapshots = 1
    MaxChanges = 2
    MaxResources = 3
    MaxGiven = 1
SYMMETRY Symmetry
INVARIANTS TypesOK DryRunTouchesNothing  ApprovalsAccounted BackupsHold
PROPERTIES StagesOnlyAdvance LiftedOnlyInRecovery ClosedIsRestored RefusedStaysRefused
CHECK_DEADLOCK FALSE
