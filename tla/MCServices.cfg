SPECIFICATION AllSpec
CONSTANTS
    Instance = {a1, a2}
    Target = 2
    Timely = TRUE
    MaxStarts = 4
    Caller = {c1, c2, c3}
    Thing = {i1, i2}
    Capacity = 2
    Period = 3
    MaxWait = 3
    MaxTicks = 14
    MaxAlertFaults = 1
    MaxCommands = 2
    MaxFaults = 1
    TTL = 1
    MaxWrites = 1
    Cron = {"cron"}
    Manual = {"manual"}
    Rearm = 2
    Cycle = {"y1"}
    Channel = {"ch1"}
    Published = 1
    MaxAttempts = 2
    QueueLimit = 2
    PerCycle = 2
    PerMessage = 1
    MaxInspectorFaults = 2
    Retries = 1
    MaxVersion = 1
    Contexts = 1
    Sources = 2
    Threshold = 2
    Counts = {0, 1, 2}
    Step = 2
    Cooldown = 2
    MaxClock = 3
SYMMETRY Symmetry
INVARIANTS TypesOK StaleWithinTTL AppliedAreDone WorkIsCovered RateKept
INVARIANTS ConsumedIsTold WarningsAccounted AnswersAreOwn OutagesAreTold
PROPERTY StartsKeepToThemselves
CHECK_DEADLOCK FALSE
