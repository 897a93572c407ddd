SPECIFICATION Spec
CONSTANTS
    Cycle = {y1, y2}
    Command = {k1}
    Channel = {c1}
    NoChannel = NoChannel
    Published = 2
    MaxAttempts = 2
    QueueLimit = 2
    PerCycle = 2
    PerMessage = 1
    MaxCommands = 1
    MaxFaults = 1
SYMMETRY Symmetry
INVARIANTS AnnouncedExactlyOnce FailuresKept
