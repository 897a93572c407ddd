SPECIFICATION FairSpec
CONSTANTS
    Handler = {h1}
    MemberFaults = 2
    NoEntry = NoEntry
PROPERTIES EveryOperationEnds EveryRaidEnds QueueSettles ShutdownEnds StaleRecordsEnd
CHECK_DEADLOCK FALSE
