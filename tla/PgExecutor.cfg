SPECIFICATION FairSpec
CONSTANTS
    Cases <- MCCases
    Capacity = 2
    ChannelCapacity = 1
    Faults = {"spawn", "process", "timeout", "wait", "read", "shutdown"}
INVARIANTS TypeOK NothingLost
PROPERTIES ImplementsCommand CallReturns ServerNeverStuck LogTaskEnds
CHECK_DEADLOCK FALSE
