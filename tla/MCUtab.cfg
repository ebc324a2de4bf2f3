SPECIFICATION FairSpec
CONSTANTS
    p1 = p1
    p2 = p2
    p3 = p3
    NoProc = NoProc
    Proc <- MCProc
    Jobs <- MCJobs
    Tables <- MCTables
    MayFail <- FaultKinds
    MaxFaults = 1
INVARIANTS
    ActWhileUsed
    ActRemoved
    OneEntryPerMount
PROPERTIES
    NoLostUpdate
    AllFinish
CHECK_DEADLOCK FALSE
