SPECIFICATION MonitorSpec
CONSTANTS
    p1 = p1
    p2 = p2
    NoProc = NoProc
    Proc <- MCProc
    Jobs <- MCJobs
    Tables <- MCTables
    MayFail = {"act", "syscall"}
    MaxFaults = 1
PROPERTIES
    UtabChangeSeen
    AnnouncedChangeSeen
CHECK_DEADLOCK FALSE
