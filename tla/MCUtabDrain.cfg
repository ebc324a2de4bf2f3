SPECIFICATION MonitorSpec
CONSTANTS
    p1 = p1
    p2 = p2
    NoProc = NoProc
    Proc <- MCProc
    Jobs <- MCVeilJobs
    Tables <- MCTables
    MayFail = {"act", "syscall"}
    MaxFaults = 0
PROPERTIES
    GetFdReturns
CHECK_DEADLOCK FALSE
