SPECIFICATION Spec
CONSTANTS
    Jobs <- MCJobs
    WaitStatuses <- MCWaitStatuses
    MaxSignals = 1
INVARIANTS
    InstancesTracked
    DiskExclusive
    PassOrder
    RootGate
    ProgressBar
    CancelReachesAll
    ExitStatusIsOr
    AllChecked
PROPERTIES
    Terminates
