SPECIFICATION Spec
CONSTANTS
    p1 = p1
    p2 = p2
    NoOfd = NoOfd
    Proc <- Threads
    Nums <- Calls
    SeqMod = 4
    Second = 1
    StartTime = 3
    MaxTime = 5
    MaxBack = 1
    MaxCalls = 3
    MaxCrashes = 1
SYMMETRY Symmetry
CHECK_DEADLOCK FALSE
INVARIANTS LockExclusion FileAccounts Ascending SharedOnlyAtCarry
