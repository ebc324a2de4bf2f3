SPECIFICATION LockSpec
CONSTANTS
    p1 = p1
    p2 = p2
    p3 = p3
    p4 = p4
    hdd = hdd
    ssd = ssd
    NoDisk = NoDisk
    NoProc = NoProc
    FsckProc = {p1, p2, p3, p4}
    Disk = {hdd, ssd}
    DiskOf <- MCDiskOf
    Rotational = {hdd}
    CanOpen = {p1, p2, p4}
    Verbose = {p2}
    MaxSignals = 1
INVARIANTS
    LockHeld
    LockedExclusive
PROPERTIES
    AllFinish
