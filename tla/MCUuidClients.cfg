SPECIFICATION ClientsSpec
CONSTANTS
    Daemon = {d1, d2}
    Client = {c1, c2}
    Nums = {2, 4}
    CS_MIN = 2
    CS_MAX = 4
    CS_FACTOR = 2
    Interval = 2
    ClockOffset = 1
    MAX_ADJUSTMENT = 4
    StartTime = 3
    MaxTime = 5
    MaxBack = 1
    MaxExits = 1
    MaxCalls = 3
INVARIANTS FileAhead ContUnique GivenOnce CachedIssued
CHECK_DEADLOCK FALSE
