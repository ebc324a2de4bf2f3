SPECIFICATION Spec
CONSTANTS
    Daemon = {d1, d2}
    None = None
    Stale = Stale
    Nums = {1}
    Interval = 1
    ClockOffset = 1
    MAX_ADJUSTMENT = 2
    StartTime = 2
    MaxTime = 3
    MaxBack = 0
    MaxStarts = 3
    MaxCrashes = 1
    MaxRequests = 2
INVARIANTS SocketKept
PROPERTIES ContClock AllSettle
CHECK_DEADLOCK FALSE
