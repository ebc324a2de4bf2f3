SPECIFICATION Spec
CONSTANTS
    BUFSIZ = 2
    InRoom = 1
    OutRoom = 3
    Sessions <- MCSessions
    MaxIn = 2
    MaxOut = 3
    MaxTerms = 2
    MaxStops = 1
INVARIANTS InputInOrder OutputComplete NoOrphan NoStaleKill
PROPERTIES SessionEnds
CHECK_DEADLOCK FALSE
