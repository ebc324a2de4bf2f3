SPECIFICATION Spec
CONSTANTS
    Sizes = {9, 10}
    GPT_NPARTITIONS = 2
    NoLabel = NoLabel
    MaxEdits = 2
    MaxCrashes = 2
    MaxResizes = 1
CONSTRAINT Explored
INVARIANTS
    CrashAtomic
    BothCopies
    TableDisjoint
    LabelSparesPartitions
    FirstFreeFound
CHECK_DEADLOCK FALSE
