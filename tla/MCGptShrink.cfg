SPECIFICATION Spec
CONSTANTS
    Sizes = {9, 10}
    GPT_NPARTITIONS = 2
    NoLabel = NoLabel
    MaxEdits = 1
    MaxCrashes = 0
    MaxResizes = 1
INVARIANT BackupAtEnd
CHECK_DEADLOCK FALSE
