\* No backups are to be kept.
CONSTANTS
    ConfSizes = {2}
    DefSize = 3
    ConfBackups = {0}
    LineSizes = {1, 2}
    MaxFile = 4
    MaxTime = 5
    SameSecond = FALSE
SPECIFICATION Spec
INVARIANT BackupsBounded
