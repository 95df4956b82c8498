\* Rotations at least a second apart; one or two backups;
\* any crash and failure; limits that change from start to start.
CONSTANTS
    ConfSizes = {0, 2}
    DefSize = 3
    ConfBackups = {1, 2}
    LineSizes = {1, 2}
    MaxFile = 5
    MaxTime = 6
    SameSecond = FALSE
SPECIFICATION Spec
INVARIANTS IInv SizeTracked LogBounded ListIsDisk BackupsBounded
PROPERTIES NewestKept
