\* Two rotations in one second.
CONSTANTS
    ConfSizes = {2}
    DefSize = 3
    ConfBackups = {1}
    LineSizes = {1, 2}
    MaxFile = 4
    MaxTime = 5
    SameSecond = TRUE
SPECIFICATION Spec
PROPERTY NewestKept
