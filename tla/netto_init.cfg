\* A single start whose thread cannot be created.
CONSTANTS
    Absent = Absent
    Empty = Empty
    Starts = {p1}
    Debugs = {}
    Stops = {s1}
    NumThreads = 1
    NextStart = "written"
SPECIFICATION Spec
CHECK_DEADLOCK FALSE
INVARIANTS InitializeSucceeded
