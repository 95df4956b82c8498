\* Two starts, the second given when the first has returned, as a shell does.
CONSTANTS
    Absent = Absent
    Empty = Empty
    Starts = {p1, p2}
    Debugs = {}
    Stops = {s1}
    NumThreads = 1
    NextStart = "returned"
SPECIFICATION Spec
CHECK_DEADLOCK FALSE
PROPERTIES IsRunningSound
