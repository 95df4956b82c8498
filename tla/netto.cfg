\* Two starts and a debug command, each begun once those before it have
\* written their PID; one stop at any moment; a table of two threads.
CONSTANTS
    Absent = Absent
    Empty = Empty
    Starts = {p1, p2}
    Debugs = {d1}
    Stops = {s1}
    NumThreads = 2
    NextStart = "written"
SPECIFICATION FairSpec
CHECK_DEADLOCK FALSE
INVARIANTS LoggerOutlivesThreads OneDaemon IInv
PROPERTIES TermEnds StopEnds
