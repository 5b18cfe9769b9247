\* One pool thread; a thread and the tasks add, two threads stop; a sleeping task blocks others.
\* A queue that was shut down, or whose Shutdown waits for its own callback, stops.
CONSTANTS
    c1 = c1
    c2 = c2
    s1 = s1
    s2 = s2
    NoTask = NoTask
    NoThread = NoThread
    Demon = Demon
    Callers <- MCCallers
    Slots = {s1}
    Adders = {c1, s1}
    Stoppers <- MCCallers
    Durations = {1}
    RepeatNums = {2}
    MaxTime = 2
    MaxTasks = 2
SPECIFICATION FairSpec
CHECK_DEADLOCK FALSE
PROPERTIES
    SubmittedTaskRuns
    ShutdownEnds
