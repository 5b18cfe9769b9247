\* One thread that adds and one that stops.
\* A queue that was shut down, or whose Shutdown waits for its own callback, stops.
CONSTANTS
    c1 = c1
    c2 = c2
    s1 = s1
    s2 = s2
    NoTask = NoTask
    NoThread = NoThread
    Demon = Demon
    Callers <- MCCallers
    Slots = {s1}
    Adders = {c1}
    Stoppers = {c2}
    Durations = {0, 1}
    RepeatNums = {2}
    MaxTime = 2
    MaxTasks = 2
SPECIFICATION Spec
CHECK_DEADLOCK FALSE
INVARIANT SweepSubmitsAll
