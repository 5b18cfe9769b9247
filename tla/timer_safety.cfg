\* Two threads that add and stop, two pool threads whose tasks add, three tasks, three ticks.
\* A queue that was shut down, or whose Shutdown waits for its own callback, stops.
CONSTANTS
    c1 = c1
    c2 = c2
    s1 = s1
    s2 = s2
    NoTask = NoTask
    NoThread = NoThread
    Demon = Demon
    Callers <- MCCallers
    Slots <- MCSlots
    Adders <- MCAnybody
    Stoppers <- MCCallers
    Durations = {0, 1}
    RepeatNums = {2}
    MaxTime = 2
    MaxTasks = 3
SPECIFICATION Spec
SYMMETRY Symmetry
CHECK_DEADLOCK FALSE
INVARIANTS
    TypeOK
    ExactlyOneFate
    ShutdownDrains
    NobodyWaitsInVain
