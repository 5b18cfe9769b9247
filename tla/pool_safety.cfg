\* Two threads of the program, two workers, three tasks; tasks may submit and may shut down.
\* A destroyed pool, std::terminate and a Shutdown that waits for itself are real ends.
CONSTANTS
    c1 = c1
    c2 = c2
    t1 = t1
    t2 = t2
    t3 = t3
    NoTask = NoTask
    NoThread = NoThread
    PoolSize = 2
    HardwareConcurrency = 0
    Callers <- MCCallers
    Tasks <- MCTasks
    Submitters <- MCAnybody
    Stoppers <- MCAnybody
SPECIFICATION Spec
SYMMETRY Symmetry
CHECK_DEADLOCK FALSE
INVARIANTS
    TypeOK
    HandOver
    ShutdownDrains
    WakeupsCoverQueue
    OnlyMissedSleep
    SafeDestruction
    NoDeadlock
PROPERTY ImplementsExecutor
