\* Two threads start, stop and destroy the pool; one of them and the tasks of worker 1 submit.
CONSTANTS
    c1 = c1
    c2 = c2
    t1 = t1
    t2 = t2
    t3 = t3
    NoTask = NoTask
    NoThread = NoThread
    PoolSize = 2
    HardwareConcurrency = 0
    Callers <- MCCallers
    Tasks <- MCTwoTasks
    Submitters = {c1, 1}
    Stoppers <- MCCallers
SPECIFICATION FairSpec
CHECK_DEADLOCK FALSE
PROPERTIES
    AcceptedTaskFinishes
    ShutdownEnds
