\* One thread uses the pool as the sample does: Start, execute, Shutdown.
CONSTANTS
    c1 = c1
    c2 = c2
    t1 = t1
    t2 = t2
    t3 = t3
    NoTask = NoTask
    NoThread = NoThread
    PoolSize = 1
    HardwareConcurrency = 0
    Callers = {c1}
    Tasks = {t1}
    Submitters = {c1}
    Stoppers = {c1}
SPECIFICATION FairSpec
CHECK_DEADLOCK FALSE
PROPERTY TerminationUnblocks
