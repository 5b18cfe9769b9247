\* Three Threads share two ids, so that ids are used again while old handles exist.
\* The objects are created once, so the behaviours end.
CONSTANTS
    o1 = o1
    o2 = o2
    o3 = o3
    i1 = i1
    i2 = i2
    Nobody = Nobody
    Objects = {o1, o2, o3}
    Ids = {i1, i2}
SPECIFICATION FairSpec
CHECK_DEADLOCK FALSE
INVARIANTS
    TypeOK
    ConstructedIsStarted
    JoinRefusedOnlyIfRobbed
    EndedPthreadsReleased
    WaitsWork
PROPERTY ConstructorEnds
