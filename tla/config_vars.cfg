\* Two threads, two variables, a document with a good and a bad value and a bad key, listeners that
\* set variables.
\* A SetValue in a circle stops, and listeners are added at most twice.
CONSTANTS
    th1 = th1
    th2 = th2
    a = a
    b = b
    bad = bad
    Nobody = Nobody
    BadValue = BadValue
    BadName = bad
    Threads = {th1, th2}
    Vars = {a, b}
    Values = {0, 1}
    Default = 0
    Docs <- MCDocs
    MaxDepth = 2
    MaxNested = 1
    MaxAdds = 2
SPECIFICATION FairSpec
CHECK_DEADLOCK FALSE
INVARIANTS
    TypeOK
    ListenersInStep
    KeysNameListeners
    LoadIsPrefix
    NoDeadlock
PROPERTY SetValueEnds
