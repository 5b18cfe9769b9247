\* The configuration is set twice and nobody else changes a logger.
\* The calls are bounded, so the behaviours end.
CONSTANTS
    u1 = u1
    Letters <- MCLetters
    KnownItems <- MCKnownItems
    Root = "root"
    NameOrder <- MCNameOrder
    Docs <- MCDocs
    Missing = Missing
    Files <- MCFiles
    DefaultPattern <- DefPattern
    Patterns <- MCPatterns
    NoFormatter = NoFormatter
    Users = {u1}
    UserNames = {"root", "system"}
    MaxSets = 2
    MaxChanges = 0
SPECIFICATION Spec
CHECK_DEADLOCK FALSE
INVARIANT RootHasStdOut
