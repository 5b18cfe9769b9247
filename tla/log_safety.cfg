\* One thread uses the loggers while the files are loaded one after the other.
\* The calls are bounded, so the behaviours end.
CONSTANTS
    u1 = u1
    Letters <- MCLetters
    KnownItems <- MCKnownItems
    Root = "root"
    NameOrder <- MCNameOrder
    Docs <- MCDocs
    Missing = Missing
    Files <- MCFiles
    DefaultPattern <- DefPattern
    Patterns <- MCPatterns
    NoFormatter = NoFormatter
    Users = {u1}
    UserNames = {"root", "system"}
    MaxSets = 3
    MaxChanges = 1
SPECIFICATION Spec
CHECK_DEADLOCK FALSE
INVARIANTS
    AppendersFormatted
    SameNameSameLogger
    ConfigApplied
    NothingLost
    YamlRebuilds
    ConfigReadsBack
