\* Every pattern of up to six characters, and events of which an item writes up to two.
\* A formatter that has formatted its event is through.
CONSTANTS
    Letters <- MCLetters
    KnownItems <- MCKnownItems
    MaxPattern = 6
    MaxOutput = 2
    MaxSize = 3
SPECIFICATION Spec
CHECK_DEADLOCK FALSE
INVARIANTS
    TextKept
    ItemsParsed
    FormatsAgree
