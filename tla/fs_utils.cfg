\* Two callers, two small trees, some thirty calls with every kind of argument.
\* The calls are bounded and used up.
CONSTANTS
    c1 = c1
    c2 = c2
    Names <- MCNames
    Callers = {c1, c2}
    Calls <- MCCalls
    Trees <- MCTrees
    Guarded <- MCGuarded
    MaxCalls = 2
    MaxLinks = 2
    Nowhere = Nowhere
SPECIFICATION Spec
SYMMETRY MCSymmetry
CHECK_DEADLOCK FALSE
INVARIANTS
    ResultsHold
    AloneExact
PROPERTY RemovesOnlyBelow
