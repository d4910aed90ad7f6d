SPECIFICATION Spec
CONSTANTS
    w1 = w1
    w2 = w2
    c1 = c1
    c2 = c2
    None = None
    Workers = {w1, w2}
    Calls = {c1, c2}
    start <- ShiftedStart
    end <- ShiftedEnd
    MaxIndex = 3
    MaxOpen = 2
    AllowNested = FALSE
INVARIANT TypeOK
INVARIANT IteratesOnce
INVARIANT IteratesAll
INVARIANT PairsMatch
INVARIANT WorkHasOwner
SYMMETRY Symmetry
CHECK_DEADLOCK FALSE
