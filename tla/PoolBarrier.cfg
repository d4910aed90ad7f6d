SPECIFICATION Spec
CONSTANTS
    w1 = w1
    w2 = w2
    c1 = c1
    c2 = c2
    None = None
    Workers = {w1, w2}
    Calls = {c1, c2}
    start <- ShiftedStart
    end <- ShiftedEnd
    MaxIndex = 2
    MaxOpen = 1
    AllowNested = FALSE
CHECK_DEADLOCK FALSE
INVARIANT WaitsForAllWorkers
