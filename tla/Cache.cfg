SPECIFICATION Spec
CONSTANTS
    vec = vec
    late = late
    Scripts = {vec, late}
    Procs = {p1, p2}
    None = None
    Torn = Torn
    Empty = Empty
    leads <- MCLeads
    kind <- MCKind
    MaxCompilations = 2
    MaxEvents = 1
SYMMETRY Symmetry
INVARIANTS TypeOK EntryFitsKey RunsWhatItCompiled TypesFitCode
CHECK_DEADLOCK FALSE
