SPECIFICATION Spec
CONSTANTS
    h1 = h1
    h2 = h2
    t1 = t1
    t2 = t2
    t3 = t3
    None = None
    Hosts = {h1, h2}
    Tasks = {t1, t2}
    MaxDepth = 2
    MaxCalls = 2
INVARIANT TypeOK
INVARIANT ContextHasOneOwner
INVARIANT NoTaskOutlivesCall
INVARIANT SomebodyGoesOn
PROPERTY EveryThreadGoesOn
CHECK_DEADLOCK FALSE
