SPECIFICATION Spec
CONSTANTS
    good = good
    other = other
    noModule = noModule
    noFunction = noFunction
    empty = empty
    n1 = n1
    n2 = n2
    e1 = e1
    None = None
    Names = {n1, n2}
    Sources = {good, noModule, noFunction, empty}
    fate <- MCFate
    hasEval <- MCHasEval
    Evaluators = {e1}
    MaxJits = 2
    Tabled = {n1}
    MaxTime = 1
    Concurrent = FALSE
CHECK_DEADLOCK FALSE
INVARIANT TablesAgree
INVARIANT ValidRunsItsSource
INVARIANT UpdateFuncLive
