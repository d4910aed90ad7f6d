SPECIFICATION HotSpec
CONSTANTS
    good = good
    other = other
    n1 = n1
    n2 = n2
    None = None
    Names = {n1, n2}
    Sources = {good, other}
    fate <- MCFate
    hasEval <- MCHasEval
    Evaluators = {}
    MaxJits = 2
    Tabled = {}
    MaxTime = 0
    Concurrent = TRUE
SYMMETRY Symmetry
CHECK_DEADLOCK FALSE
INVARIANT ReadyHoldsNewCode
 
