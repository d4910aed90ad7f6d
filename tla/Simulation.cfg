SPECIFICATION Spec
CONSTANTS
    driver = driver
    other = other
    Threads = {driver, other}
    None = None
    Names = {n1}
    Exprs = {e1, e2}
    MaxTime = 1
    Calls <- MCCalls
INVARIANTS TypeOK EveryWaitEnds RunIsNotInterrupted SourceRunsItsExpression
PROPERTY EveryCallReturns
CHECK_DEADLOCK FALSE
