SPECIFICATION Spec
CONSTANTS
    f = f
    g = g
    lib = lib
    user = user
    bad = bad
    worse = worse
    Names = {g}
    Modules = {lib, user, bad, worse}
    Threads = {t1, t2}
    None = None
    defines <- MCDefines
    callee <- MCCallee
    fate <- MCFate
    Threshold = 2
    Redirectable = {"plain", "host"}
SYMMETRY Symmetry
INVARIANTS TypeOK AllCallersRedirected  PromotedFromDefinition
CHECK_DEADLOCK FALSE
