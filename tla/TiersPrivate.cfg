SPECIFICATION Spec
CONSTANTS
    f = f
    g = g
    lib = lib
    user = user
    bad = bad
    worse = worse
    Names = {f, g}
    Modules = {lib, user}
    Threads = {t1}
    None = None
    defines <- MCDefines
    callee <- MCCallee
    fate <- MCFate
    Threshold = 2
    Redirectable = {"plain", "host"}
SYMMETRY Symmetry
INVARIANT PromotionKeepsBehaviour
CHECK_DEADLOCK FALSE
