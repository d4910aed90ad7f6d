SPECIFICATION Spec
CONSTANTS
    app = app
    lib = lib
    base = base
    Packages = {app, lib, base}
    LastVersion = 2
    None = None
    Constraints <- MCConstraints
    Registries <- MCRegistries
    Roots <- MCRoots
    MaxDepth = 100
INVARIANTS SuccessIsASolution NewestAreFound
PROPERTIES SearchAdvances ResolutionEnds
CHECK_DEADLOCK FALSE
