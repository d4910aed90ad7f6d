------------------------ MODULE MCDependencyResolver ------------------------
(* An instance of DependencyResolver for TLC: the packages app and lib in    *)
(* two versions each, which depend on nothing, on each other or on base; of  *)
(* base there are three, 0.0.0 among them.                                   *)
EXTENDS DependencyResolver

CONSTANTS app, lib, base

Constraint(t, lo, hi) == [type |-> t, min_version |-> lo, max_version |-> hi]
MCConstraints == {Constraint("Any", 0, 0), Constraint("LT", 2, 0), Constraint("GTE", 2, 0),
                  Constraint("Caret", 1, 2)}
Needs(P) == {<<>>} \cup {<<[name |-> p, constraint |-> c]>> : p \in P, c \in MCConstraints}
MCRegistries ==
    {[x \in Packages \X Versions |->
        CASE x[1] = app /\ x[2] # 0 -> na[x[2]]
          [] x[1] = lib /\ x[2] # 0 -> nl[x[2]]
          [] x[1] = base -> <<>>
          [] OTHER -> None] :
     na \in [1 .. 2 -> Needs({lib, base})], nl \in [1 .. 2 -> Needs({app, base})]}
AnyOf(p) == [name |-> p, constraint |-> Constraint("Any", 0, 0)]
MCRoots == {<<AnyOf(app), AnyOf(lib)>>,
            <<AnyOf(base), AnyOf(app)>>,
            <<AnyOf(app), [name |-> lib, constraint |-> Constraint("LT", 2, 0)]>>}
=============================================================================
