----------------------------- MODULE MCHotReload -----------------------------
(* Instances of HotReload for TLC: two sources that compile, one with eval.   *)
EXTENDS HotReload, TLC

CONSTANTS good, other, n1, n2

MCFate == [s \in Sources |-> "ok"]
MCHasEval == [s \in Sources |-> s = good]
Symmetry == Permutations(Names)
=============================================================================
