----------------------------- MODULE MCJITEngine -----------------------------
(* Instances of JITEngine for TLC.  The value of vec is a vector; late       *)
(* imports the module after other code.                                      *)
EXTENDS JITEngine, TLC

CONSTANTS vec, late

MCLeads == [s \in Scripts |-> s # late]
MCKind == [s \in Scripts |-> IF s = vec THEN "Vector" ELSE "Double"]
Symmetry == Permutations(Procs)
=============================================================================
