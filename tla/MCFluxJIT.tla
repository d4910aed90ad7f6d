------------------------------ MODULE MCFluxJIT ------------------------------
(* Instances of FluxJIT for TLC.  lib defines g; user defines g and f, which  *)
(* calls its own g; bad and worse define g too, and are refused by ORC and by *)
(* the verifier.                                                              *)
EXTENDS FluxJIT, TLC

CONSTANTS f, g, lib, user, bad, worse

MCDefines == [m \in Modules |-> IF m = user THEN Names ELSE {g}]
MCCallee == [m \in Modules |-> [n \in Names |-> IF n = f THEN g ELSE None]]
MCFate == [m \in Modules |-> CASE m = bad -> "clash" [] m = worse -> "invalid" [] OTHER -> "ok"]
Symmetry == Permutations(Threads)
=============================================================================
