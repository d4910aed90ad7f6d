---------------------------- MODULE MCJITManager ----------------------------
(* Instances of JITManager for TLC: sources that compile, with and without   *)
(* eval, and sources that fail in each of the ways compileSource can.        *)
EXTENDS JITManager

CONSTANTS good, other, noModule, noFunction, empty, n1, n2, e1

MCFate == [s \in Sources |-> CASE s \in {good, other} -> "ok"
                               [] s = noModule -> "noModule"
                               [] s = noFunction -> "noFunction"
                               [] OTHER -> "empty"]
MCHasEval == [s \in Sources |-> s # other]
=============================================================================
