------------------------------ MODULE MCTasks ------------------------------
(* Instances of Tasks for TLC.  Tasks are interchangeable.                   *)
EXTENDS Tasks, TLC

CONSTANTS h1, h2, t1, t2, t3

Symmetry == Permutations(Tasks)
=============================================================================
