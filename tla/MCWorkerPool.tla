---------------------------- MODULE MCWorkerPool ----------------------------
(* Instances of WorkerPool for TLC: two loops whose ranges overlap in part.  *)
EXTENDS WorkerPool, TLC

CONSTANTS w1, w2, c1, c2

\* c1 iterates 0..MaxIndex-2, c2 1..MaxIndex-1.
ShiftedStart == [c \in Calls |-> IF c = c1 THEN 0 ELSE 1]
ShiftedEnd == [c \in Calls |-> IF c = c1 THEN MaxIndex - 1 ELSE MaxIndex]

\* The workers are interchangeable; the calls, with their ranges, are not.
Symmetry == Permutations(Workers)
=============================================================================
