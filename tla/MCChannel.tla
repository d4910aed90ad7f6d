----------------------------- MODULE MCChannel -----------------------------
(* Instances of Channel for TLC.                                             *)
EXTENDS Channel

CONSTANTS s1, s2, r1, r2, r3
=============================================================================
