----------------------- MODULE MCSimulationController -----------------------
(* Instances of SimulationController for TLC: a thread that drives the       *)
(* simulation and owns the sources, and one that watches it, steps the hook  *)
(* and interferes.                                                           *)
EXTENDS SimulationController, TLC

CONSTANTS driver, other

DriverOps == {"start", "step", "run", "query", "register", "unregister", "compile",
              "netlist", "finalize"}
OtherOps == {"stop", "pause", "resume", "initialize", "timestep",
             "onTimeStep", "simStart", "simEnd", "integrate", "hookFinalize"}
MCCalls == [th \in Threads |-> IF th = driver THEN DriverOps ELSE OtherOps]
Symmetry == Permutations(Exprs)
=============================================================================
