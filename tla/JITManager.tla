----------------------------- MODULE JITManager -----------------------------
(***************************************************************************)
(* JITManager of src/jit/jit_manager.cpp: the registry of components that  *)
(* a running simulation evaluates.  Every method but evaluateComponent     *)
(* holds m_mutex from beginning to end and is one action; so is a call of  *)
(* evaluateComponent inside one of them.  A call from elsewhere            *)
(* (MultiCoreJIT) holds nothing: it begins, runs the function it has read, *)
(* and ends.                                                               *)
(*                                                                         *)
(* A JIT instance is a number, 0 for a null pointer, and so is a function  *)
(* pointer: the instance that holds its code.  A source is known by what   *)
(* compiling it comes to (`fate').  Of a component's state is_valid and    *)
(* current_time are kept.                                                  *)
(***************************************************************************)
EXTENDS Naturals, FiniteSets

CONSTANTS
    Names,       \* component names
    Sources,     \* component sources
    fate,        \* fate[s]: "ok", "noModule" (or an exception), "noFunction", "empty"
    hasEval,     \* hasEval[s]: the module of s defines eval
    Evaluators,  \* threads that call evaluateComponent without the mutex
    None,
    MaxJits,     \* bound: how many FluxJIT instances are ever created
    MaxTime,     \* bound of current_time
    Tabled,      \* bound: the names hosts bind buffers to and probe
    Concurrent   \* whether the registry may change while an evaluator runs

Jits == 1 .. MaxJits

ASSUME SourcesAssumption ==
    /\ fate \in [Sources -> {"ok", "noModule", "noFunction", "empty"}]
    /\ hasEval \in [Sources -> BOOLEAN]
ASSUME BoundsAssumption == MaxJits \in Nat /\ MaxTime \in Nat /\ Concurrent \in BOOLEAN
ASSUME NamesAssumption == /\ IsFiniteSet(Names)
                         /\ None \notin Names \cup Sources
                         /\ Tabled \subseteq Names

VARIABLES
    m_initialized, m_simulation_active,
    m_components,      \* name -> component, for the registered names
    m_input_buffers, m_output_buffers, m_probe_data,  \* the names with an entry
    total_components, active_components,              \* of m_stats
    nextJit,           \* the next FluxJIT instance
    codeOf,            \* what each instance was given to run
    snapshot,          \* a state that a host got with getComponentState
    restored,          \* history: names whose validity a host has put back
    running            \* what each evaluator runs: a name and a function

tables == <<m_input_buffers, m_output_buffers, m_probe_data>>
flags == <<m_initialized, m_simulation_active>>
stats == <<total_components, active_components>>
jitVars == <<nextJit, codeOf>>
host == <<snapshot, restored>>
vars == <<flags, m_components, tables, stats, jitVars, host, running>>

State == [is_valid : BOOLEAN, current_time : 0 .. MaxTime]
Component == [source_code : Sources, jit : Jits \cup {0}, update_func : Jits \cup {0},
              eval_func : Jits \cup {0}, state : State]
FreshState == [is_valid |-> FALSE, current_time |-> 0]
Registered == DOMAIN m_components

Init ==
    /\ m_initialized = FALSE /\ m_simulation_active = FALSE
    /\ m_components = [n \in {} |-> None]
    /\ m_input_buffers = {} /\ m_output_buffers = {} /\ m_probe_data = {}
    /\ total_components = 0 /\ active_components = 0
    /\ nextJit = 1
    /\ codeOf = [j \in Jits |-> None]
    /\ snapshot = None /\ restored = {}
    /\ running = [e \in Evaluators |-> None]

\* Unless Concurrent, hosts change the registry only between evaluations.
MayChange == Concurrent \/ \A e \in Evaluators : running[e] = None

----------------------------------------------------------------------------
Initialize ==
    /\ MayChange
    /\ ~m_initialized
    /\ m_components' = [n \in {} |-> None]
    /\ m_input_buffers' = {} /\ m_output_buffers' = {} /\ m_probe_data' = {}
    /\ total_components' = 0 /\ active_components' = 0
    /\ m_simulation_active' = FALSE
    /\ m_initialized' = TRUE
    /\ restored' = {}
    /\ UNCHANGED <<jitVars, snapshot, running>>

\* The statistics are left alone.
Finalize ==
    /\ MayChange
    /\ m_components' = [n \in {} |-> None]
    /\ m_input_buffers' = {} /\ m_output_buffers' = {} /\ m_probe_data' = {}
    /\ m_initialized' = FALSE /\ m_simulation_active' = FALSE
    /\ restored' = {}
    /\ UNCHANGED <<stats, jitVars, snapshot, running>>

\* registerComponent, and registerSignalGenerator by way of it.
Register(n, s) ==
    /\ MayChange
    /\ m_initialized
    /\ n \notin Registered
    /\ m_components' = [x \in Registered \cup {n} |->
                          IF x = n THEN [source_code |-> s, jit |-> 0, update_func |-> 0,
                                         eval_func |-> 0, state |-> FreshState]
                                   ELSE m_components[x]]
    /\ total_components' = total_components + 1
    /\ UNCHANGED <<flags, tables, active_components, jitVars, host, running>>

\* Mutant: the buffers of a component survive it.
UnregisterKeepBuffers(n) ==
    /\ MayChange
    /\ n \in Registered
    /\ m_components' = [x \in Registered \ {n} |-> m_components[x]]
    /\ m_probe_data' = m_probe_data \ {n}
    /\ total_components' = total_components - 1
    /\ restored' = restored \ {n}
    /\ UNCHANGED <<flags, m_input_buffers, m_output_buffers, active_components, jitVars,
                   snapshot, running>>

Unregister(n) ==
    /\ MayChange
    /\ n \in Registered
    /\ m_components' = [x \in Registered \ {n} |-> m_components[x]]
    /\ m_probe_data' = m_probe_data \ {n}
    /\ m_input_buffers' = m_input_buffers \ {n}
    /\ m_output_buffers' = m_output_buffers \ {n}
    /\ total_components' = total_components - 1
    /\ restored' = restored \ {n}
    /\ UNCHANGED <<flags, active_components, jitVars, snapshot, running>>

----------------------------------------------------------------------------
\* Mutant: a failed compilation leaves is_valid alone.
CompiledStillValid(c, s, j) ==
    CASE fate[s] = "ok" ->
           [c EXCEPT !.jit = j, !.update_func = j, !.eval_func = IF hasEval[s] THEN j ELSE 0,
                     !.state.is_valid = TRUE]
      [] fate[s] = "noFunction" ->
           [c EXCEPT !.jit = j, !.update_func = 0, !.eval_func = IF hasEval[s] THEN j ELSE 0]
      [] fate[s] = "noModule" -> [c EXCEPT !.jit = j]
      [] fate[s] = "empty" ->
           [c EXCEPT !.jit = 0, !.update_func = 0, !.eval_func = 0]

\* Mutant: the function is only stored when there is one.
CompiledFunctionKept(c, s, j) ==
    CASE fate[s] = "ok" ->
           [c EXCEPT !.jit = j, !.update_func = j, !.eval_func = IF hasEval[s] THEN j ELSE 0,
                     !.state.is_valid = TRUE]
      [] fate[s] = "noFunction" ->
           [c EXCEPT !.jit = j, !.eval_func = IF hasEval[s] THEN j ELSE 0, !.state.is_valid = FALSE]
      [] fate[s] = "noModule" -> [c EXCEPT !.jit = j, !.state.is_valid = FALSE]
      [] fate[s] = "empty" ->
           [c EXCEPT !.jit = 0, !.update_func = 0, !.eval_func = 0, !.state.is_valid = FALSE]

\* What compileSource makes of component c, with j the instance it creates.
\* When compilation fails the function pointers are not touched.
Compiled(c, s, j) ==
    CASE fate[s] = "ok" ->
           [c EXCEPT !.jit = j, !.update_func = j, !.eval_func = IF hasEval[s] THEN j ELSE 0,
                     !.state.is_valid = TRUE]
      [] fate[s] = "noFunction" ->
           [c EXCEPT !.jit = j, !.update_func = 0, !.eval_func = IF hasEval[s] THEN j ELSE 0,
                     !.state.is_valid = FALSE]
      [] fate[s] = "noModule" -> [c EXCEPT !.jit = j, !.state.is_valid = FALSE]
      [] fate[s] = "empty" ->
           [c EXCEPT !.jit = 0, !.update_func = 0, !.eval_func = 0, !.state.is_valid = FALSE]

\* The effect of compileSource(s) for component n, whose record becomes `result'.
CompileSource(n, s, result) ==
    /\ m_components' = [m_components EXCEPT ![n] = result]
    /\ IF fate[s] = "empty"
         THEN UNCHANGED jitVars
         ELSE /\ nextJit <= MaxJits
              /\ nextJit' = nextJit + 1
              /\ codeOf' = [codeOf EXCEPT ![nextJit] =
                              IF fate[s] = "noModule" THEN None ELSE s]
    /\ active_components' = active_components + IF fate[s] = "ok" THEN 1 ELSE 0

\* compileComponent and recompileComponent: they differ in whether s is new.
Recompile(n, s) ==
    /\ MayChange
    /\ n \in Registered
    /\ CompileSource(n, s, Compiled([m_components[n] EXCEPT !.source_code = s], s, nextJit))
    /\ restored' = restored \ {n}
    /\ UNCHANGED <<flags, tables, total_components, snapshot, running>>

\* hotReloadComponent: on success the state from before, is_valid included.
HotReload(n, s) ==
    /\ MayChange
    /\ n \in Registered
    /\ LET c == Compiled([m_components[n] EXCEPT !.source_code = s], s, nextJit)
       IN  CompileSource(n, s, IF fate[s] = "ok" THEN [c EXCEPT !.state = m_components[n].state]
                                                 ELSE c)
    /\ restored' = IF fate[s] = "ok" THEN restored ELSE restored \ {n}
    /\ UNCHANGED <<flags, tables, total_components, snapshot, running>>

----------------------------------------------------------------------------
\* init_func is null throughout: only the clocks are set.
InitializeSimulation ==
    /\ MayChange
    /\ m_simulation_active' = TRUE
    /\ m_components' = [n \in Registered |-> [m_components[n] EXCEPT !.state.current_time = 0]]
    /\ UNCHANGED <<m_initialized, tables, stats, jitVars, host, running>>

StepSimulation(t) ==
    /\ MayChange
    /\ m_simulation_active
    /\ m_components' = [n \in Registered |-> [m_components[n] EXCEPT !.state.current_time = t]]
    /\ UNCHANGED <<flags, tables, stats, jitVars, host, running>>

GetState(n) ==
    /\ n \in Registered
    /\ snapshot' = m_components[n].state
    /\ UNCHANGED <<flags, m_components, tables, stats, jitVars, restored, running>>

SetState(n) ==
    /\ MayChange
    /\ n \in Registered
    /\ snapshot # None
    /\ m_components' = [m_components EXCEPT ![n].state = snapshot]
    /\ restored' = restored \cup {n}
    /\ UNCHANGED <<flags, tables, stats, jitVars, snapshot, running>>

\* resetComponentState; resetAllStates is one of these for each name.
ResetState(n) ==
    /\ MayChange
    /\ n \in Registered
    /\ m_components' = [m_components EXCEPT ![n].state = FreshState]
    /\ restored' = restored \ {n}
    /\ UNCHANGED <<flags, tables, stats, jitVars, snapshot, running>>

BindBuffer(n) ==
    /\ n \in Registered
    /\ \/ m_input_buffers' = m_input_buffers \cup {n} /\ UNCHANGED m_output_buffers
       \/ m_output_buffers' = m_output_buffers \cup {n} /\ UNCHANGED m_input_buffers
    /\ UNCHANGED <<flags, m_components, m_probe_data, stats, jitVars, host, running>>

\* enableProbe asks for no component of that name; disableProbe keeps the
\* component's entry, clearProbeData removes it.
Probe(n) ==
    /\ \/ m_probe_data' = m_probe_data \cup {n}
       \/ m_probe_data' = m_probe_data \ {n}
    /\ UNCHANGED <<flags, m_components, m_input_buffers, m_output_buffers, stats, jitVars,
                   host, running>>

\* evaluateComponent without the mutex: the pointer is tested and called ...
EvalBegin(e, n) ==
    /\ running[e] = None
    /\ n \in Registered
    /\ m_components[n].update_func # 0
    /\ running' = [running EXCEPT ![e] = [name |-> n, code |-> m_components[n].update_func]]
    /\ UNCHANGED <<flags, m_components, tables, stats, jitVars, host>>

\* ... and returns; then comp.num_outputs is read.
EvalEnd(e) ==
    /\ running[e] # None
    /\ running' = [running EXCEPT ![e] = None]
    /\ UNCHANGED <<flags, m_components, tables, stats, jitVars, host>>

Next ==
    \/ Initialize \/ Finalize \/ InitializeSimulation
    \/ \E n \in Names :
         \/ \E s \in Sources : Register(n, s) \/ Recompile(n, s) \/ HotReload(n, s)
         \/ Unregister(n) \/ GetState(n) \/ SetState(n) \/ ResetState(n)
         \/ n \in Tabled /\ (BindBuffer(n) \/ Probe(n))
         \/ \E e \in Evaluators : EvalBegin(e, n)
    \/ \E t \in 0 .. MaxTime : StepSimulation(t)
    \/ \E e \in Evaluators : EvalEnd(e)

Spec == Init /\ [][Next]_vars
----------------------------------------------------------------------------
TypeOK ==
    /\ m_initialized \in BOOLEAN /\ m_simulation_active \in BOOLEAN
    /\ Registered \in SUBSET Names
    /\ m_components \in [Registered -> Component]
    /\ m_input_buffers \in SUBSET Names /\ m_output_buffers \in SUBSET Names
    /\ m_probe_data \in SUBSET Names
    /\ total_components \in Nat /\ active_components \in Nat
    /\ nextJit \in 1 .. MaxJits + 1
    /\ codeOf \in [Jits -> Sources \cup {None}]
    /\ snapshot \in State \cup {None} /\ restored \in SUBSET Names
    /\ running \in [Evaluators -> [name : Names, code : Jits] \cup {None}]

(* Buffers are bound only to registered components: no call sequence leaves *)
(* a host's buffer behind for a later component of the same name.           *)
BuffersRegistered == m_input_buffers \cup m_output_buffers \subseteq Registered

(* While the manager is initialised, total_components is the number of      *)
(* registered components, across restarts that reset them at different      *)
(* moments.                                                                 *)
TotalCounts == m_initialized => total_components = Cardinality(Registered)

(* What is kept beside the registry agrees with it, through every sequence  *)
(* of registrations, restarts and resets.                                   *)
TablesAgree == BuffersRegistered /\ TotalCounts

(* A component that counts as valid runs the code of its own source, from   *)
(* the instance it owns, whatever compilations have failed before, unless a  *)
(* host has put back the validity of an earlier version.                    *)
ValidRunsItsSource ==
    \A n \in Registered \ restored :
        LET c == m_components[n] IN
        c.state.is_valid =>
            /\ c.jit # 0 /\ c.update_func = c.jit
            /\ codeOf[c.jit] = c.source_code

(* The function a component is evaluated with belongs to the instance the   *)
(* component owns, any other having been destroyed: also after a failed     *)
(* compilation, unless its source yields no module, when line 294 has       *)
(* destroyed the old instance and the function is left pointing into it.    *)
UpdateFuncLive ==
    \A n \in Registered :
        LET c == m_components[n] IN
        c.update_func \in {0, c.jit} \/ fate[c.source_code] = "noModule"
=============================================================================
