-------------------------- MODULE JITManagerProofs --------------------------
(***************************************************************************)
(* Proofs about JITManager, and about HotReload on top of it, for any      *)
(* finite set of names, any sources and any number of instances.           *)
(*                                                                         *)
(* TypeOK needs the count of registered components (unregisterComponent    *)
(* decrements it), and the count needs that nothing is registered while    *)
(* the manager is not initialised; TablesAgree is the count and the        *)
(* tables' names together. ValidRunsItsSource needs that every component's *)
(* instance was created before the next one, so that filling in the next   *)
(* one does not change what a component runs.                              *)
(*                                                                         *)
(* HotInv, for the two together, says that an instance a transaction holds *)
(* was made before the next one and belongs to nobody else. FunctionsLive  *)
(* is inductive with it, with no assumption on what hosts call when.       *)
(***************************************************************************)
EXTENDS HotReload, FiniteSetTheorems, TLAPS

CountInv ==
    /\ m_initialized => total_components = Cardinality(Registered)
    /\ ~m_initialized => Registered = {}

RegistryInv == TypeOK /\ CountInv /\ BuffersRegistered

\* A component's instance is an old one, and if it counts as valid it runs
\* the component's source.
RunsItsSource(n, c, codes, next, res) ==
    /\ c.jit < next
    /\ n \notin res /\ c.state.is_valid =>
         /\ c.jit # 0 /\ c.update_func = c.jit
         /\ codes[c.jit] = c.source_code

SourceInv ==
    \A n \in Registered : RunsItsSource(n, m_components[n], codeOf, nextJit, restored)

----------------------------------------------------------------------------
\* What compileSource makes of a component is a component.
LEMMA CompiledType ==
    ASSUME NEW c \in Component, NEW s \in Sources, NEW j \in Nat,
           fate[s] # "empty" => j \in Jits
    PROVE  Compiled(c, s, j) \in Component
<1> USE SourcesAssumption, BoundsAssumption DEF Component, State
<1>1. fate[s] \in {"ok", "noModule", "noFunction", "empty"}
  OBVIOUS
<1>2. CASE fate[s] = "ok"
  BY <1>2 DEF Compiled
<1>3. CASE fate[s] = "noModule"
  BY <1>3 DEF Compiled
<1>4. CASE fate[s] = "noFunction"
  BY <1>4 DEF Compiled
<1>5. CASE fate[s] = "empty"
  BY <1>5 DEF Compiled
<1> QED
  BY <1>1, <1>2, <1>3, <1>4, <1>5

\* A new source is a component's only field that is not one of a component.
LEMMA WithSourceType ==
    ASSUME NEW c \in Component, NEW s \in Sources
    PROVE  [c EXCEPT !.source_code = s] \in Component
  BY DEF Component

\* The old state put back into a component.
LEMMA WithStateType ==
    ASSUME NEW c \in Component, NEW t \in State
    PROVE  [c EXCEPT !.state = t] \in Component
  BY DEF Component

\* The effect of compileSource on the registry, whatever component results.
LEMMA CompileSourceRegistry ==
    ASSUME RegistryInv, NEW n \in Registered, NEW s \in Sources, NEW r \in Component,
           CompileSource(n, s, r),
           UNCHANGED <<flags, tables, total_components, snapshot, running>>,
           restored' \in SUBSET Names
    PROVE  RegistryInv'
<1> USE SourcesAssumption, BoundsAssumption DEF flags, tables, Registered
<1>1. DOMAIN m_components' = DOMAIN m_components
  BY DEF CompileSource
<1>2. m_components' \in [Registered -> Component]
  BY DEF RegistryInv, TypeOK, CompileSource
<1>3. nextJit' \in 1 .. MaxJits + 1 /\ codeOf' \in [Jits -> Sources \cup {None}]
  <2>1. CASE fate[s] = "empty"
    BY <2>1 DEF RegistryInv, TypeOK, CompileSource, jitVars
  <2>2. CASE fate[s] # "empty"
    BY <2>2 DEF RegistryInv, TypeOK, CompileSource, Jits
  <2> QED
    BY <2>1, <2>2
<1>4. active_components' \in Nat
  BY DEF RegistryInv, TypeOK, CompileSource
<1>5. TypeOK'
  BY <1>1, <1>2, <1>3, <1>4 DEF RegistryInv, TypeOK
<1>6. CountInv' /\ BuffersRegistered'
  BY <1>1 DEF RegistryInv, CountInv, BuffersRegistered
<1> QED
  BY <1>5, <1>6 DEF RegistryInv

\* An action that changes at most the contents of components, the clock's
\* flag, what evaluators run and the snapshot.
LEMMA ContentsRegistry ==
    ASSUME RegistryInv,
           DOMAIN m_components' = DOMAIN m_components,
           m_components' \in [Registered -> Component],
           m_simulation_active' \in BOOLEAN,
           snapshot' \in State \cup {None}, restored' \in SUBSET Names,
           running' \in [Evaluators -> [name : Names, code : Jits] \cup {None}],
           UNCHANGED <<m_initialized, tables, stats, jitVars>>
    PROVE  RegistryInv'
<1> USE DEF tables, stats, jitVars, Registered
<1>1. TypeOK'
  BY DEF RegistryInv, TypeOK
<1>2. CountInv' /\ BuffersRegistered'
  BY DEF RegistryInv, CountInv, BuffersRegistered
<1> QED
  BY <1>1, <1>2 DEF RegistryInv

----------------------------------------------------------------------------
LEMMA InitRegistry == Init => RegistryInv
<1> SUFFICES ASSUME Init PROVE RegistryInv
  OBVIOUS
<1> USE BoundsAssumption DEF Init
<1>1. Registered = {}
  BY DEF Registered
<1>2. m_components \in [Registered -> Component]
  BY <1>1 DEF Registered
<1>3. TypeOK
  <2>1. nextJit \in 1 .. MaxJits + 1 /\ codeOf \in [Jits -> Sources \cup {None}]
    OBVIOUS
  <2>2. running \in [Evaluators -> [name : Names, code : Jits] \cup {None}]
    OBVIOUS
  <2> QED
    BY <1>1, <1>2, <2>1, <2>2 DEF TypeOK
<1>4. CountInv /\ BuffersRegistered
  BY <1>1 DEF CountInv, BuffersRegistered
<1> QED
  BY <1>3, <1>4 DEF RegistryInv

LEMMA InitializeRegistry == RegistryInv /\ Initialize => RegistryInv'
<1> SUFFICES ASSUME RegistryInv, Initialize PROVE RegistryInv'
  OBVIOUS
<1>1. Registered' = {}
  BY DEF Initialize, Registered
<1>2. m_components' \in [Registered' -> Component]
  BY <1>1 DEF Initialize, Registered
<1>3. TypeOK'
  BY <1>1, <1>2 DEF Initialize, RegistryInv, TypeOK, jitVars
<1>4. CountInv'
  BY <1>1, FS_EmptySet DEF Initialize, CountInv
<1>5. BuffersRegistered'
  BY DEF Initialize, BuffersRegistered
<1> QED
  BY <1>3, <1>4, <1>5 DEF RegistryInv

LEMMA FinalizeRegistry == RegistryInv /\ Finalize => RegistryInv'
<1> SUFFICES ASSUME RegistryInv, Finalize PROVE RegistryInv'
  OBVIOUS
<1>1. Registered' = {}
  BY DEF Finalize, Registered
<1>2. m_components' \in [Registered' -> Component]
  BY <1>1 DEF Finalize, Registered
<1>3. TypeOK'
  BY <1>1, <1>2 DEF Finalize, RegistryInv, TypeOK, jitVars, stats
<1>4. CountInv' /\ BuffersRegistered'
  BY <1>1 DEF Finalize, CountInv, BuffersRegistered
<1> QED
  BY <1>3, <1>4 DEF RegistryInv

LEMMA RegisterRegistry ==
    ASSUME RegistryInv, NEW n \in Names, NEW s \in Sources, Register(n, s)
    PROVE  RegistryInv'
<1> USE BoundsAssumption DEF Register, flags, tables, jitVars, host
<1> DEFINE c == [source_code |-> s, jit |-> 0, update_func |-> 0, eval_func |-> 0,
                 state |-> FreshState]
<1>1. Registered' = Registered \cup {n}
  BY DEF Registered
<1>2. c \in Component
  BY DEF Component, State, FreshState
<1>3. m_components' \in [Registered' -> Component]
  <2>1. \A x \in Registered : m_components[x] \in Component
    BY DEF RegistryInv, TypeOK
  <2> QED
    BY <1>1, <1>2, <2>1
<1>4. Registered \subseteq Names /\ IsFiniteSet(Registered)
  BY NamesAssumption, FS_Subset DEF RegistryInv, TypeOK
<1>5. Cardinality(Registered') = Cardinality(Registered) + 1
  BY <1>1, <1>4, FS_AddElement
<1>6. TypeOK'
  BY <1>1, <1>3, <1>4 DEF RegistryInv, TypeOK
<1>7. CountInv'
  BY <1>5 DEF RegistryInv, CountInv
<1>8. BuffersRegistered'
  BY <1>1 DEF RegistryInv, BuffersRegistered
<1> QED
  BY <1>6, <1>7, <1>8 DEF RegistryInv

LEMMA UnregisterRegistry ==
    ASSUME RegistryInv, NEW n \in Names, Unregister(n)
    PROVE  RegistryInv'
<1> USE DEF Unregister, flags, jitVars
<1>1. Registered' = Registered \ {n}
  BY DEF Registered
<1>2. m_components' \in [Registered' -> Component]
  BY <1>1 DEF RegistryInv, TypeOK
<1>3. Registered \subseteq Names /\ IsFiniteSet(Registered)
  BY NamesAssumption, FS_Subset DEF RegistryInv, TypeOK
<1>4. Cardinality(Registered') = Cardinality(Registered) - 1
  BY <1>1, <1>3, FS_RemoveElement
<1>5. /\ m_initialized
      /\ total_components = Cardinality(Registered)
  BY DEF RegistryInv, CountInv
<1>6. Cardinality(Registered') \in Nat
  BY <1>1, <1>3, FS_RemoveElement, FS_CardinalityType
<1>7. total_components' = Cardinality(Registered')
  BY <1>4, <1>5
<1>8. TypeOK'
  BY <1>1, <1>2, <1>3, <1>6, <1>7 DEF RegistryInv, TypeOK
<1>9. CountInv' /\ BuffersRegistered'
  BY <1>1, <1>5, <1>7 DEF RegistryInv, CountInv, BuffersRegistered
<1> QED
  BY <1>8, <1>9 DEF RegistryInv

LEMMA RecompileRegistry ==
    ASSUME RegistryInv, NEW n \in Names, NEW s \in Sources, Recompile(n, s)
    PROVE  RegistryInv'
<1> DEFINE c == [m_components[n] EXCEPT !.source_code = s]
<1>1. n \in Registered /\ m_components[n] \in Component
  BY DEF Recompile, RegistryInv, TypeOK
<1>2. c \in Component
  BY <1>1, WithSourceType
<1>3. nextJit \in Nat /\ (fate[s] # "empty" => nextJit \in Jits)
  BY BoundsAssumption DEF Recompile, CompileSource, RegistryInv, TypeOK, Jits
<1>4. Compiled(c, s, nextJit) \in Component
  BY <1>2, <1>3, CompiledType
<1>5. restored' \in SUBSET Names
  BY DEF Recompile, RegistryInv, TypeOK
<1> QED
  BY <1>1, <1>4, <1>5, CompileSourceRegistry DEF Recompile

LEMMA HotReloadRegistry ==
    ASSUME RegistryInv, NEW n \in Names, NEW s \in Sources, HotReload(n, s)
    PROVE  RegistryInv'
<1> DEFINE c == Compiled([m_components[n] EXCEPT !.source_code = s], s, nextJit)
           r == IF fate[s] = "ok" THEN [c EXCEPT !.state = m_components[n].state] ELSE c
<1>1. n \in Registered /\ m_components[n] \in Component /\ m_components[n].state \in State
  BY DEF HotReload, RegistryInv, TypeOK, Component
<1>2. [m_components[n] EXCEPT !.source_code = s] \in Component
  BY <1>1, WithSourceType
<1>3. CompileSource(n, s, r) /\ UNCHANGED <<flags, tables, total_components, snapshot, running>>
  BY DEF HotReload
<1>4. nextJit \in Nat /\ (fate[s] # "empty" => nextJit \in Jits)
  BY <1>3, BoundsAssumption DEF CompileSource, RegistryInv, TypeOK, Jits
<1>5. c \in Component
  BY <1>2, <1>4, CompiledType
<1>6. r \in Component
  BY <1>1, <1>5, WithStateType
<1>7. restored' \in SUBSET Names
  BY DEF HotReload, RegistryInv, TypeOK
<1> QED
  BY <1>1, <1>3, <1>6, <1>7, CompileSourceRegistry

LEMMA SimulationRegistry ==
    ASSUME RegistryInv, NEW t \in 0 .. MaxTime, InitializeSimulation \/ StepSimulation(t)
    PROVE  RegistryInv'
<1> USE BoundsAssumption DEF flags, Registered
<1>1. PICK u \in 0 .. MaxTime :
        m_components' = [n \in Registered |-> [m_components[n] EXCEPT !.state.current_time = u]]
  BY DEF InitializeSimulation, StepSimulation
<1>2. \A n \in Registered : [m_components[n] EXCEPT !.state.current_time = u] \in Component
  BY DEF RegistryInv, TypeOK, Component, State
<1>3. DOMAIN m_components' = Registered /\ m_components' \in [Registered -> Component]
  BY <1>1, <1>2
<1>4. /\ m_simulation_active' \in BOOLEAN
      /\ UNCHANGED <<m_initialized, tables, stats, jitVars, host, running>>
  BY DEF InitializeSimulation, StepSimulation, RegistryInv, TypeOK
<1>5. /\ snapshot' \in State \cup {None} /\ restored' \in SUBSET Names
      /\ running' \in [Evaluators -> [name : Names, code : Jits] \cup {None}]
  BY <1>4 DEF RegistryInv, TypeOK, host
<1> QED
  BY <1>3, <1>4, <1>5, ContentsRegistry

LEMMA StatesRegistry ==
    ASSUME RegistryInv, NEW n \in Names, GetState(n) \/ SetState(n) \/ ResetState(n)
    PROVE  RegistryInv'
<1> USE BoundsAssumption DEF flags, Registered
<1>1. n \in Registered /\ m_components[n] \in Component /\ m_components[n].state \in State
  BY DEF GetState, SetState, ResetState, RegistryInv, TypeOK, Component
<1>2. CASE GetState(n)
  BY <1>1, <1>2, ContentsRegistry DEF GetState, host, RegistryInv, TypeOK
<1>3. CASE SetState(n) \/ ResetState(n)
  <2>1. PICK t \in State : m_components' = [m_components EXCEPT ![n].state = t]
    <3>1. FreshState \in State
      BY DEF FreshState, State
    <3>2. SetState(n) => snapshot \in State
      BY DEF SetState, RegistryInv, TypeOK
    <3> QED
      BY <1>3, <3>1, <3>2 DEF SetState, ResetState
  <2>2. [m_components[n] EXCEPT !.state = t] \in Component
    BY <1>1, WithStateType
  <2>3. DOMAIN m_components' = Registered /\ m_components' \in [Registered -> Component]
    BY <2>1, <2>2 DEF RegistryInv, TypeOK
  <2>4. /\ UNCHANGED <<flags, tables, stats, jitVars, snapshot, running>>
        /\ restored' \in SUBSET Names
    BY <1>3 DEF SetState, ResetState, RegistryInv, TypeOK
  <2> QED
    BY <2>3, <2>4, ContentsRegistry DEF RegistryInv, TypeOK
<1> QED
  BY <1>2, <1>3

LEMMA TablesRegistry ==
    ASSUME RegistryInv, NEW n \in Names, BindBuffer(n) \/ Probe(n)
    PROVE  RegistryInv'
<1> USE DEF BindBuffer, Probe, flags, stats, jitVars, host, Registered
<1>1. TypeOK'
  BY DEF RegistryInv, TypeOK
<1>2. CountInv' /\ BuffersRegistered'
  BY DEF RegistryInv, CountInv, BuffersRegistered
<1> QED
  BY <1>1, <1>2 DEF RegistryInv

LEMMA EvalRegistry ==
    ASSUME RegistryInv, NEW e \in Evaluators,
           (\E n \in Names : EvalBegin(e, n)) \/ EvalEnd(e)
    PROVE  RegistryInv'
<1>1. running' \in [Evaluators -> [name : Names, code : Jits] \cup {None}]
  <2>1. CASE EvalEnd(e)
    BY <2>1 DEF EvalEnd, RegistryInv, TypeOK
  <2>2. ASSUME NEW n \in Names, EvalBegin(e, n)
        PROVE  running' \in [Evaluators -> [name : Names, code : Jits] \cup {None}]
    <3>1. m_components[n].update_func \in Jits
      BY <2>2 DEF EvalBegin, RegistryInv, TypeOK, Component
    <3> QED
      BY <2>2, <3>1 DEF EvalBegin, RegistryInv, TypeOK
  <2> QED
    BY <2>1, <2>2
<1>2. UNCHANGED <<flags, m_components, tables, stats, jitVars, host>>
  BY DEF EvalBegin, EvalEnd
<1> QED
  BY <1>1, <1>2, ContentsRegistry DEF flags, host, RegistryInv, TypeOK, Registered

LEMMA StutterRegistry == RegistryInv /\ UNCHANGED vars => RegistryInv'
  BY DEF RegistryInv, TypeOK, CountInv, BuffersRegistered, Registered, vars, flags, tables,
         stats, jitVars, host

LEMMA NextRegistry == RegistryInv /\ [Next]_vars => RegistryInv'
<1> SUFFICES ASSUME RegistryInv, [Next]_vars PROVE RegistryInv'
  OBVIOUS
<1>1. ASSUME Initialize \/ Finalize PROVE RegistryInv'
  BY <1>1, InitializeRegistry, FinalizeRegistry
<1>2. ASSUME InitializeSimulation PROVE RegistryInv'
  <2>1. 0 \in 0 .. MaxTime
    BY BoundsAssumption
  <2> QED
    BY <1>2, <2>1, SimulationRegistry
<1>3. ASSUME NEW n \in Names, NEW s \in Sources,
             Register(n, s) \/ Recompile(n, s) \/ HotReload(n, s)
      PROVE  RegistryInv'
  BY <1>3, RegisterRegistry, RecompileRegistry, HotReloadRegistry
<1>4. ASSUME NEW n \in Names, Unregister(n) PROVE RegistryInv'
  BY <1>4, UnregisterRegistry
<1>5. ASSUME NEW n \in Names, GetState(n) \/ SetState(n) \/ ResetState(n) PROVE RegistryInv'
  BY <1>5, StatesRegistry
<1>6. ASSUME NEW n \in Names, BindBuffer(n) \/ Probe(n) PROVE RegistryInv'
  BY <1>6, TablesRegistry
<1>7. ASSUME NEW e \in Evaluators, (\E n \in Names : EvalBegin(e, n)) \/ EvalEnd(e)
      PROVE  RegistryInv'
  BY <1>7, EvalRegistry
<1>8. ASSUME NEW t \in 0 .. MaxTime, StepSimulation(t) PROVE RegistryInv'
  BY <1>8, SimulationRegistry
<1>9. ASSUME UNCHANGED vars PROVE RegistryInv'
  BY <1>9, StutterRegistry
<1> QED
  BY <1>1, <1>2, <1>3, <1>4, <1>5, <1>6, <1>7, <1>8, <1>9 DEF Next

LEMMA RegistryAlways == Spec => []RegistryInv
<1>1. Init => RegistryInv
  BY InitRegistry
<1>2. RegistryInv /\ [Next]_vars => RegistryInv'
  BY NextRegistry
<1> QED
  BY <1>1, <1>2, PTL DEF Spec

\* Every variable keeps its type (jit_manager.cpp): in particular the count of
\* components never goes below zero, in any order of registrations and restarts.
THEOREM TypeCorrect == Spec => []TypeOK
<1>1. RegistryInv => TypeOK
  BY DEF RegistryInv
<1> QED
  BY <1>1, RegistryAlways, PTL

\* While the manager is initialised total_components is the number of
\* registered components (registerComponent, unregisterComponent, initialize
\* and finalize of jit_manager.cpp).
THEOREM CountsComponents == Spec => []TotalCounts
<1>1. RegistryInv => TotalCounts
  BY DEF RegistryInv, CountInv, TotalCounts
<1> QED
  BY <1>1, RegistryAlways, PTL

\* No buffer outlives the component it was bound to (unregisterComponent,
\* initialize and finalize of jit_manager.cpp).
THEOREM BuffersBelong == Spec => []BuffersRegistered
<1>1. RegistryInv => BuffersRegistered
  BY DEF RegistryInv
<1> QED
  BY <1>1, RegistryAlways, PTL

\* Both: what is kept beside the registry agrees with it.
THEOREM TablesFit == Spec => []TablesAgree
<1>1. BuffersRegistered /\ TotalCounts => TablesAgree
  BY DEF TablesAgree
<1> QED
  BY <1>1, BuffersBelong, CountsComponents, PTL

----------------------------------------------------------------------------
\* A component whose code and validity stay as they are goes on running its
\* source when the next instance is filled in.
LEMMA KeptRuns ==
    ASSUME TypeOK, NEW n, NEW c \in Component, NEW d \in Component,
           RunsItsSource(n, c, codeOf, nextJit, restored),
           d.jit = c.jit, d.update_func = c.update_func, d.source_code = c.source_code,
           d.state.is_valid => c.state.is_valid,
           NEW codes, NEW next \in Nat, next >= nextJit,
           \A j \in Jits : j # nextJit => codes[j] = codeOf[j],
           NEW res, n \in restored => n \in res
    PROVE  RunsItsSource(n, d, codes, next, res)
<1>1. nextJit \in Nat /\ c.jit \in Nat /\ c.jit < nextJit
  BY BoundsAssumption DEF TypeOK, Component, RunsItsSource, Jits
<1>2. d.jit < next
  BY <1>1
<1>3. ASSUME n \notin res, d.state.is_valid
      PROVE  d.jit # 0 /\ d.update_func = d.jit /\ codes[d.jit] = d.source_code
  <2>1. c.jit # 0 /\ c.update_func = c.jit /\ codeOf[c.jit] = c.source_code
    BY <1>3 DEF RunsItsSource
  <2>2. c.jit \in Jits /\ c.jit # nextJit
    BY <1>1, <2>1 DEF Component
  <2> QED
    BY <2>1, <2>2
<1> QED
  BY <1>2, <1>3 DEF RunsItsSource

\* A component that has just been compiled runs its source if it is valid.
LEMMA CompiledRuns ==
    ASSUME NEW n, NEW c \in Component, NEW s \in Sources, NEW j \in Nat, c.source_code = s,
           j # 0, NEW codes, NEW next \in Nat, NEW res,
           fate[s] # "empty" => j < next /\ codes[j] = IF fate[s] = "noModule" THEN None ELSE s,
           fate[s] = "empty" => next # 0
    PROVE  RunsItsSource(n, Compiled(c, s, j), codes, next, res)
<1> USE DEF Component, State, Compiled, RunsItsSource
<1>1. fate[s] \in {"ok", "noModule", "noFunction", "empty"}
  BY SourcesAssumption
<1>2. CASE fate[s] = "ok"
  BY <1>2
<1>3. CASE fate[s] = "noModule"
  BY <1>3
<1>4. CASE fate[s] = "noFunction"
  BY <1>4
<1>5. CASE fate[s] = "empty"
  <2>1. Compiled(c, s, j).jit = 0 /\ Compiled(c, s, j).state.is_valid = FALSE
    BY <1>5
  <2>2. 0 < next
    BY <1>5
  <2> QED
    BY <2>1, <2>2
<1> QED
  BY <1>1, <1>2, <1>3, <1>4, <1>5

\* What compileSource does to the instances.
LEMMA CompileSourceJits ==
    ASSUME TypeOK, NEW n, NEW s \in Sources, NEW r, CompileSource(n, s, r)
    PROVE  /\ nextJit \in Nat \ {0} /\ nextJit' \in Nat \ {0} /\ nextJit' >= nextJit
           /\ \A j \in Jits : j # nextJit => codeOf'[j] = codeOf[j]
           /\ fate[s] # "empty" =>
                /\ nextJit < nextJit'
                /\ codeOf'[nextJit] = IF fate[s] = "noModule" THEN None ELSE s
<1>1. nextJit \in Nat \ {0}
  BY BoundsAssumption DEF TypeOK
<1>2. CASE fate[s] = "empty"
  BY <1>1, <1>2 DEF CompileSource, jitVars
<1>3. CASE fate[s] # "empty"
  <2>1. nextJit \in Jits /\ codeOf \in [Jits -> Sources \cup {None}]
    BY <1>1, <1>3, BoundsAssumption DEF CompileSource, TypeOK, Jits
  <2> QED
    BY <1>1, <1>3, <2>1 DEF CompileSource
<1> QED
  BY <1>2, <1>3

\* compileSource for one component, which becomes r, leaves the others alone.
LEMMA CompileSourceSource ==
    ASSUME TypeOK, SourceInv, NEW n \in Registered, NEW s \in Sources,
           NEW r, CompileSource(n, s, r),
           RunsItsSource(n, r, codeOf', nextJit', restored'),
           restored' \in {restored, restored \ {n}}
    PROVE  SourceInv'
<1>1. m_components' = [m_components EXCEPT ![n] = r] /\ Registered' = Registered
  BY DEF CompileSource, Registered
<1>2. ASSUME NEW m \in Registered, m # n
      PROVE  RunsItsSource(m, m_components'[m], codeOf', nextJit', restored')
  <2>1. m_components'[m] = m_components[m] /\ m_components[m] \in Component
    BY <1>1, <1>2 DEF TypeOK, Registered
  <2>2. RunsItsSource(m, m_components[m], codeOf, nextJit, restored)
    BY DEF SourceInv
  <2> QED
    BY <1>2, <2>1, <2>2, CompileSourceJits, KeptRuns
<1>3. m_components'[n] = r
  BY <1>1 DEF Registered
<1> QED
  BY <1>1, <1>2, <1>3 DEF SourceInv

LEMMA RecompileSource ==
    ASSUME RegistryInv, SourceInv, NEW n \in Names, NEW s \in Sources, Recompile(n, s)
    PROVE  SourceInv'
<1> DEFINE c == [m_components[n] EXCEPT !.source_code = s]
<1>1. n \in Registered /\ m_components[n] \in Component
  BY DEF Recompile, RegistryInv, TypeOK
<1>2. c \in Component /\ c.source_code = s
  BY <1>1, WithSourceType DEF Component
<1>3. TypeOK /\ CompileSource(n, s, Compiled(c, s, nextJit))
  BY DEF Recompile, RegistryInv
<1>4. RunsItsSource(n, Compiled(c, s, nextJit), codeOf', nextJit', restored')
  BY <1>2, <1>3, CompileSourceJits, CompiledRuns
<1> QED
  BY <1>1, <1>3, <1>4, CompileSourceSource DEF Recompile

\* When the old validity comes back over new code, the component was valid and
\* now runs the new source, or it was not.
LEMMA HotReloadSource ==
    ASSUME RegistryInv, SourceInv, NEW n \in Names, NEW s \in Sources, HotReload(n, s)
    PROVE  SourceInv'
<1> DEFINE b == [m_components[n] EXCEPT !.source_code = s]
           c == Compiled(b, s, nextJit)
           r == IF fate[s] = "ok" THEN [c EXCEPT !.state = m_components[n].state] ELSE c
<1>1. n \in Registered /\ m_components[n] \in Component
  BY DEF HotReload, RegistryInv, TypeOK
<1>2. b \in Component /\ b.source_code = s
  BY <1>1, WithSourceType DEF Component
<1>3. TypeOK /\ CompileSource(n, s, r)
  BY DEF HotReload, RegistryInv
<1>4. RunsItsSource(n, r, codeOf', nextJit', restored')
  <2>1. CASE fate[s] = "ok"
    <3>1. nextJit < nextJit' /\ nextJit # 0 /\ codeOf'[nextJit] = s
      BY <1>3, <2>1, CompileSourceJits
    <3>2. r.jit = nextJit /\ r.update_func = nextJit /\ r.source_code = s
      BY <1>2, <2>1 DEF Compiled, Component
    <3> QED
      BY <3>1, <3>2 DEF RunsItsSource
  <2>2. CASE fate[s] # "ok"
    BY <1>2, <1>3, <2>2, CompileSourceJits, CompiledRuns
  <2> QED
    BY <2>1, <2>2
<1> QED
  BY <1>1, <1>3, <1>4, CompileSourceSource DEF HotReload

\* An action that gives no component other code and makes none valid, unless
\* it is recorded as restored.
LEMMA ContentsSource ==
    ASSUME RegistryInv, SourceInv, RegistryInv', UNCHANGED jitVars,
           \A n \in Registered' :
             /\ n \in Registered
             /\ m_components'[n].jit = m_components[n].jit
             /\ m_components'[n].update_func = m_components[n].update_func
             /\ m_components'[n].source_code = m_components[n].source_code
             /\ \/ n \in restored'
                \/ ~m_components'[n].state.is_valid
                \/ /\ m_components'[n].state.is_valid => m_components[n].state.is_valid
                   /\ n \in restored => n \in restored'
    PROVE  SourceInv'
<1> SUFFICES ASSUME NEW n \in Registered'
             PROVE  RunsItsSource(n, m_components'[n], codeOf', nextJit', restored')
  BY DEF SourceInv
<1>1. m_components[n] \in Component /\ m_components'[n] \in Component
  BY DEF RegistryInv, TypeOK
<1>2. RunsItsSource(n, m_components[n], codeOf, nextJit, restored)
  BY DEF SourceInv
<1>3. codeOf' = codeOf /\ nextJit' = nextJit /\ nextJit \in Nat
  BY BoundsAssumption DEF jitVars, RegistryInv, TypeOK
<1>4. CASE n \in restored' \/ ~m_components'[n].state.is_valid
  BY <1>2, <1>3, <1>4 DEF RunsItsSource
<1>5. CASE ~(n \in restored' \/ ~m_components'[n].state.is_valid)
  BY <1>1, <1>2, <1>3, <1>5, KeptRuns DEF RegistryInv
<1> QED
  BY <1>4, <1>5

----------------------------------------------------------------------------
LEMMA RegisterSource ==
    ASSUME RegistryInv, SourceInv, NEW n \in Names, NEW s \in Sources, Register(n, s)
    PROVE  SourceInv'
<1>1. Registered' = Registered \cup {n} /\ UNCHANGED <<nextJit, codeOf, restored>>
  BY DEF Register, Registered, jitVars, host
<1>2. ASSUME NEW m \in Registered, m # n
      PROVE  RunsItsSource(m, m_components'[m], codeOf', nextJit', restored')
  <2>1. m_components'[m] = m_components[m]
    BY <1>2 DEF Register, Registered
  <2> QED
    BY <1>1, <2>1 DEF SourceInv
<1>3. RunsItsSource(n, m_components'[n], codeOf', nextJit', restored')
  <2>1. m_components'[n].jit = 0 /\ m_components'[n].state.is_valid = FALSE
    BY DEF Register, FreshState
  <2>2. 0 < nextJit
    BY BoundsAssumption DEF RegistryInv, TypeOK
  <2> QED
    BY <1>1, <2>1, <2>2 DEF RunsItsSource
<1> QED
  BY <1>1, <1>2, <1>3 DEF SourceInv

LEMMA UnregisterSource ==
    ASSUME RegistryInv, SourceInv, RegistryInv', NEW n \in Names, Unregister(n)
    PROVE  SourceInv'
<1>1. Registered' = Registered \ {n} /\ UNCHANGED jitVars /\ restored' = restored \ {n}
  BY DEF Unregister, Registered
<1>2. \A m \in Registered' : m \in Registered /\ m # n /\ m_components'[m] = m_components[m]
  BY <1>1 DEF Unregister, Registered
<1> QED
  BY <1>1, <1>2, ContentsSource

LEMMA ClearedSource == (Initialize \/ Finalize) => SourceInv'
<1> SUFFICES ASSUME Initialize \/ Finalize PROVE SourceInv'
  OBVIOUS
<1>1. Registered' = {}
  BY DEF Initialize, Finalize, Registered
<1> QED
  BY <1>1 DEF SourceInv

LEMMA StatesSource ==
    ASSUME RegistryInv, SourceInv, RegistryInv', NEW n \in Names,
           GetState(n) \/ SetState(n) \/ ResetState(n)
    PROVE  SourceInv'
<1>1. n \in Registered /\ m_components \in [Registered -> Component] /\ UNCHANGED jitVars
  BY DEF GetState, SetState, ResetState, RegistryInv, TypeOK
<1>2. CASE GetState(n)
  BY <1>1, <1>2, ContentsSource DEF GetState, Registered
<1>3. CASE SetState(n) \/ ResetState(n)
  <2>1. PICK t : /\ m_components' = [m_components EXCEPT ![n].state = t]
                 /\ n \in restored' \/ t.is_valid = FALSE
                 /\ restored' \in {restored \cup {n}, restored \ {n}}
    <3>1. CASE SetState(n)
      <4>1. /\ m_components' = [m_components EXCEPT ![n].state = snapshot]
            /\ restored' = restored \cup {n}
        BY <3>1 DEF SetState
      <4> QED
        BY <4>1
    <3>2. CASE ResetState(n)
      <4>1. /\ m_components' = [m_components EXCEPT ![n].state = FreshState]
            /\ restored' = restored \ {n} /\ FreshState.is_valid = FALSE
        BY <3>2 DEF ResetState, FreshState
      <4> QED
        BY <4>1
    <3> QED
      BY <1>3, <3>1, <3>2
  <2>2. Registered' = Registered
    BY <2>1 DEF Registered
  <2>3. ASSUME NEW m \in Registered
        PROVE  /\ m_components'[m].jit = m_components[m].jit
               /\ m_components'[m].update_func = m_components[m].update_func
               /\ m_components'[m].source_code = m_components[m].source_code
    BY <1>1, <2>1 DEF Component
  <2>4. ASSUME NEW m \in Registered, m # n
        PROVE  m_components'[m] = m_components[m] /\ (m \in restored => m \in restored')
    BY <1>1, <2>1, <2>4
  <2>5. m_components'[n].state = t
    BY <1>1, <2>1 DEF Component
  <2>6. ASSUME NEW m \in Registered
        PROVE  \/ m \in restored'
               \/ ~m_components'[m].state.is_valid
               \/ /\ m_components'[m].state.is_valid => m_components[m].state.is_valid
                  /\ m \in restored => m \in restored'
    <3>1. CASE m = n
      BY <2>1, <2>5, <3>1
    <3>2. CASE m # n
      BY <2>4, <3>2
    <3> QED
      BY <3>1, <3>2
  <2> QED
    BY <1>1, <2>2, <2>3, <2>6, ContentsSource
<1> QED
  BY <1>2, <1>3

LEMMA SimulationSource ==
    ASSUME RegistryInv, SourceInv, RegistryInv', NEW t \in 0 .. MaxTime,
           InitializeSimulation \/ StepSimulation(t)
    PROVE  SourceInv'
<1>1. PICK u \in 0 .. MaxTime :
        m_components' = [n \in Registered |-> [m_components[n] EXCEPT !.state.current_time = u]]
  BY BoundsAssumption DEF InitializeSimulation, StepSimulation
<1>2. Registered' = Registered
  BY <1>1 DEF Registered
<1>3. ASSUME NEW n \in Registered
      PROVE  /\ m_components'[n].jit = m_components[n].jit
             /\ m_components'[n].update_func = m_components[n].update_func
             /\ m_components'[n].source_code = m_components[n].source_code
             /\ m_components'[n].state.is_valid = m_components[n].state.is_valid
  BY <1>1 DEF RegistryInv, TypeOK, Component, State
<1>4. UNCHANGED jitVars /\ restored' = restored
  BY DEF InitializeSimulation, StepSimulation, stats, host
<1> QED
  BY <1>2, <1>3, <1>4, ContentsSource

\* An action that leaves the components alone.
LEMMA OthersSource ==
    ASSUME SourceInv, UNCHANGED <<m_components, jitVars, restored>>
    PROVE  SourceInv'
  BY DEF SourceInv, RunsItsSource, Registered, jitVars

LEMMA InitSource == Init => SourceInv
  BY DEF Init, SourceInv, Registered

LEMMA NextSource == RegistryInv /\ SourceInv /\ [Next]_vars => SourceInv'
<1> SUFFICES ASSUME RegistryInv, SourceInv, [Next]_vars PROVE SourceInv'
  OBVIOUS
<1>1. RegistryInv'
  BY NextRegistry
<1>2. ASSUME Initialize \/ Finalize PROVE SourceInv'
  BY <1>2, ClearedSource
<1>3. ASSUME InitializeSimulation PROVE SourceInv'
  <2>1. 0 \in 0 .. MaxTime
    BY BoundsAssumption
  <2> QED
    BY <1>1, <1>3, <2>1, SimulationSource
<1>4. ASSUME NEW n \in Names, NEW s \in Sources,
             Register(n, s) \/ Recompile(n, s) \/ HotReload(n, s)
      PROVE  SourceInv'
  BY <1>4, RegisterSource, RecompileSource, HotReloadSource
<1>5. ASSUME NEW n \in Names, Unregister(n) PROVE SourceInv'
  BY <1>1, <1>5, UnregisterSource
<1>6. ASSUME NEW n \in Names, GetState(n) \/ SetState(n) \/ ResetState(n) PROVE SourceInv'
  BY <1>1, <1>6, StatesSource
<1>7. ASSUME NEW n \in Names, BindBuffer(n) \/ Probe(n) PROVE SourceInv'
  <2>1. UNCHANGED <<m_components, jitVars, restored>>
    BY <1>7 DEF BindBuffer, Probe, host
  <2> QED
    BY <2>1, OthersSource
<1>8. ASSUME NEW e \in Evaluators, (\E n \in Names : EvalBegin(e, n)) \/ EvalEnd(e)
      PROVE  SourceInv'
  <2>1. UNCHANGED <<m_components, jitVars, restored>>
    BY <1>8 DEF EvalBegin, EvalEnd, host
  <2> QED
    BY <2>1, OthersSource
<1>9. ASSUME NEW t \in 0 .. MaxTime, StepSimulation(t) PROVE SourceInv'
  BY <1>1, <1>9, SimulationSource
<1>10. ASSUME UNCHANGED vars PROVE SourceInv'
  <2>1. UNCHANGED <<m_components, jitVars, restored>>
    BY <1>10 DEF vars, host
  <2> QED
    BY <2>1, OthersSource
<1> QED
  BY <1>2, <1>3, <1>4, <1>5, <1>6, <1>7, <1>8, <1>9, <1>10 DEF Next

\* A component that counts as valid runs the code of its own source, from the
\* instance it owns, in whatever order compilations succeed, fail and reload,
\* unless a host has put back an older validity (compileSource and
\* hotReloadComponent of jit_manager.cpp).
THEOREM ValidRuns == Spec => []ValidRunsItsSource
<1>1. Init => RegistryInv /\ SourceInv
  BY InitRegistry, InitSource
<1>2. RegistryInv /\ SourceInv /\ [Next]_vars => (RegistryInv /\ SourceInv)'
  BY NextRegistry, NextSource
<1>3. SourceInv => ValidRunsItsSource
  BY DEF SourceInv, RunsItsSource, ValidRunsItsSource
<1> QED
  BY <1>1, <1>2, <1>3, PTL DEF Spec
----------------------------------------------------------------------------
LiveFunc(c) == c.update_func \in {0, c.jit} \/ fate[c.source_code] = "noModule"

SameCode(c, d) ==
    /\ c.jit = d.jit /\ c.source_code = d.source_code
    /\ c.update_func = d.update_func /\ c.eval_func = d.eval_func

\* A step is harmless to the functions if each component has a live one or is
\* one from before with its code.
LEMMA LiveStep ==
    ASSUME UpdateFuncLive,
           \A n \in Registered' :
             \/ LiveFunc(m_components'[n])
             \/ n \in Registered /\ SameCode(m_components'[n], m_components[n])
    PROVE  UpdateFuncLive'
  BY DEF UpdateFuncLive, LiveFunc, SameCode

\* Whatever compiling comes to, the function is the new instance's or none,
\* or the source yields no module.
LEMMA CompiledLive ==
    ASSUME NEW c \in Component, NEW s \in Sources, NEW j \in Nat, c.source_code = s
    PROVE  LiveFunc(Compiled(c, s, j))
<1> USE DEF Component, Compiled, LiveFunc
<1>1. fate[s] \in {"ok", "noModule", "noFunction", "empty"}
  BY SourcesAssumption
<1>2. CASE fate[s] = "ok"
  BY <1>2
<1>3. CASE fate[s] = "noModule"
  BY <1>3
<1>4. CASE fate[s] = "noFunction"
  BY <1>4
<1>5. CASE fate[s] = "empty"
  BY <1>5
<1> QED
  BY <1>1, <1>2, <1>3, <1>4, <1>5

LEMMA CompileLive ==
    ASSUME RegistryInv, UpdateFuncLive, NEW n \in Names, NEW s \in Sources,
           Recompile(n, s) \/ HotReload(n, s)
    PROVE  UpdateFuncLive'
<1> DEFINE b == [m_components[n] EXCEPT !.source_code = s]
           c == Compiled(b, s, nextJit)
<1>1. n \in Registered /\ m_components[n] \in Component
  BY DEF Recompile, HotReload, RegistryInv, TypeOK
<1>2. b \in Component /\ b.source_code = s /\ nextJit \in Nat
  BY <1>1, WithSourceType, BoundsAssumption DEF Component, RegistryInv, TypeOK
<1>3. LiveFunc(c)
  BY <1>2, CompiledLive
<1>4. PICK r : m_components' = [m_components EXCEPT ![n] = r] /\ LiveFunc(r)
  <2>1. CASE Recompile(n, s)
    <3>1. m_components' = [m_components EXCEPT ![n] = c]
      BY <2>1 DEF Recompile, CompileSource
    <3> QED
      BY <1>3, <3>1
  <2>2. CASE HotReload(n, s)
    <3> DEFINE r == IF fate[s] = "ok" THEN [c EXCEPT !.state = m_components[n].state] ELSE c
    <3>1. m_components' = [m_components EXCEPT ![n] = r]
      BY <2>2 DEF HotReload, CompileSource
    <3>2. LiveFunc(r)
      <4>1. CASE fate[s] = "ok"
        <5>1. r.update_func = nextJit /\ r.jit = nextJit
          BY <1>2, <4>1 DEF Compiled, Component
        <5> QED
          BY <5>1 DEF LiveFunc
      <4>2. CASE fate[s] # "ok"
        BY <1>3, <4>2
      <4> QED
        BY <4>1, <4>2
    <3> QED
      BY <3>1, <3>2
  <2> QED
    BY <2>1, <2>2
<1>5. Registered' = Registered
  BY <1>4 DEF Registered
<1>6. m_components'[n] = r
  BY <1>1, <1>4 DEF Registered
<1>7. \A m \in Registered : m # n => m_components'[m] = m_components[m]
  BY <1>4 DEF RegistryInv, TypeOK
<1> QED
  BY <1>4, <1>5, <1>6, <1>7, LiveStep DEF SameCode

LEMMA RegisterLive ==
    ASSUME UpdateFuncLive, NEW n \in Names, NEW s \in Sources, Register(n, s)
    PROVE  UpdateFuncLive'
<1>1. Registered' = Registered \cup {n}
  BY DEF Register, Registered
<1>2. \A m \in Registered : m # n => m_components'[m] = m_components[m]
  BY DEF Register, Registered
<1>3. LiveFunc(m_components'[n])
  BY DEF Register, LiveFunc
<1> QED
  BY <1>1, <1>2, <1>3, LiveStep DEF SameCode

LEMMA StatesLive ==
    ASSUME RegistryInv, UpdateFuncLive, NEW n \in Names, SetState(n) \/ ResetState(n)
    PROVE  UpdateFuncLive'
<1>1. m_components \in [Registered -> Component]
  BY DEF RegistryInv, TypeOK
<1>2. PICK t : m_components' = [m_components EXCEPT ![n].state = t]
  <2>1. CASE SetState(n)
    BY <2>1 DEF SetState
  <2>2. CASE ResetState(n)
    BY <2>2 DEF ResetState
  <2> QED
    BY <2>1, <2>2
<1>3. Registered' = Registered
  BY <1>2 DEF Registered
<1>4. \A m \in Registered : SameCode(m_components'[m], m_components[m])
  BY <1>1, <1>2 DEF SameCode, Component
<1> QED
  BY <1>3, <1>4, LiveStep

LEMMA SimulationLive ==
    ASSUME RegistryInv, UpdateFuncLive, NEW t \in 0 .. MaxTime,
           InitializeSimulation \/ StepSimulation(t)
    PROVE  UpdateFuncLive'
<1>1. PICK u \in 0 .. MaxTime :
        m_components' = [n \in Registered |-> [m_components[n] EXCEPT !.state.current_time = u]]
  BY BoundsAssumption DEF InitializeSimulation, StepSimulation
<1>2. Registered' = Registered
  BY <1>1 DEF Registered
<1>3. \A n \in Registered : SameCode(m_components'[n], m_components[n])
  BY <1>1 DEF SameCode, RegistryInv, TypeOK, Component, State
<1> QED
  BY <1>2, <1>3, LiveStep

LEMMA OthersLive ==
    ASSUME UpdateFuncLive, UNCHANGED m_components
    PROVE  UpdateFuncLive'
  BY DEF UpdateFuncLive, Registered

LEMMA NextLive == RegistryInv /\ UpdateFuncLive /\ [Next]_vars => UpdateFuncLive'
<1> SUFFICES ASSUME RegistryInv, UpdateFuncLive, [Next]_vars PROVE UpdateFuncLive'
  OBVIOUS
<1>1. ASSUME Initialize \/ Finalize PROVE UpdateFuncLive'
  <2>1. Registered' = {}
    BY <1>1 DEF Initialize, Finalize, Registered
  <2> QED
    BY <2>1 DEF UpdateFuncLive
<1>2. ASSUME NEW t \in 0 .. MaxTime, InitializeSimulation \/ StepSimulation(t)
      PROVE  UpdateFuncLive'
  BY <1>2, SimulationLive
<1>3. 0 \in 0 .. MaxTime
  BY BoundsAssumption
<1>4. ASSUME NEW n \in Names, NEW s \in Sources,
             Register(n, s) \/ Recompile(n, s) \/ HotReload(n, s)
      PROVE  UpdateFuncLive'
  BY <1>4, RegisterLive, CompileLive
<1>5. ASSUME NEW n \in Names, Unregister(n) PROVE UpdateFuncLive'
  <2>1. Registered' = Registered \ {n}
    BY <1>5 DEF Unregister, Registered
  <2>2. \A m \in Registered' : m_components'[m] = m_components[m]
    BY <1>5, <2>1 DEF Unregister, Registered
  <2> QED
    BY <2>1, <2>2, LiveStep DEF SameCode
<1>6. ASSUME NEW n \in Names, SetState(n) \/ ResetState(n) PROVE UpdateFuncLive'
  BY <1>6, StatesLive
<1>7. ASSUME NEW n \in Names, GetState(n) \/ BindBuffer(n) \/ Probe(n)
      PROVE  UpdateFuncLive'
  <2>1. UNCHANGED m_components
    BY <1>7 DEF GetState, BindBuffer, Probe
  <2> QED
    BY <2>1, OthersLive
<1>8. ASSUME NEW e \in Evaluators, (\E n \in Names : EvalBegin(e, n)) \/ EvalEnd(e)
      PROVE  UpdateFuncLive'
  <2>1. UNCHANGED m_components
    BY <1>8 DEF EvalBegin, EvalEnd
  <2> QED
    BY <2>1, OthersLive
<1>9. ASSUME UNCHANGED vars PROVE UpdateFuncLive'
  BY <1>9, OthersLive DEF vars
<1> QED
  BY <1>1, <1>2, <1>3, <1>4, <1>5, <1>6, <1>7, <1>8, <1>9 DEF Next

\* The function a component is evaluated with is of the instance it owns, in
\* whatever order compilations succeed and fail, as long as its source yields
\* a module (compileSource of jit_manager.cpp).
THEOREM FunctionLive == Spec => []UpdateFuncLive
<1>1. Init => RegistryInv /\ UpdateFuncLive
  BY InitRegistry DEF Init, UpdateFuncLive, Registered
<1>2. RegistryInv /\ UpdateFuncLive /\ [Next]_vars => (RegistryInv /\ UpdateFuncLive)'
  BY NextRegistry, NextLive
<1> QED
  BY <1>1, <1>2, PTL DEF Spec
----------------------------------------------------------------------------
\* HotReload on top of the manager.  What any method of the manager does to the
\* instances: components have an instance and functions from before, the new
\* instance, or none.
MadeNow(c) ==
    /\ c.jit = nextJit /\ nextJit < nextJit'
    /\ {c.update_func, c.eval_func} \subseteq {0, nextJit} \/ codeOf'[nextJit] = None
NoneMade(c) == c.jit = 0 /\ c.update_func = 0 /\ c.eval_func = 0

CodeStep ==
    /\ nextJit' \in Nat /\ nextJit <= nextJit'
    /\ \A j \in Jits : j < nextJit => codeOf'[j] = codeOf[j]
    /\ \A n \in Registered' :
         LET c == m_components'[n] IN
         \/ NoneMade(c)
         \/ MadeNow(c)
         \/ /\ n \in Registered
            /\ c.jit = m_components[n].jit
            /\ c.update_func = m_components[n].update_func /\ c.eval_func = m_components[n].eval_func

LEMMA SameCodeStep ==
    ASSUME TypeOK, UNCHANGED jitVars,
           \A n \in Registered' :
             \/ NoneMade(m_components'[n])
             \/ n \in Registered /\ SameCode(m_components'[n], m_components[n])
    PROVE  CodeStep
<1>1. nextJit' = nextJit /\ codeOf' = codeOf /\ nextJit \in Nat
  BY BoundsAssumption DEF jitVars, TypeOK
<1> QED
  BY <1>1 DEF CodeStep, SameCode

LEMMA CompiledCode ==
    ASSUME NEW c \in Component, NEW s \in Sources, NEW j \in Nat
    PROVE  LET d == Compiled(c, s, j) IN
           /\ fate[s] = "empty" => NoneMade(d)
           /\ fate[s] # "empty" => d.jit = j
           /\ fate[s] \notin {"empty", "noModule"} => {d.update_func, d.eval_func} \subseteq {0, j}
<1> USE DEF Component, Compiled, NoneMade
<1>1. fate[s] \in {"ok", "noModule", "noFunction", "empty"}
  BY SourcesAssumption
<1>2. CASE fate[s] = "ok"
  BY <1>2
<1>3. CASE fate[s] = "noModule"
  BY <1>3
<1>4. CASE fate[s] = "noFunction"
  BY <1>4
<1>5. CASE fate[s] = "empty"
  BY <1>5
<1> QED
  BY <1>1, <1>2, <1>3, <1>4, <1>5

LEMMA CompileCodeStep ==
    ASSUME TypeOK, NEW n \in Names, NEW s \in Sources, Recompile(n, s) \/ HotReload(n, s)
    PROVE  CodeStep
<1> DEFINE b == [m_components[n] EXCEPT !.source_code = s]
           c == Compiled(b, s, nextJit)
<1>1. n \in Registered /\ m_components[n] \in Component
  BY DEF Recompile, HotReload, TypeOK
<1>2. b \in Component /\ nextJit \in Nat
  BY <1>1, WithSourceType, BoundsAssumption DEF TypeOK
<1>3. PICK r : /\ CompileSource(n, s, r)
               /\ r.jit = c.jit /\ r.update_func = c.update_func /\ r.eval_func = c.eval_func
  <2>1. CASE Recompile(n, s)
    <3>1. CompileSource(n, s, c)
      BY <2>1 DEF Recompile
    <3> QED
      BY <3>1
  <2>2. CASE HotReload(n, s)
    <3> DEFINE r == IF fate[s] = "ok" THEN [c EXCEPT !.state = m_components[n].state] ELSE c
    <3>1. CompileSource(n, s, r)
      BY <2>2 DEF HotReload
    <3>2. r.jit = c.jit /\ r.update_func = c.update_func /\ r.eval_func = c.eval_func
      <4>1. CASE fate[s] = "ok"
        BY <1>2, <4>1 DEF Compiled, Component
      <4>2. CASE fate[s] # "ok"
        BY <4>2
      <4> QED
        BY <4>1, <4>2
    <3> HIDE DEF r, c
    <3> QED
      BY <3>1, <3>2
  <2> QED
    BY <2>1, <2>2
<1>4. /\ nextJit \in Nat \ {0} /\ nextJit' \in Nat \ {0} /\ nextJit' >= nextJit
      /\ \A j \in Jits : j # nextJit => codeOf'[j] = codeOf[j]
      /\ fate[s] # "empty" =>
           /\ nextJit < nextJit'
           /\ codeOf'[nextJit] = IF fate[s] = "noModule" THEN None ELSE s
  BY <1>3, CompileSourceJits
<1>5. /\ fate[s] = "empty" => NoneMade(r)
      /\ fate[s] # "empty" => r.jit = nextJit
      /\ fate[s] \notin {"empty", "noModule"} => {r.update_func, r.eval_func} \subseteq {0, nextJit}
  <2> HIDE DEF b
  <2> QED
    BY <1>2, <1>3, CompiledCode DEF NoneMade
<1>6. NoneMade(r) \/ MadeNow(r)
  BY <1>4, <1>5 DEF MadeNow
<1>7. m_components' = [m_components EXCEPT ![n] = r] /\ Registered' = Registered
  BY <1>3 DEF CompileSource, Registered
<1>8. /\ m_components'[n] = r
      /\ \A m \in Registered : m # n => m_components'[m] = m_components[m]
  BY <1>1, <1>7 DEF Registered
<1>9. nextJit <= nextJit' /\ nextJit' \in Nat /\ \A j \in Jits : j < nextJit => codeOf'[j] = codeOf[j]
  BY <1>4 DEF Jits
<1> HIDE DEF c
<1> QED
  BY <1>6, <1>7, <1>8, <1>9 DEF CodeStep

LEMMA NextCodeStep == ASSUME RegistryInv, [Next]_vars PROVE CodeStep
<1>0. TypeOK
  BY DEF RegistryInv
<1>1. ASSUME Initialize \/ Finalize PROVE CodeStep
  <2>1. Registered' = {} /\ UNCHANGED jitVars
    BY <1>1 DEF Initialize, Finalize, Registered
  <2> QED
    BY <1>0, <2>1, SameCodeStep
<1>2. ASSUME NEW t \in 0 .. MaxTime, InitializeSimulation \/ StepSimulation(t) PROVE CodeStep
  <2>1. PICK u \in 0 .. MaxTime :
          m_components' = [n \in Registered |-> [m_components[n] EXCEPT !.state.current_time = u]]
    BY <1>2, BoundsAssumption DEF InitializeSimulation, StepSimulation
  <2>2. Registered' = Registered /\ UNCHANGED jitVars
    BY <1>2, <2>1 DEF Registered, InitializeSimulation, StepSimulation
  <2>3. \A n \in Registered : SameCode(m_components'[n], m_components[n])
    BY <2>1 DEF SameCode, RegistryInv, TypeOK, Component, State
  <2> QED
    BY <1>0, <2>2, <2>3, SameCodeStep
<1>3. 0 \in 0 .. MaxTime
  BY BoundsAssumption
<1>4. ASSUME NEW n \in Names, NEW s \in Sources, Register(n, s) PROVE CodeStep
  <2>1. Registered' = Registered \cup {n} /\ UNCHANGED jitVars
    BY <1>4 DEF Register, Registered
  <2>2. \A m \in Registered : m # n => m_components'[m] = m_components[m]
    BY <1>4 DEF Register, Registered
  <2>3. NoneMade(m_components'[n])
    BY <1>4 DEF Register, NoneMade
  <2> QED
    BY <1>0, <2>1, <2>2, <2>3, SameCodeStep DEF SameCode
<1>5. ASSUME NEW n \in Names, NEW s \in Sources, Recompile(n, s) \/ HotReload(n, s)
      PROVE  CodeStep
  BY <1>0, <1>5, CompileCodeStep
<1>6. ASSUME NEW n \in Names, Unregister(n) PROVE CodeStep
  <2>1. Registered' = Registered \ {n} /\ UNCHANGED jitVars
    BY <1>6 DEF Unregister, Registered
  <2>2. \A m \in Registered' : m_components'[m] = m_components[m]
    BY <1>6, <2>1 DEF Unregister, Registered
  <2> QED
    BY <1>0, <2>1, <2>2, SameCodeStep DEF SameCode
<1>7. ASSUME NEW n \in Names, SetState(n) \/ ResetState(n) PROVE CodeStep
  <2>1. PICK t : m_components' = [m_components EXCEPT ![n].state = t]
    <3>1. CASE SetState(n)
      BY <3>1 DEF SetState
    <3>2. CASE ResetState(n)
      BY <3>2 DEF ResetState
    <3> QED
      BY <1>7, <3>1, <3>2
  <2>2. Registered' = Registered /\ UNCHANGED jitVars
    BY <1>7, <2>1 DEF Registered, SetState, ResetState
  <2>3. m_components \in [Registered -> Component]
    BY <1>0 DEF TypeOK
  <2>4. \A m \in Registered : SameCode(m_components'[m], m_components[m])
    BY <2>1, <2>3 DEF SameCode, Component
  <2> QED
    BY <1>0, <2>2, <2>4, SameCodeStep
<1>8. ASSUME UNCHANGED <<m_components, jitVars>> PROVE CodeStep
  BY <1>0, <1>8, SameCodeStep DEF SameCode, Registered
<1>9. ASSUME NEW n \in Names, GetState(n) \/ BindBuffer(n) \/ Probe(n) PROVE CodeStep
  BY <1>8, <1>9 DEF GetState, BindBuffer, Probe
<1>10. ASSUME NEW e \in Evaluators, (\E n \in Names : EvalBegin(e, n)) \/ EvalEnd(e) PROVE CodeStep
  BY <1>8, <1>10 DEF EvalBegin, EvalEnd
<1>11. ASSUME UNCHANGED vars PROVE CodeStep
  BY <1>8, <1>11 DEF vars
<1> QED
  BY <1>1, <1>2, <1>3, <1>4, <1>5, <1>6, <1>7, <1>9, <1>10, <1>11 DEF Next
----------------------------------------------------------------------------
\* What the transactions rely on: the instance a transaction holds was made
\* before the next one and belongs to nobody else.  `hot' is the method under way.
Free(j) == \A c \in Registered : m_components[c].jit # j

TransactionOK(n) ==
    LET t == m_transactions[n] IN
    /\ t.name = n /\ t.new_jit < nextJit
    /\ t.new_jit # 0 =>
         /\ Free(t.new_jit)
         /\ \A m \in Names \ {n} : m_transactions[m] # None => m_transactions[m].new_jit # t.new_jit
    /\ t.state = "READY" => t.new_jit # 0 /\ codeOf[t.new_jit] = t.new_source

TransactionsInv == \A n \in Names : m_transactions[n] # None => TransactionOK(n)
FreshInv == \A n \in Registered : m_components[n].jit < nextJit
UnderWayInv ==
    /\ hot.step # "idle" =>
         hot.txn \in Transaction /\ hot.txn.new_jit # 0 /\ hot.txn.new_jit < nextJit
    /\ hot.step = "prepared" =>
         /\ codeOf[hot.txn.new_jit] = hot.txn.new_source /\ Free(hot.txn.new_jit)
         /\ \A m \in Names : m_transactions[m] # None => m_transactions[m].new_jit # hot.txn.new_jit
    /\ hot.step \in {"found", "moved"} =>
         /\ hot.txn.name \in Registered
         /\ m_transactions[hot.txn.name] # None
         /\ m_transactions[hot.txn.name].new_jit = IF hot.step = "found" THEN hot.txn.new_jit ELSE 0
         /\ m_transactions[hot.txn.name].state = "SWAPPING"

HotTypes ==
    /\ m_transactions \in [Names -> Transaction \cup {None}]
    /\ hot \in [step : {"idle", "prepared", "found", "moved", "lost"}, txn : Transaction \cup {None}]

HotInv == RegistryInv /\ HotTypes /\ FreshInv /\ TransactionsInv /\ UnderWayInv

\* What most steps do to the instances: no component takes one from before.
FreeStep ==
    /\ nextJit' \in Nat /\ nextJit <= nextJit'
    /\ \A j \in Jits : j < nextJit => codeOf'[j] = codeOf[j]
    /\ \A n \in Registered' :
         \/ m_components'[n].jit = 0
         \/ m_components'[n].jit = nextJit /\ nextJit < nextJit'
         \/ n \in Registered /\ m_components'[n].jit = m_components[n].jit

LEMMA CodeFreeStep == CodeStep => FreeStep
  BY DEF CodeStep, FreeStep, MadeNow, NoneMade

LEMMA SameFreeStep ==
    ASSUME TypeOK, UNCHANGED jitVars,
           \A n \in Registered' : n \in Registered /\ m_components'[n].jit = m_components[n].jit
    PROVE  FreeStep
<1>1. nextJit' = nextJit /\ codeOf' = codeOf /\ nextJit \in Nat
  BY BoundsAssumption DEF jitVars, TypeOK
<1> QED
  BY <1>1 DEF FreeStep

LEMMA KeptFree ==
    ASSUME FreeStep, NEW j \in Nat, j # 0, j < nextJit, Free(j)
    PROVE  Free(j)'
  BY DEF FreeStep, Free

LEMMA KeptFresh ==
    ASSUME TypeOK, FreshInv, FreeStep
    PROVE  FreshInv'
<1>1. nextJit \in Nat \ {0} /\ nextJit' \in Nat /\ nextJit <= nextJit'
  BY BoundsAssumption DEF TypeOK, FreeStep
<1>2. \A n \in Registered : m_components[n].jit \in Nat /\ m_components[n].jit < nextJit
  BY DEF TypeOK, Component, Jits, FreshInv
<1> QED
  BY <1>1, <1>2 DEF FreeStep, FreshInv

\* Transactions that disappear or only change their state.
LEMMA KeptTransactions ==
    ASSUME TypeOK, HotTypes, TransactionsInv, FreeStep,
           \A n \in Names : m_transactions'[n] # None =>
               LET t == m_transactions[n]
                   u == m_transactions'[n]
               IN  /\ t # None
                   /\ u.name = t.name /\ u.new_jit = t.new_jit /\ u.new_source = t.new_source
                   /\ u.state = t.state \/ u.state # "READY"
    PROVE  TransactionsInv'
<1> SUFFICES ASSUME NEW n \in Names, m_transactions'[n] # None PROVE TransactionOK(n)'
  BY DEF TransactionsInv
<1>1. PICK t \in Transaction : t = m_transactions[n]
  BY DEF HotTypes
<1>2. PICK u : u = m_transactions'[n]
  OBVIOUS
<1>3. u.name = t.name /\ u.new_jit = t.new_jit /\ u.new_source = t.new_source
        /\ (u.state = t.state \/ u.state # "READY")
  BY <1>1, <1>2
<1>4. TransactionOK(n)
  BY DEF TransactionsInv
<1>5. t.new_jit \in Jits \cup {0} /\ t.new_jit \in Nat /\ t.name = n /\ t.new_jit < nextJit
  BY <1>1, <1>4 DEF Transaction, Jits, TransactionOK
<1>6. nextJit \in Nat /\ nextJit' \in Nat /\ nextJit <= nextJit'
  BY BoundsAssumption DEF TypeOK, FreeStep
<1>7. t.new_jit # 0 => Free(t.new_jit)'
  BY <1>1, <1>4, <1>5, KeptFree DEF TransactionOK
<1>8. ASSUME t.new_jit # 0, NEW m \in Names \ {n}, m_transactions'[m] # None
      PROVE  m_transactions'[m].new_jit # t.new_jit
  BY <1>1, <1>4, <1>8 DEF TransactionOK
<1>9. u.state = "READY" => t.new_jit # 0 /\ codeOf'[t.new_jit] = t.new_source
  BY <1>1, <1>3, <1>4, <1>5 DEF TransactionOK, FreeStep
<1>10. u.new_jit < nextJit'
  BY <1>3, <1>5, <1>6
<1> QED
  BY <1>2, <1>3, <1>5, <1>7, <1>8, <1>9, <1>10 DEF TransactionOK

\* A step of the manager while a method of HotReloadManager may be under way.
LEMMA ManagerHotInv == ASSUME HotInv, ManagerStep PROVE HotInv'
<1>1. RegistryInv' /\ FreeStep /\ TypeOK
  BY NextRegistry, NextCodeStep, CodeFreeStep DEF HotInv, RegistryInv, ManagerStep
<1>2. /\ m_transactions' = m_transactions
      /\ \/ hot' = hot /\ (hot.step \in {"found", "moved"} => hot.txn.name \in Registered')
         \/ hot.step # "idle" /\ hot' = [hot EXCEPT !.step = "lost"]
  BY DEF ManagerStep
<1>3. HotTypes'
  BY <1>2 DEF HotInv, HotTypes
<1>4. FreshInv' /\ TransactionsInv'
  BY <1>1, <1>2, KeptFresh, KeptTransactions DEF HotInv
<1>5. UnderWayInv'
  <2>1. PICK t : t = hot.txn
    OBVIOUS
  <2>2. CASE hot.step = "idle"
    BY <1>2, <2>2 DEF UnderWayInv
  <2>3. CASE hot.step # "idle"
    <3>1. t \in Transaction /\ t.new_jit # 0 /\ t.new_jit < nextJit
      BY <2>1, <2>3 DEF HotInv, UnderWayInv
    <3>2. t.new_jit \in Jits /\ t.new_jit \in Nat
      BY <3>1 DEF Transaction, Jits
    <3>3. t.new_jit < nextJit'
      BY <1>1, <3>1, <3>2, BoundsAssumption DEF TypeOK, FreeStep
    <3>4. codeOf'[t.new_jit] = codeOf[t.new_jit]
      BY <1>1, <3>1, <3>2 DEF FreeStep
    <3>5. Free(t.new_jit) => Free(t.new_jit)'
      BY <1>1, <3>1, <3>2, KeptFree
    <3>6. hot.step = "prepared" => codeOf[t.new_jit] = t.new_source /\ Free(t.new_jit)
      BY <2>1 DEF HotInv, UnderWayInv
    <3>7. CASE hot' = hot
      <4>1. hot.step \in {"found", "moved"} => hot.txn.name \in Registered'
        BY <1>2, <3>7 DEF HotInv, HotTypes
      <4> QED
        BY <1>2, <2>1, <3>1, <3>3, <3>4, <3>5, <3>6, <3>7, <4>1 DEF HotInv, UnderWayInv
    <3>8. CASE hot' = [hot EXCEPT !.step = "lost"]
      <4>1. hot'.step = "lost" /\ hot'.txn = t
        BY <2>1, <3>8 DEF HotInv, HotTypes
      <4> QED
        BY <3>1, <3>3, <4>1 DEF UnderWayInv
    <3> QED
      BY <1>2, <3>7, <3>8
  <2> QED
    BY <2>2, <2>3
<1> QED
  BY <1>1, <1>3, <1>4, <1>5 DEF HotInv

LEMMA InitHotInv == HotInit => HotInv
<1> SUFFICES ASSUME HotInit PROVE HotInv
  OBVIOUS
<1>1. Init /\ RegistryInv /\ Registered = {}
  BY InitRegistry DEF HotInit, Init, Registered
<1>2. (\A n \in Names : m_transactions[n] = None) /\ hot = Idle /\ HotTypes
  BY DEF HotInit, HotTypes, Idle
<1>3. FreshInv /\ TransactionsInv /\ UnderWayInv
  BY <1>1, <1>2 DEF FreshInv, TransactionsInv, UnderWayInv, Idle
<1> QED
  BY <1>1, <1>2, <1>3 DEF HotInv
----------------------------------------------------------------------------
\* The steps of HotReloadManager.
LEMMA PrepareReadHotInv ==
    ASSUME HotInv, NEW n \in Names, NEW s \in Sources, PrepareRead(n, s)
    PROVE  HotInv'
<1>1. /\ RegistryInv /\ TypeOK /\ HotTypes /\ FreshInv /\ TransactionsInv
      /\ n \in Registered /\ m_components[n] \in Component
      /\ m_transactions' = m_transactions /\ m_components' = m_components
      /\ nextJit' = nextJit + 1 /\ nextJit <= MaxJits
      /\ codeOf' = [codeOf EXCEPT ![nextJit] = s]
  BY DEF HotInv, RegistryInv, TypeOK, PrepareRead
<1>2. nextJit \in Jits /\ nextJit \in Nat \ {0} /\ codeOf \in [Jits -> Sources \cup {None}]
  BY <1>1, BoundsAssumption DEF TypeOK, Jits
<1>3. /\ codeOf'[nextJit] = s /\ codeOf' \in [Jits -> Sources \cup {None}]
      /\ \A j \in Jits : j # nextJit => codeOf'[j] = codeOf[j]
  BY <1>1, <1>2
<1>4. RegistryInv'
  <2>1. nextJit' \in 1 .. MaxJits + 1
    BY <1>1, <1>2, BoundsAssumption
  <2>2. TypeOK'
    BY <1>1, <1>3, <2>1 DEF TypeOK, PrepareRead, flags, tables, stats, host, Registered
  <2>3. CountInv' /\ BuffersRegistered'
    BY <1>1 DEF RegistryInv, CountInv, BuffersRegistered, PrepareRead, flags, tables, stats, Registered
  <2> QED
    BY <2>2, <2>3 DEF RegistryInv
<1>5. FreeStep
  <2>1. nextJit' \in Nat /\ nextJit <= nextJit' /\ Registered' = Registered
    BY <1>1, <1>2 DEF Registered
  <2>2. \A j \in Jits : j < nextJit => codeOf'[j] = codeOf[j]
    BY <1>2, <1>3 DEF Jits
  <2> QED
    BY <1>1, <2>1, <2>2 DEF FreeStep
<1>6. FreshInv' /\ TransactionsInv'
  BY <1>1, <1>5, KeptFresh, KeptTransactions
<1>7. PICK t \in Transaction :
         /\ hot' = [step |-> "prepared", txn |-> t]
         /\ t.new_jit = nextJit /\ t.new_source = s
  <2> DEFINE t == [name |-> n, old_source |-> m_components[n].source_code, new_source |-> s,
                   new_jit |-> nextJit, saved_state |-> m_components[n].state, state |-> "READY"]
  <2>1. t \in Transaction
    BY <1>1, <1>2 DEF Transaction, Component
  <2>2. hot' = [step |-> "prepared", txn |-> t]
    BY DEF PrepareRead
  <2>3. t.new_jit = nextJit /\ t.new_source = s
    OBVIOUS
  <2> HIDE DEF t
  <2> QED
    BY <2>1, <2>2, <2>3
<1>8. HotTypes'
  BY <1>1, <1>7 DEF HotTypes
<1>9. Free(t.new_jit)'
  <2>1. \A c \in Registered : m_components[c].jit \in Nat /\ m_components[c].jit < nextJit
    BY <1>1 DEF FreshInv, TypeOK, Component, Jits
  <2>2. \A c \in Registered : m_components[c].jit # t.new_jit
    BY <1>2, <1>7, <2>1
  <2> QED
    BY <1>1, <2>2 DEF Free, Registered
<1>10. ASSUME NEW m \in Names, m_transactions[m] # None
       PROVE  m_transactions[m].new_jit # t.new_jit
  <2>1. m_transactions[m] \in Transaction /\ m_transactions[m].new_jit < nextJit
    BY <1>1, <1>10 DEF HotTypes, TransactionsInv, TransactionOK
  <2>2. m_transactions[m].new_jit \in Nat
    BY <2>1 DEF Transaction, Jits
  <2> QED
    BY <1>2, <1>7, <2>1, <2>2
<1>11. UnderWayInv'
  <2>1. hot'.step = "prepared" /\ hot'.txn = t
    BY <1>7
  <2>2. t.new_jit # 0 /\ t.new_jit < nextJit' /\ codeOf'[t.new_jit] = t.new_source
    BY <1>1, <1>2, <1>3, <1>7
  <2> QED
    BY <1>1, <1>7, <1>9, <1>10, <2>1, <2>2 DEF UnderWayInv
<1> QED
  BY <1>4, <1>6, <1>8, <1>11 DEF HotInv

\* Steps of HotReloadManager that leave the manager and its components alone.
LEMMA OnlyTransactionsHotInv ==
    ASSUME HotInv, UNCHANGED vars
    PROVE  RegistryInv' /\ FreeStep /\ FreshInv'
<1>1. TypeOK /\ RegistryInv /\ RegistryInv'
  BY StutterRegistry DEF HotInv, RegistryInv
<1>2. FreeStep
  BY <1>1, SameFreeStep DEF vars, Registered
<1> QED
  BY <1>1, <1>2, KeptFresh DEF HotInv

LEMMA PrepareStoreHotInv == ASSUME HotInv, PrepareStore PROVE HotInv'
<1>1. /\ RegistryInv' /\ FreeStep /\ FreshInv' /\ HotTypes /\ TransactionsInv /\ TypeOK
      /\ hot.step = "prepared" /\ hot' = Idle
      /\ codeOf' = codeOf /\ nextJit' = nextJit /\ m_components' = m_components
  BY OnlyTransactionsHotInv DEF HotInv, RegistryInv, PrepareStore, vars, jitVars
<1>2. PICK t \in Transaction : t = hot.txn
  BY <1>1 DEF HotInv, UnderWayInv
<1>3. /\ t.new_jit # 0 /\ t.new_jit < nextJit /\ codeOf[t.new_jit] = t.new_source /\ Free(t.new_jit)
      /\ \A m \in Names : m_transactions[m] # None => m_transactions[m].new_jit # t.new_jit
  BY <1>1, <1>2 DEF HotInv, UnderWayInv
<1>4. t.name \in Names /\ m_transactions' = [m_transactions EXCEPT ![t.name] = t]
  BY <1>2 DEF PrepareStore, Transaction
<1>5. HotTypes'
  BY <1>1, <1>4 DEF HotTypes, Idle
<1>6. /\ m_transactions'[t.name] = t
      /\ \A m \in Names : m # t.name => m_transactions'[m] = m_transactions[m]
  BY <1>1, <1>4 DEF HotTypes
<1>7. \A j : Free(j) <=> Free(j)'
  BY <1>1 DEF Free, Registered
<1>8. ASSUME NEW n \in Names, m_transactions'[n] # None PROVE TransactionOK(n)'
  <2>1. CASE n = t.name
    BY <1>1, <1>3, <1>6, <1>7, <2>1 DEF TransactionOK
  <2>2. CASE n # t.name
    <3>1. m_transactions'[n] = m_transactions[n] /\ TransactionOK(n)
      BY <1>1, <1>6, <1>8, <2>2 DEF TransactionsInv
    <3>2. t.new_jit # m_transactions[n].new_jit
      BY <1>3, <1>8, <3>1
    <3> QED
      BY <1>1, <1>6, <1>7, <3>1, <3>2 DEF TransactionOK
  <2> QED
    BY <2>1, <2>2
<1>9. TransactionsInv' /\ UnderWayInv'
  BY <1>1, <1>8 DEF TransactionsInv, UnderWayInv, Idle
<1> QED
  BY <1>1, <1>5, <1>9 DEF HotInv

LEMMA ExecuteFindHotInv == ASSUME HotInv, NEW n \in Names, ExecuteFind(n) PROVE HotInv'
<1>1. /\ RegistryInv' /\ FreeStep /\ FreshInv' /\ HotTypes /\ TransactionsInv /\ TypeOK
      /\ hot = Idle /\ nextJit' = nextJit
  BY OnlyTransactionsHotInv DEF HotInv, RegistryInv, ExecuteFind, MayReload, vars, jitVars
<1>2. PICK t \in Transaction : t = m_transactions[n] /\ t # None /\ t.state = "READY"
  BY <1>1 DEF ExecuteFind, InState, HotTypes
<1>3. t.name = n /\ t.new_jit # 0 /\ t.new_jit < nextJit
  BY <1>1, <1>2 DEF TransactionsInv, TransactionOK
<1>4. \/ /\ m_transactions' = [m_transactions EXCEPT ![n].state = "SWAPPING"]
         /\ hot' = [step |-> "found", txn |-> t]
      \/ /\ m_transactions' = [m_transactions EXCEPT ![n].state = "FAILED"]
         /\ hot' = hot
  BY <1>2 DEF ExecuteFind
<1>5. PICK st \in {"SWAPPING", "FAILED"} :
         /\ m_transactions' = [m_transactions EXCEPT ![n] = [t EXCEPT !.state = st]]
         /\ \/ st = "SWAPPING" /\ hot' = [step |-> "found", txn |-> t]
            \/ hot' = Idle
  BY <1>1, <1>2, <1>4
<1> DEFINE u == [t EXCEPT !.state = st]
<1>6. /\ u \in Transaction /\ u.name = t.name /\ u.new_jit = t.new_jit /\ u.new_source = t.new_source
      /\ u.state = st /\ u.state # "READY" /\ u # None
  BY <1>5, TransactionAssumption DEF Transaction
<1> HIDE DEF u
<1>7. /\ m_transactions'[n] = u
      /\ \A m \in Names : m # n => m_transactions'[m] = m_transactions[m]
  BY <1>1, <1>5 DEF HotTypes, u
<1>8. HotTypes'
  BY <1>1, <1>5, <1>6 DEF HotTypes, u, Idle
<1>9. TransactionsInv'
  <2>1. ASSUME NEW m \in Names, m_transactions'[m] # None
        PROVE  LET a == m_transactions[m]
                   b == m_transactions'[m]
               IN  /\ a # None
                   /\ b.name = a.name /\ b.new_jit = a.new_jit /\ b.new_source = a.new_source
                   /\ b.state = a.state \/ b.state # "READY"
    BY <1>2, <1>6, <1>7, <2>1
  <2> QED
    BY <1>1, <2>1, KeptTransactions
<1>10. UnderWayInv'
  <2>1. CASE hot' = Idle
    BY <2>1 DEF UnderWayInv, Idle
  <2>2. CASE st = "SWAPPING" /\ hot' = [step |-> "found", txn |-> t]
    <3>1. n \in Registered'
      BY <1>1, <1>2, <2>2 DEF ExecuteFind, Idle, vars, Registered
    <3> QED
      BY <1>1, <1>2, <1>3, <1>6, <1>7, <2>2, <3>1 DEF UnderWayInv
  <2> QED
    BY <1>5, <2>1, <2>2
<1> QED
  BY <1>1, <1>8, <1>9, <1>10 DEF HotInv

LEMMA ExecuteMoveJitHotInv == ASSUME HotInv, ExecuteMoveJit PROVE HotInv'
<1>1. /\ RegistryInv /\ TypeOK /\ HotTypes /\ FreshInv /\ TransactionsInv
      /\ hot.step = "found" /\ nextJit' = nextJit /\ codeOf' = codeOf
      /\ m_components \in [Registered -> Component]
  BY DEF HotInv, RegistryInv, TypeOK, ExecuteMoveJit, jitVars
<1>2. PICK t \in Transaction : t = hot.txn
  BY <1>1 DEF HotInv, UnderWayInv
<1>3. /\ t.name \in Registered /\ t.name \in Names /\ t.new_jit \in Jits /\ t.new_jit < nextJit
      /\ m_transactions[t.name] # None /\ m_transactions[t.name] \in Transaction
      /\ m_transactions[t.name].new_jit = t.new_jit
      /\ m_transactions[t.name].state = "SWAPPING"
  BY <1>1, <1>2 DEF HotInv, UnderWayInv, ExecuteMoveJit, Transaction, HotTypes
<1>4. /\ m_components' = [m_components EXCEPT ![t.name].jit = t.new_jit]
      /\ m_transactions' = [m_transactions EXCEPT ![t.name].new_jit = 0]
      /\ hot' = [hot EXCEPT !.step = "moved"]
      /\ UNCHANGED <<flags, tables, stats, jitVars, host, running>>
  BY <1>2 DEF ExecuteMoveJit
<1> DEFINE c == [m_components[t.name] EXCEPT !.jit = t.new_jit]
           u == [m_transactions[t.name] EXCEPT !.new_jit = 0]
<1>5. c \in Component /\ c.jit = t.new_jit
  BY <1>1, <1>3 DEF Component
<1>6. /\ u \in Transaction /\ u # None /\ u.new_jit = 0 /\ u.state = "SWAPPING"
      /\ u.name = m_transactions[t.name].name
  BY <1>3, TransactionAssumption DEF Transaction
<1> HIDE DEF c, u
<1>7. /\ Registered' = Registered /\ m_components' \in [Registered -> Component]
      /\ m_components'[t.name] = c
      /\ \A n \in Registered : n # t.name => m_components'[n] = m_components[n]
  <2>1. m_components' = [m_components EXCEPT ![t.name] = c]
    BY <1>4 DEF c
  <2> QED
    BY <1>1, <1>3, <1>5, <2>1 DEF Registered
<1>8. /\ m_transactions' = [m_transactions EXCEPT ![t.name] = u]
      /\ m_transactions'[t.name] = u
      /\ \A m \in Names : m # t.name => m_transactions'[m] = m_transactions[m]
  <2>1. m_transactions' = [m_transactions EXCEPT ![t.name] = u]
    BY <1>4 DEF u
  <2> QED
    BY <1>1, <1>3, <2>1 DEF HotTypes
<1>9. RegistryInv'
  BY <1>1, <1>4, <1>7, ContentsRegistry DEF flags, host, TypeOK, Registered
<1>10. HotTypes'
  BY <1>1, <1>4, <1>6, <1>8 DEF HotTypes
<1>11. FreshInv'
  BY <1>1, <1>3, <1>5, <1>7 DEF FreshInv
<1>12. TransactionsInv'
  <2> SUFFICES ASSUME NEW n \in Names, m_transactions'[n] # None PROVE TransactionOK(n)'
    BY DEF TransactionsInv
  <2>1. CASE n = t.name
    <3>1. m_transactions[n].name = n
      BY <1>1, <1>3, <2>1 DEF TransactionsInv, TransactionOK
    <3>2. 0 < nextJit
      BY <1>1, BoundsAssumption DEF TypeOK
    <3> QED
      BY <1>1, <1>6, <1>8, <2>1, <3>1, <3>2 DEF TransactionOK
  <2>2. CASE n # t.name
    <3>1. m_transactions'[n] = m_transactions[n] /\ TransactionOK(n) /\ TransactionOK(t.name)
      BY <1>1, <1>3, <1>8, <2>2 DEF TransactionsInv
    <3>2. PICK a : a = m_transactions[n] /\ a # None
      BY <3>1
    <3>3. t.new_jit # 0
      BY <1>1, <1>2 DEF HotInv, UnderWayInv
    <3>4. a.new_jit # t.new_jit
      BY <1>3, <2>2, <3>1, <3>2, <3>3 DEF TransactionOK
    <3>5. a.new_jit # 0 => Free(a.new_jit)'
      BY <1>5, <1>7, <3>1, <3>2, <3>4 DEF TransactionOK, Free
    <3>6. a.new_jit # 0 => \A m \in Names \ {n} : m_transactions'[m] # None => m_transactions'[m].new_jit # a.new_jit
      BY <1>6, <1>8, <3>1, <3>2, <1>3 DEF TransactionOK
    <3> QED
      BY <1>1, <3>1, <3>2, <3>5, <3>6 DEF TransactionOK
  <2> QED
    BY <2>1, <2>2
<1>13. UnderWayInv'
  <2>1. hot'.step = "moved" /\ hot'.txn = t
    BY <1>1, <1>2, <1>4 DEF HotTypes
  <2>2. t.new_jit # 0
    BY <1>1, <1>2 DEF HotInv, UnderWayInv
  <2> QED
    BY <1>1, <1>3, <1>6, <1>7, <1>8, <2>1, <2>2 DEF UnderWayInv
<1> QED
  BY <1>9, <1>10, <1>11, <1>12, <1>13 DEF HotInv

\* Steps that end a method and keep every component's instance.
LEMMA EndsHotInv ==
    ASSUME HotInv, RegistryInv', hot' = Idle, FreeStep,
           m_transactions' \in [Names -> Transaction \cup {None}],
           \A n \in Names : m_transactions'[n] # None =>
               LET t == m_transactions[n]
                   u == m_transactions'[n]
               IN  /\ t # None
                   /\ u.name = t.name /\ u.new_jit = t.new_jit /\ u.new_source = t.new_source
                   /\ u.state = t.state \/ u.state # "READY"
    PROVE  HotInv'
<1>1. TypeOK /\ HotTypes /\ FreshInv /\ TransactionsInv
  BY DEF HotInv, RegistryInv
<1>2. FreshInv' /\ TransactionsInv'
  BY <1>1, KeptFresh, KeptTransactions
<1>3. HotTypes' /\ UnderWayInv'
  BY DEF HotTypes, UnderWayInv, Idle
<1> QED
  BY <1>2, <1>3 DEF HotInv

\* A component with other fields, but the instance it had.
LEMMA FieldsHotInv ==
    ASSUME HotInv, Registered' = Registered,
           UNCHANGED <<flags, tables, stats, jitVars, host, running>>,
           m_components' \in [Registered -> Component],
           \A n \in Registered : m_components'[n].jit = m_components[n].jit
    PROVE  RegistryInv' /\ FreeStep
<1>1. RegistryInv /\ TypeOK
  BY DEF HotInv, RegistryInv
<1>2. RegistryInv'
  BY <1>1, ContentsRegistry DEF flags, host, TypeOK, Registered
<1>3. FreeStep
  BY <1>1, SameFreeStep
<1> QED
  BY <1>2, <1>3

LEMMA ExecuteSetFieldsHotInv == ASSUME HotInv, ExecuteSetFields PROVE HotInv'
<1>1. /\ TypeOK /\ HotTypes /\ hot.step = "moved" /\ hot' = Idle
      /\ UNCHANGED <<flags, tables, stats, jitVars, host, running>>
      /\ m_components \in [Registered -> Component]
  BY DEF HotInv, RegistryInv, TypeOK, ExecuteSetFields
<1>2. PICK t \in Transaction : t = hot.txn
  BY <1>1 DEF HotInv, UnderWayInv
<1>3. /\ t.name \in Registered /\ t.name \in Names /\ t.new_jit \in Jits \cup {0}
      /\ t.new_source \in Sources /\ t.saved_state \in State
      /\ m_transactions[t.name] # None /\ m_transactions[t.name] \in Transaction
  BY <1>1, <1>2 DEF HotInv, UnderWayInv, ExecuteSetFields, Transaction, HotTypes
<1> DEFINE c == [[[m_components[t.name] EXCEPT !.update_func = t.new_jit]
                    EXCEPT !.source_code = t.new_source] EXCEPT !.state = t.saved_state]
           u == [m_transactions[t.name] EXCEPT !.state = "SWAPPED"]
<1>4. m_components' = [m_components EXCEPT ![t.name] = c]
  BY <1>2 DEF ExecuteSetFields
<1>5. m_transactions' = [m_transactions EXCEPT ![t.name] = u]
  BY <1>2 DEF ExecuteSetFields
<1>6. c \in Component /\ c.jit = m_components[t.name].jit
  BY <1>1, <1>3 DEF Component
<1>7. /\ u \in Transaction /\ u.state = "SWAPPED"
      /\ u.name = m_transactions[t.name].name /\ u.new_jit = m_transactions[t.name].new_jit
      /\ u.new_source = m_transactions[t.name].new_source
  BY <1>3 DEF Transaction
<1> HIDE DEF c, u
<1>8. /\ Registered' = Registered /\ m_components' \in [Registered -> Component]
      /\ \A n \in Registered : m_components'[n].jit = m_components[n].jit
  BY <1>1, <1>3, <1>4, <1>6 DEF Registered
<1>9. /\ m_transactions' \in [Names -> Transaction \cup {None}]
      /\ m_transactions'[t.name] = u
      /\ \A m \in Names : m # t.name => m_transactions'[m] = m_transactions[m]
  BY <1>1, <1>3, <1>5, <1>7 DEF HotTypes
<1>10. RegistryInv' /\ FreeStep
  BY <1>1, <1>8, FieldsHotInv
<1>11. ASSUME NEW n \in Names, m_transactions'[n] # None
       PROVE  LET a == m_transactions[n]
                  b == m_transactions'[n]
              IN  /\ a # None
                  /\ b.name = a.name /\ b.new_jit = a.new_jit /\ b.new_source = a.new_source
                  /\ b.state = a.state \/ b.state # "READY"
  BY <1>3, <1>7, <1>9, <1>11
<1> QED
  BY <1>1, <1>9, <1>10, <1>11, EndsHotInv

LEMMA RollbackHotInv == ASSUME HotInv, RollbackReload PROVE HotInv'
<1>1. /\ TypeOK /\ HotTypes /\ hot' = Idle
      /\ UNCHANGED <<flags, tables, stats, jitVars, host, running>>
      /\ m_components \in [Registered -> Component] /\ Registered \subseteq Names
  BY DEF HotInv, RegistryInv, TypeOK, RollbackReload, MayReload
<1>2. ASSUME NEW n \in Names, InState(n, "SWAPPED")
      PROVE  /\ m_transactions[n] \in Transaction /\ m_transactions[n] # None
             /\ m_transactions[n].old_source \in Sources /\ m_transactions[n].saved_state \in State
  BY <1>1, <1>2 DEF InState, HotTypes, Transaction
<1>3. ASSUME NEW n \in Registered
      PROVE  m_components'[n] \in Component /\ m_components'[n].jit = m_components[n].jit
  <2>1. CASE InState(n, "SWAPPED")
    <3>1. m_components'[n] = [m_components[n] EXCEPT !.source_code = m_transactions[n].old_source,
                                                     !.state = m_transactions[n].saved_state]
      BY <2>1 DEF RollbackReload
    <3> QED
      BY <1>1, <1>2, <2>1, <3>1 DEF Component
  <2>2. CASE ~InState(n, "SWAPPED")
    BY <1>1, <2>2 DEF RollbackReload
  <2> QED
    BY <2>1, <2>2
<1>4. Registered' = Registered /\ m_components' \in [Registered -> Component]
  <2>1. Registered' = Registered
    BY DEF RollbackReload, Registered
  <2>2. m_components' = [n \in Registered |-> m_components'[n]]
    BY DEF RollbackReload
  <2> QED
    BY <1>3, <2>1, <2>2
<1>5. RegistryInv' /\ FreeStep
  BY <1>1, <1>3, <1>4, FieldsHotInv
<1>6. ASSUME NEW n \in Names
      PROVE  /\ m_transactions'[n] \in Transaction \cup {None}
             /\ m_transactions'[n] # None =>
                  LET a == m_transactions[n]
                      b == m_transactions'[n]
                  IN  /\ a # None
                      /\ b.name = a.name /\ b.new_jit = a.new_jit /\ b.new_source = a.new_source
                      /\ b.state = a.state \/ b.state # "READY"
  <2>1. CASE InState(n, "SWAPPED")
    <3>1. m_transactions'[n] = [m_transactions[n] EXCEPT !.state = "IDLE"]
      BY <2>1 DEF RollbackReload
    <3> QED
      BY <1>2, <2>1, <3>1 DEF Transaction
  <2>2. CASE ~InState(n, "SWAPPED")
    BY <1>1, <2>2 DEF RollbackReload, HotTypes
  <2> QED
    BY <2>1, <2>2
<1>7. m_transactions' \in [Names -> Transaction \cup {None}]
  <2>1. m_transactions' = [n \in Names |-> m_transactions'[n]]
    BY DEF RollbackReload
  <2> QED
    BY <1>6, <2>1
<1> QED
  BY <1>1, <1>5, <1>6, <1>7, EndsHotInv

LEMMA ForgetHotInv ==
    ASSUME HotInv, AbortReload \/ CommitReload \/ FinalizeReloads
    PROVE  HotInv'
<1>1. HotTypes /\ hot' = Idle /\ UNCHANGED vars
  BY DEF HotInv, AbortReload, CommitReload, FinalizeReloads, MayReload
<1>2. RegistryInv' /\ FreeStep
  BY <1>1, OnlyTransactionsHotInv
<1>3. /\ m_transactions' = [n \in Names |-> m_transactions'[n]]
      /\ \A n \in Names : m_transactions'[n] \in {m_transactions[n], None}
  <2>1. CASE AbortReload
    BY <2>1 DEF AbortReload
  <2>2. CASE CommitReload
    BY <2>2 DEF CommitReload
  <2>3. CASE FinalizeReloads
    BY <2>3 DEF FinalizeReloads
  <2> QED
    BY <2>1, <2>2, <2>3
<1>4. m_transactions' \in [Names -> Transaction \cup {None}]
  BY <1>1, <1>3 DEF HotTypes
<1> QED
  BY <1>1, <1>2, <1>3, <1>4, EndsHotInv

LEMMA SameHotInv == ASSUME HotInv, UNCHANGED <<vars, hotVars>> PROVE HotInv'
<1>1. RegistryInv'
  BY StutterRegistry DEF HotInv
<1> QED
  BY <1>1 DEF HotInv, HotTypes, FreshInv, TransactionsInv, TransactionOK, UnderWayInv, Free,
              Registered, vars, hotVars, jitVars

LEMMA NextHotInv == HotInv /\ [HotNext]_allVars => HotInv'
<1> SUFFICES ASSUME HotInv, [HotNext]_allVars PROVE HotInv'
  OBVIOUS
<1>1. CASE ManagerStep
  BY <1>1, ManagerHotInv
<1>2. CASE ReloadStep
  BY <1>2, PrepareReadHotInv, PrepareStoreHotInv, ExecuteFindHotInv, ExecuteMoveJitHotInv,
     ExecuteSetFieldsHotInv, RollbackHotInv, ForgetHotInv DEF ReloadStep
<1>3. CASE UNCHANGED allVars
  BY <1>3, SameHotInv DEF allVars
<1> QED
  BY <1>1, <1>2, <1>3 DEF HotNext

LEMMA HotInvAlways == HotSpec => []HotInv
  BY InitHotInv, NextHotInv, PTL DEF HotSpec

SwapTypes == swapped \in SUBSET Names /\ crossed \in SUBSET Names

LEMMA NextSwapTypes == HotInv /\ SwapTypes /\ [HotNext]_allVars => SwapTypes'
<1> SUFFICES ASSUME HotInv, SwapTypes, [HotNext]_allVars PROVE SwapTypes'
  OBVIOUS
<1>1. CASE ManagerStep
  BY <1>1 DEF ManagerStep, SwapTypes
<1>2. CASE ExecuteMoveJit \/ ExecuteSetFields
  <2>1. hot.txn.name \in Names
    BY <1>2 DEF HotInv, UnderWayInv, ExecuteMoveJit, ExecuteSetFields, Transaction
  <2> QED
    BY <1>2, <2>1 DEF ExecuteMoveJit, ExecuteSetFields, SwapEnds, SwapTypes
<1>3. ASSUME UNCHANGED swaps PROVE SwapTypes'
  BY <1>3 DEF swaps, SwapTypes
<1>4. ASSUME NEW n \in Names, NEW s \in Sources, PrepareRead(n, s) PROVE SwapTypes'
  BY <1>3, <1>4 DEF PrepareRead
<1>5. CASE \/ PrepareStore \/ AbortReload \/ CommitReload \/ RollbackReload \/ FinalizeReloads
           \/ UNCHANGED allVars
  BY <1>3, <1>5 DEF PrepareStore, AbortReload, CommitReload, RollbackReload, FinalizeReloads, allVars
<1>6. ASSUME NEW n \in Names, ExecuteFind(n) PROVE SwapTypes'
  BY <1>3, <1>6 DEF ExecuteFind
<1> QED
  BY <1>1, <1>2, <1>4, <1>5, <1>6 DEF HotNext, ReloadStep

(* Every variable keeps its type when hot reloads are interleaved with the  *)
(* manager's methods (HotReloadManager of scaling_security.cpp), whether or *)
(* not hosts change the registry meanwhile.                                 *)
THEOREM HotTypeCorrect == HotSpec => []HotTypeOK
<1>1. HotInv /\ SwapTypes => HotTypeOK
  BY DEF HotInv, RegistryInv, HotTypes, SwapTypes, HotTypeOK
<1>2. HotInit => SwapTypes
  BY DEF HotInit, SwapTypes
<1> QED
  BY <1>1, <1>2, InitHotInv, NextHotInv, NextSwapTypes, PTL DEF HotSpec

(* A ready transaction holds an instance with the code of its new source    *)
(* that nobody else holds (prepareReload, executeReload, abortReload and    *)
(* rollbackReload of scaling_security.cpp), also when hosts register,       *)
(* compile and unregister components between the steps of those methods.    *)
THEOREM ReadyCode == HotSpec => []ReadyHoldsNewCode
<1>1. HotInv => ReadyHoldsNewCode
  <2> SUFFICES ASSUME HotInv, NEW n \in Names, InState(n, "READY")
               PROVE  LET t == m_transactions[n] IN
                      /\ t.name = n
                      /\ t.new_jit # 0 /\ codeOf[t.new_jit] = t.new_source
                      /\ \A c \in Registered : m_components[c].jit # t.new_jit
                      /\ \A m \in Names \ {n} :
                           m_transactions[m] # None => m_transactions[m].new_jit # t.new_jit
    BY DEF ReadyHoldsNewCode
  <2>1. TransactionOK(n) /\ m_transactions[n].state = "READY"
    BY DEF HotInv, TransactionsInv, InState
  <2> QED
    BY <2>1 DEF TransactionOK, Free
<1> QED
  BY <1>1, HotInvAlways, PTL
----------------------------------------------------------------------------
\* The functions of a component, also between the steps of executeReload.
UpdateOK(n) == m_components[n].update_func \in {0, m_components[n].jit} \/ Swapping(n) \/ n \in crossed
EvalOK(n) == m_components[n].eval_func \in {0, m_components[n].jit} \/ n \in swapped
FuncsOK(n) == NoCode(m_components[n]) \/ (UpdateOK(n) /\ EvalOK(n))

LEMMA LiveParts == FunctionsLive <=> \A n \in Registered : FuncsOK(n)
  BY DEF FunctionsLive, FuncsOK, UpdateOK, EvalOK

LEMMA LiveNext == ASSUME \A n \in Registered' : FuncsOK(n)' PROVE FunctionsLive'
  BY DEF FunctionsLive, FuncsOK, UpdateOK, EvalOK

\* An instance without code from before stays one.
LEMMA KeptNoCode ==
    ASSUME TypeOK, FreshInv, NEW n \in Registered, NoCode(m_components[n]),
           m_components'[n].jit = m_components[n].jit,
           \A j \in Jits : j < nextJit => codeOf'[j] = codeOf[j]
    PROVE  NoCode(m_components[n])'
<1>1. m_components[n].jit \in Jits /\ m_components[n].jit < nextJit
  BY DEF TypeOK, Component, FreshInv, NoCode
<1> QED
  BY <1>1 DEF NoCode

\* A component whose record does not change, while executeReload has none, or
\* another, in hand.
LEMMA KeptFuncs ==
    ASSUME TypeOK, FreshInv, NEW n \in Registered, FuncsOK(n),
           m_components'[n].jit = m_components[n].jit,
           m_components'[n].update_func = m_components[n].update_func,
           m_components'[n].eval_func = m_components[n].eval_func,
           \A j \in Jits : j < nextJit => codeOf'[j] = codeOf[j],
           Swapping(n) => Swapping(n)',
           n \in swapped => n \in swapped', n \in crossed => n \in crossed'
    PROVE  FuncsOK(n)'
<1>1. CASE NoCode(m_components[n])
  BY <1>1, KeptNoCode DEF FuncsOK
<1>2. CASE UpdateOK(n) /\ EvalOK(n)
  BY <1>2 DEF FuncsOK, UpdateOK, EvalOK
<1> QED
  BY <1>1, <1>2 DEF FuncsOK

LEMMA ManagerFuncs == ASSUME HotInv, FunctionsLive, ManagerStep PROVE FunctionsLive'
<1>1. RegistryInv /\ TypeOK /\ FreshInv /\ CodeStep
  BY NextCodeStep DEF HotInv, RegistryInv, ManagerStep
<1>2. ASSUME NEW n \in Registered' PROVE FuncsOK(n)'
  <2>1. PICK c : c = m_components'[n]
    OBVIOUS
  <2>2. CASE NoneMade(c)
    BY <2>1, <2>2 DEF NoneMade, FuncsOK, UpdateOK, EvalOK
  <2>3. CASE MadeNow(c)
    <3>1. nextJit # 0
      BY <1>1, BoundsAssumption DEF TypeOK
    <3> QED
      BY <2>1, <2>3, <3>1 DEF MadeNow, FuncsOK, UpdateOK, EvalOK, NoCode
  <2>4. CASE /\ n \in Registered
             /\ c.jit = m_components[n].jit
             /\ c.update_func = m_components[n].update_func /\ c.eval_func = m_components[n].eval_func
    <3>1. FuncsOK(n) /\ n \notin Replaced
      BY <1>2, <2>1, <2>4, LiveParts DEF Replaced
    <3>2. \A j \in Jits : j < nextJit => codeOf'[j] = codeOf[j]
      BY <1>1 DEF CodeStep
    <3>3. Swapping(n) => Swapping(n)'
      BY <1>2 DEF ManagerStep, Swapping
    <3>4. (n \in swapped => n \in swapped') /\ (n \in crossed => n \in crossed')
      BY <3>1 DEF ManagerStep
    <3> QED
      BY <1>1, <2>1, <2>4, <3>1, <3>2, <3>3, <3>4, KeptFuncs
  <2> QED
    BY <1>1, <2>1, <2>2, <2>3, <2>4 DEF CodeStep
<1> QED
  BY <1>2, LiveNext

LEMMA MoveJitFuncs == ASSUME HotInv, FunctionsLive, ExecuteMoveJit PROVE FunctionsLive'
<1>1. /\ TypeOK /\ FreshInv /\ HotTypes /\ hot.step = "found" /\ codeOf' = codeOf
      /\ m_components \in [Registered -> Component]
      /\ hot' = [hot EXCEPT !.step = "moved"]
  BY DEF HotInv, RegistryInv, TypeOK, ExecuteMoveJit, jitVars
<1>2. PICK t : t = hot.txn
  OBVIOUS
<1>3. hot'.step = "moved" /\ hot'.txn = t
  BY <1>1, <1>2 DEF HotTypes
<1>4. m_components' = [m_components EXCEPT ![t.name].jit = t.new_jit]
  BY <1>2 DEF ExecuteMoveJit
<1>5. /\ Registered' = Registered
      /\ \A n \in Registered : n # t.name => m_components'[n] = m_components[n]
  BY <1>1, <1>4 DEF Registered
<1>6. swapped' = swapped \cup {t.name} /\ crossed' = crossed
  BY <1>2 DEF ExecuteMoveJit
<1>7. FuncsOK(t.name)'
  BY <1>3, <1>6 DEF FuncsOK, UpdateOK, EvalOK, Swapping
<1>8. ASSUME NEW n \in Registered, n # t.name PROVE FuncsOK(n)'
  <2>1. m_components'[n] = m_components[n] /\ FuncsOK(n) /\ ~Swapping(n)
    BY <1>1, <1>5, <1>8, LiveParts DEF Swapping
  <2> QED
    BY <1>1, <1>6, <2>1, KeptFuncs
<1> QED
  BY <1>5, <1>7, <1>8, LiveNext

LEMMA SetFieldsFuncs == ASSUME HotInv, FunctionsLive, ExecuteSetFields PROVE FunctionsLive'
<1>1. /\ TypeOK /\ FreshInv /\ hot.step = "moved" /\ hot' = Idle /\ codeOf' = codeOf
      /\ m_components \in [Registered -> Component] /\ swapped' = swapped
  BY DEF HotInv, RegistryInv, TypeOK, ExecuteSetFields, jitVars
<1>2. PICK t : t = hot.txn
  OBVIOUS
<1>3. t.name \in Registered /\ FuncsOK(t.name)
  BY <1>1, <1>2, LiveParts DEF HotInv, UnderWayInv
<1> DEFINE c == [[[m_components[t.name] EXCEPT !.update_func = t.new_jit]
                    EXCEPT !.source_code = t.new_source] EXCEPT !.state = t.saved_state]
<1>4. m_components' = [m_components EXCEPT ![t.name] = c]
  BY <1>2 DEF ExecuteSetFields
<1>5. /\ c.update_func = t.new_jit /\ c.jit = m_components[t.name].jit
      /\ c.eval_func = m_components[t.name].eval_func
  BY <1>1, <1>3 DEF Component
<1> HIDE DEF c
<1>6. /\ Registered' = Registered /\ m_components'[t.name] = c
      /\ \A n \in Registered : n # t.name => m_components'[n] = m_components[n]
  BY <1>1, <1>3, <1>4 DEF Registered
<1>7. crossed' = IF c.jit = t.new_jit THEN crossed \ {t.name} ELSE crossed \cup {t.name}
  BY <1>2, <1>5 DEF ExecuteSetFields, SwapEnds
<1>8. FuncsOK(t.name)'
  <2>1. UpdateOK(t.name)'
    BY <1>5, <1>6, <1>7 DEF UpdateOK
  <2>2. CASE NoCode(m_components[t.name])
    BY <1>1, <1>3, <1>5, <1>6, <2>2, KeptNoCode DEF FuncsOK
  <2>3. CASE EvalOK(t.name)
    BY <1>1, <1>5, <1>6, <2>1, <2>3 DEF EvalOK, FuncsOK
  <2> QED
    BY <1>3, <2>2, <2>3 DEF FuncsOK
<1>9. ASSUME NEW n \in Registered, n # t.name PROVE FuncsOK(n)'
  <2>1. m_components'[n] = m_components[n] /\ FuncsOK(n) /\ ~Swapping(n)
    BY <1>2, <1>6, <1>9, LiveParts DEF Swapping
  <2>2. n \in crossed => n \in crossed'
    BY <1>7, <1>9
  <2> QED
    BY <1>1, <2>1, <2>2, KeptFuncs
<1> QED
  BY <1>6, <1>8, <1>9, LiveNext

\* Steps that leave every instance and function alone, with no swap under way.
LEMMA QuietFuncs ==
    ASSUME HotInv, FunctionsLive, hot.step # "moved" \/ hot' = hot, UNCHANGED swaps,
           \A j \in Jits : j < nextJit => codeOf'[j] = codeOf[j],
           Registered' = Registered,
           \A n \in Registered :
               /\ m_components'[n].jit = m_components[n].jit
               /\ m_components'[n].update_func = m_components[n].update_func
               /\ m_components'[n].eval_func = m_components[n].eval_func
    PROVE  FunctionsLive'
<1>1. TypeOK /\ FreshInv /\ \A n \in Registered : FuncsOK(n)
  BY LiveParts DEF HotInv, RegistryInv
<1>2. ASSUME NEW n \in Registered PROVE FuncsOK(n)'
  <2>1. Swapping(n) => Swapping(n)'
    BY DEF Swapping
  <2> QED
    BY <1>1, <2>1, KeptFuncs DEF swaps
<1> QED
  BY <1>2, LiveNext

LEMMA OtherReloadFuncs ==
    ASSUME HotInv, FunctionsLive,
           \/ \E n \in Names, s \in Sources : PrepareRead(n, s)
           \/ \E n \in Names : ExecuteFind(n)
           \/ PrepareStore \/ AbortReload \/ CommitReload \/ RollbackReload \/ FinalizeReloads
           \/ UNCHANGED allVars
    PROVE  FunctionsLive'
<1>1. TypeOK /\ m_components \in [Registered -> Component]
  BY DEF HotInv, RegistryInv, TypeOK
<1>2. CASE \E n \in Names, s \in Sources : PrepareRead(n, s)
  <2>1. PICK n \in Names, s \in Sources : PrepareRead(n, s)
    BY <1>2
  <2>2. m_components' = m_components /\ hot.step # "moved" /\ UNCHANGED swaps
    BY <2>1 DEF PrepareRead, MayReload, Idle
  <2>3. \A j \in Jits : j < nextJit => codeOf'[j] = codeOf[j]
    <3>1. codeOf' = [codeOf EXCEPT ![nextJit] = s]
      BY <2>1 DEF PrepareRead
    <3> QED
      BY <1>1, <3>1, BoundsAssumption DEF TypeOK, Jits
  <2> QED
    BY <2>2, <2>3, QuietFuncs DEF Registered
<1>3. ASSUME UNCHANGED <<vars, swaps>>, hot.step # "moved" \/ hot' = hot PROVE FunctionsLive'
  BY <1>3, QuietFuncs DEF vars, jitVars, Registered
<1>4. CASE \/ \E n \in Names : ExecuteFind(n)
           \/ PrepareStore \/ AbortReload \/ CommitReload \/ FinalizeReloads
  <2>1. UNCHANGED <<vars, swaps>> /\ hot.step # "moved"
    BY <1>4 DEF ExecuteFind, PrepareStore, AbortReload, CommitReload, FinalizeReloads, MayReload, Idle
  <2> QED
    BY <1>3, <2>1
<1>5. CASE RollbackReload
  <2>1. /\ Registered' = Registered /\ codeOf' = codeOf /\ hot.step # "moved" /\ UNCHANGED swaps
    BY <1>5 DEF RollbackReload, Registered, jitVars, MayReload, Idle
  <2>2. ASSUME NEW n \in Registered
        PROVE  /\ m_components'[n].jit = m_components[n].jit
               /\ m_components'[n].update_func = m_components[n].update_func
               /\ m_components'[n].eval_func = m_components[n].eval_func
    BY <1>1, <1>5 DEF RollbackReload, Component
  <2> QED
    BY <2>1, <2>2, QuietFuncs
<1>6. CASE UNCHANGED allVars
  BY <1>3, <1>6 DEF allVars, hotVars
<1> QED
  BY <1>2, <1>4, <1>5, <1>6

(* Both functions of a component lie in the instance it owns (or are null), *)
(* whatever methods of JITManager and HotReloadManager overlap and whether  *)
(* or not hosts call both at once, but for what executeReload leaves        *)
(* (scaling_security.cpp 165-169) and for compilations without a module.    *)
THEOREM FunctionsInPlace == HotSpec => []FunctionsLive
<1>1. HotInit => FunctionsLive
  BY DEF HotInit, Init, FunctionsLive, Registered
<1>2. HotInv /\ FunctionsLive /\ [HotNext]_allVars => FunctionsLive'
  BY ManagerFuncs, MoveJitFuncs, SetFieldsFuncs, OtherReloadFuncs DEF HotNext, ReloadStep
<1> QED
  BY <1>1, <1>2, InitHotInv, NextHotInv, PTL DEF HotSpec
=============================================================================
