------------------------ MODULE SimulationController ------------------------
(***************************************************************************)
(* src/jit/simulation_hook.cpp: the controller of a simulation, the        *)
(* manager of behavioural sources and the hook ngspice calls.  Each of the *)
(* three has a mutex that is not recursive; their methods call each other  *)
(* with it held, and so do they call the host's callbacks.  JITManager's   *)
(* mutex is taken last and given back at once: its calls are parts of      *)
(* actions.                                                                *)
(*                                                                         *)
(* A thread is idle or inside one method; `wants' is the mutex it waits    *)
(* for.  m_end_time is never set, so the loop reports no progress: the     *)
(* callbacks left are those of start and stop.                             *)
(***************************************************************************)
EXTENDS Naturals

CONSTANTS
    Threads,   \* the host's threads and ngspice's
    None,
    Names,     \* names of behavioural sources
    Exprs,     \* their expressions
    MaxTime,   \* bound of m_current_time
    Calls      \* which thread calls which methods

Locks == {"controller", "sources", "hook"}
Broken == "broken"  \* a component that is registered and failed to compile

ASSUME ConstantsAssumption == /\ None \notin Threads \cup Locks \cup Exprs
                              /\ Broken \notin Exprs \cup {None}
                              /\ MaxTime \in Nat

VARIABLES
    owner,           \* the thread that holds each mutex
    pc, wants,
    m_running, m_paused, m_current_time,
    until,           \* tstop of the transient run under way, 0 without one
    m_simulation_active, hasInputs,  \* of the hook; whether m_component_inputs has entries
    m_sources,       \* name -> expression, None: not registered
    jitCode,         \* what JITManager runs under each name
    reused           \* history: names registered anew while the manager knew them

control == <<m_running, m_paused, m_current_time, until>>
hook == <<m_simulation_active, hasInputs>>
sources == <<m_sources, jitCode, reused>>
vars == <<owner, pc, wants, control, hook, sources>>

ControllerOps == {"initialize", "finalize", "start", "stop", "pause", "resume", "step", "run", "query"}
SourceOps == {"register", "unregister", "compile", "compileAll", "evaluate", "netlist"}
HookOps == {"integrate", "hookFinalize", "simStart", "simEnd", "onTimeStep", "node"}
Ops == ControllerOps \cup SourceOps \cup HookOps \cup {"timestep"}
ASSUME CallsAssumption == Calls \in [Threads -> SUBSET Ops]

\* The mutex a method takes first; onTransientTimestep takes none.
LockOf(op) == CASE op \in ControllerOps -> "controller"
                [] op \in SourceOps -> "sources"
                [] op \in HookOps -> "hook"
                [] OTHER -> None

Init ==
    /\ owner = [l \in Locks |-> None]
    /\ pc = [th \in Threads |-> "idle"]
    /\ wants = [th \in Threads |-> None]
    /\ m_running = FALSE /\ m_paused = FALSE /\ m_current_time = 0 /\ until = 0
    /\ m_simulation_active = FALSE /\ hasInputs = FALSE
    /\ m_sources = [n \in Names |-> None]
    /\ jitCode = [n \in Names |-> None]
    /\ reused = {}

Call(th, op) ==
    /\ pc[th] = "idle"
    /\ pc' = [pc EXCEPT ![th] = op]
    /\ wants' = [wants EXCEPT ![th] = LockOf(op)]
    /\ UNCHANGED <<owner, control, hook, sources>>

\* std::lock_guard: a thread that owns the mutex already waits for itself.
Acquire(th) ==
    /\ wants[th] # None
    /\ owner[wants[th]] = None
    /\ owner' = [owner EXCEPT ![wants[th]] = th]
    /\ wants' = [wants EXCEPT ![th] = None]
    /\ UNCHANGED <<pc, control, hook, sources>>

\* th is at l and waits for nothing.
At(th, l) == pc[th] = l /\ wants[th] = None
Goto(th, l, lock) == /\ pc' = [pc EXCEPT ![th] = l]
                     /\ wants' = [wants EXCEPT ![th] = lock]
Return(th, l) == /\ pc' = [pc EXCEPT ![th] = "idle"]
                 /\ owner' = [owner EXCEPT ![l] = None]
                 /\ UNCHANGED wants
\* A callback of the host, called with the controller's mutex held, returns
\* or asks the controller something.
Callback(th) == \/ Return(th, "controller")
                \/ Goto(th, "callback", "controller") /\ UNCHANGED owner
----------------------------------------------------------------------------
Initialize(th) ==
    /\ At(th, "initialize")
    /\ m_running' = FALSE /\ m_paused' = FALSE /\ m_current_time' = 0
    /\ Return(th, "controller")
    /\ UNCHANGED <<until, hook, sources>>

\* finalize calls stopSimulation with the mutex held.
Finalize(th) ==
    /\ At(th, "finalize")
    /\ Goto(th, "stop", "controller")
    /\ UNCHANGED <<owner, control, hook, sources>>

\* startSimulation, up to the call of compileAllSources.
Start(th) ==
    /\ At(th, "start")
    /\ IF m_running THEN Return(th, "controller")
                    ELSE Goto(th, "startCompile", "sources") /\ UNCHANGED owner
    /\ UNCHANGED <<control, hook, sources>>

\* compileAllSources calls compileSource for each source, which locks again;
\* with no source it returns.
CompileAll(th) ==
    /\ pc[th] \in {"compileAll", "startCompile"} /\ wants[th] = None
    /\ IF \E n \in Names : m_sources[n] # None
         THEN Goto(th, "compile", "sources") /\ UNCHANGED owner
         ELSE /\ owner' = [owner EXCEPT !["sources"] = None]
              /\ pc' = [pc EXCEPT ![th] = IF @ = "compileAll" THEN "idle" ELSE "startNgspice"]
              /\ UNCHANGED wants
    /\ UNCHANGED <<control, hook, sources>>

\* flux_ngspice_init fails, or the run starts; either way a callback is called.
StartNgspice(th) ==
    /\ At(th, "startNgspice")
    /\ \/ UNCHANGED control
       \/ m_running' = TRUE /\ m_paused' = FALSE /\ m_current_time' = 0 /\ UNCHANGED until
    /\ Callback(th)
    /\ UNCHANGED <<hook, sources>>

Stop(th) ==
    /\ At(th, "stop")
    /\ m_running' = FALSE /\ m_paused' = FALSE
    /\ IF m_running THEN Callback(th) ELSE Return(th, "controller")
    /\ UNCHANGED <<m_current_time, until, hook, sources>>

\* pauseSimulation and resumeSimulation.
Pause(th) ==
    /\ pc[th] \in {"pause", "resume"} /\ wants[th] = None
    /\ m_paused' = IF m_running THEN pc[th] = "pause" ELSE m_paused
    /\ Return(th, "controller")
    /\ UNCHANGED <<m_running, m_current_time, until, hook, sources>>

\* The methods that only read: the controller's, evaluateSource, getSource,
\* getSourceNames and generateSourceNetlist.
Query(th) ==
    /\ pc[th] \in {"query", "evaluate"} /\ wants[th] = None
    /\ Return(th, LockOf(pc[th]))
    /\ UNCHANGED <<control, hook, sources>>
----------------------------------------------------------------------------
\* A step's walk over the components of the hook: with none, it is over; else
\* getNodeVoltage and setNodeVoltage take the hook's mutex, again and again,
\* for which one time stands.
Walk(th, l) == IF hasInputs THEN Goto(th, l, "hook") ELSE Goto(th, l, None)

Step(th) ==
    /\ At(th, "step")
    /\ IF ~m_running \/ m_paused \/ m_current_time = MaxTime
         THEN Return(th, "controller") /\ UNCHANGED m_current_time
         ELSE /\ m_current_time' = m_current_time + 1
              /\ Walk(th, "stepped")
              /\ UNCHANGED owner
    /\ UNCHANGED <<m_running, m_paused, until, hook, sources>>

\* runTransientSimulation(tstart, tstop): it refuses, flux_ngspice_run_transient
\* fails (an error callback), or the loop begins.
Run(th, tstart, tstop) ==
    /\ At(th, "run")
    /\ IF ~m_running \/ m_paused
         THEN Return(th, "controller") /\ UNCHANGED <<m_current_time, until>>
         ELSE \/ Callback(th) /\ UNCHANGED <<m_current_time, until>>
              \/ /\ tstart <= tstop
                 /\ m_current_time' = tstart
                 /\ until' = tstop
                 /\ Walk(th, "looping")
                 /\ UNCHANGED owner
    /\ UNCHANGED <<m_running, m_paused, hook, sources>>

\* Mutant: the mutex is free between two steps of the loop.
LoopUnlocked(th) ==
    /\ At(th, "looping")
    /\ owner["hook"] # th
    /\ IF m_current_time < until /\ m_running /\ ~m_paused
         THEN /\ m_current_time' = m_current_time + 1
              /\ owner' = [owner EXCEPT !["controller"] = None]
              /\ Goto(th, "looping", "controller")
         ELSE Return(th, "controller") /\ UNCHANGED m_current_time
    /\ UNCHANGED <<m_running, m_paused, until, hook, sources>>

\* The loop's test, after a walk.
Loop(th) ==
    /\ At(th, "looping")
    /\ owner["hook"] # th
    /\ IF m_current_time < until /\ m_running /\ ~m_paused
         THEN /\ m_current_time' = m_current_time + 1
              /\ Walk(th, "looping")
              /\ UNCHANGED <<owner, until>>
         ELSE Return(th, "controller") /\ until' = 0 /\ UNCHANGED m_current_time
    /\ UNCHANGED <<m_running, m_paused, hook, sources>>

Stepped(th) ==
    /\ At(th, "stepped")
    /\ owner["hook"] # th
    /\ Return(th, "controller")
    /\ UNCHANGED <<control, hook, sources>>

\* onTransientTimestep, called by the host itself.
Timestep(th) ==
    /\ At(th, "timestep")
    /\ IF hasInputs THEN Goto(th, "node", "hook") ELSE Goto(th, "idle", None)
    /\ UNCHANGED <<owner, control, hook, sources>>

\* Mutant: the walk keeps the hook's mutex and asks for the controller's.
NodeAsksController(th) ==
    /\ pc[th] \in {"node", "stepped", "looping"} /\ wants[th] = None
    /\ owner["hook"] = th
    /\ IF pc[th] = "node"
         THEN Goto(th, "query", "controller") /\ UNCHANGED owner
         ELSE owner' = [owner EXCEPT !["hook"] = None] /\ UNCHANGED <<pc, wants>>
    /\ UNCHANGED <<control, hook, sources>>

\* The methods that look one node up or change it, also within a walk.
Node(th) ==
    /\ pc[th] \in {"node", "stepped", "looping"} /\ wants[th] = None
    /\ owner["hook"] = th
    /\ owner' = [owner EXCEPT !["hook"] = None]
    /\ pc' = [pc EXCEPT ![th] = IF @ = "node" THEN "idle" ELSE @]
    /\ UNCHANGED <<wants, control, hook, sources>>

\* onTimeStep walks with the hook's mutex held: the first node locks it again.
OnTimeStep(th) ==
    /\ At(th, "onTimeStep")
    /\ IF m_simulation_active /\ hasInputs
         THEN Goto(th, "node", "hook") /\ UNCHANGED owner
         ELSE Return(th, "hook")
    /\ UNCHANGED <<control, hook, sources>>

\* onSimulationStart, onSimulationEnd, integrateJITComponent and finalize.
HookChange(th) ==
    /\ pc[th] \in {"simStart", "simEnd", "integrate", "hookFinalize"} /\ wants[th] = None
    /\ m_simulation_active' = IF pc[th] = "integrate" THEN m_simulation_active
                                                      ELSE pc[th] = "simStart"
    /\ hasInputs' = CASE pc[th] = "integrate" -> TRUE
                      [] pc[th] = "hookFinalize" -> FALSE
                      [] OTHER -> hasInputs
    /\ Return(th, "hook")
    /\ UNCHANGED <<control, sources>>
----------------------------------------------------------------------------
\* Mutant: a source that exists is replaced.
RegisterReplace(th, n, e) ==
    /\ At(th, "register")
    /\ m_sources' = [m_sources EXCEPT ![n] = e]
    /\ reused' = IF m_sources[n] = None /\ jitCode[n] # None THEN reused \cup {n} ELSE reused
    /\ Return(th, "sources")
    /\ UNCHANGED <<control, hook, jitCode>>

Register(th, n, e) ==
    /\ At(th, "register")
    /\ IF m_sources[n] # None
         THEN UNCHANGED <<m_sources, reused>>
         ELSE /\ m_sources' = [m_sources EXCEPT ![n] = e]
              /\ reused' = IF jitCode[n] # None THEN reused \cup {n} ELSE reused
    /\ Return(th, "sources")
    /\ UNCHANGED <<control, hook, jitCode>>

\* Mutant: the entry is marked, not erased.
UnregisterMark(th, n) ==
    /\ At(th, "unregister")
    /\ m_sources' = [m_sources EXCEPT ![n] = Broken]
    /\ Return(th, "sources")
    /\ UNCHANGED <<control, hook, jitCode, reused>>

\* JITManager keeps the component.
Unregister(th, n) ==
    /\ At(th, "unregister")
    /\ m_sources' = [m_sources EXCEPT ![n] = None]
    /\ Return(th, "sources")
    /\ UNCHANGED <<control, hook, jitCode, reused>>

\* compileSource: registerComponent refuses a name it has; then the
\* compilation succeeds or not.
CompileSource(th, n) ==
    /\ At(th, "compile")
    /\ \/ UNCHANGED jitCode
       \/ /\ m_sources[n] # None /\ jitCode[n] = None
          /\ \E code \in {m_sources[n], Broken} : jitCode' = [jitCode EXCEPT ![n] = code]
    /\ Return(th, "sources")
    /\ UNCHANGED <<control, hook, m_sources, reused>>

\* generateNetlist calls generateSourceNetlist for each source.
Netlist(th) ==
    /\ At(th, "netlist")
    /\ IF \E n \in Names : m_sources[n] # None
         THEN Goto(th, "evaluate", "sources") /\ UNCHANGED owner
         ELSE Return(th, "sources")
    /\ UNCHANGED <<control, hook, sources>>
----------------------------------------------------------------------------
Proceed(th) ==
    \/ Acquire(th)
    \/ Initialize(th) \/ Finalize(th) \/ Start(th) \/ CompileAll(th) \/ StartNgspice(th)
    \/ Stop(th) \/ Pause(th) \/ Query(th)
    \/ Step(th) \/ (\E a, b \in 0 .. MaxTime : Run(th, a, b)) \/ Loop(th) \/ Stepped(th)
    \/ Timestep(th) \/ Node(th) \/ OnTimeStep(th) \/ HookChange(th)
    \/ \E n \in Names : \/ \E e \in Exprs : Register(th, n, e)
                        \/ Unregister(th, n) \/ CompileSource(th, n)
    \/ Netlist(th)

Next == \E th \in Threads : Proceed(th) \/ \E op \in Calls[th] : Call(th, op)

\* A thread inside a method goes on, and gets a mutex that is free again and
\* again.
Fairness == \A th \in Threads : SF_vars(Proceed(th))

Spec == Init /\ [][Next]_vars /\ Fairness
----------------------------------------------------------------------------
Inner == {"startCompile", "startNgspice", "stepped", "looping", "callback"}

TypeOK ==
    /\ owner \in [Locks -> Threads \cup {None}]
    /\ pc \in [Threads -> Ops \cup Inner \cup {"idle"}]
    /\ wants \in [Threads -> Locks \cup {None}]
    /\ m_running \in BOOLEAN /\ m_paused \in BOOLEAN
    /\ m_current_time \in 0 .. MaxTime /\ until \in 0 .. MaxTime
    /\ m_simulation_active \in BOOLEAN /\ hasInputs \in BOOLEAN
    /\ m_sources \in [Names -> Exprs \cup {None}]
    /\ jitCode \in [Names -> Exprs \cup {None, Broken}]
    /\ reused \in SUBSET Names

(* A thread that waits for a mutex holds no other, unless it waits inside   *)
(* the controller for one of the two below it: so threads never wait for    *)
(* each other in a circle, and the only wait without end is a thread's for  *)
(* itself.                                                                  *)
LocksAreOrdered ==
    \A th \in Threads, l \in Locks :
        wants[th] # None /\ owner[l] = th => l = wants[th] \/ l = "controller"

\* th waits for a mutex it holds.
Reentered(th) == wants[th] # None /\ owner[wants[th]] = th

\* th has a step to take: the mutex it waits for is free, or it waits for none.
CanProceed(th) ==
    IF wants[th] = None
      THEN pc[th] \notin {"idle", "callback"} /\ (pc[th] = "node" => owner["hook"] = th)
      ELSE owner[wants[th]] = None

Settled(th) == CanProceed(th) \/ Reentered(th)
WaitsFor(th, x) == wants[th] # None /\ owner[wants[th]] = x

(* No thread is part of a circle of threads that wait for each other, or    *)
(* waits behind one: it can go on itself, or the thread it waits for can,   *)
(* or the one that thread waits for; unless at the end of the chain is a    *)
(* thread that has called, with a mutex held, a method that takes it again. *)
EveryWaitEnds ==
    \A th \in Threads :
        pc[th] # "idle" =>
            \/ Settled(th)
            \/ \E x \in Threads :
                  /\ WaitsFor(th, x)
                  /\ Settled(x) \/ (\E y \in Threads : WaitsFor(x, y) /\ Settled(y))

(* Every method returns, as long as no thread has called, with a mutex      *)
(* held, a method that takes it again.                                      *)
EveryCallReturns ==
    \A th \in Threads :
        pc[th] # "idle" ~> pc[th] = "idle" \/ \E x \in Threads : Reentered(x)

(* While a step or a transient run is under way the simulation is running   *)
(* and is not paused: no pause, stop or restart comes between two of its    *)
(* steps, and the loop's own test of the flags never ends it.               *)
RunIsNotInterrupted ==
    \A th \in Threads : pc[th] \in {"stepped", "looping"} => m_running /\ ~m_paused

(* What evaluateSource runs under the name of a source is the expression    *)
(* the source was registered with, unless the name was registered anew:     *)
(* then JITManager goes on running the first one.                           *)
SourceRunsItsExpression ==
    \A n \in Names \ reused :
        m_sources[n] # None => jitCode[n] \in {m_sources[n], None, Broken}
=============================================================================
