# A verification project for FluxScript

FluxScript is a language for circuit simulation: a compiler written in C++ that
emits LLVM code, a JIT that runs it, a runtime library the compiled code calls,
services that keep compiled components alive inside a running simulation, a
package manager and tools. This directory holds TLA+ models of the parts of it
that keep state which several threads or several calls share, the TLC
configurations that check them, and TLAPS proofs about them. Paths are relative
to the repository's root, which is the directory above `src/`, `include/`, ….

## 1. Inventory

| Component | State | Operations | Who calls it | What must hold |
|---|---|---|---|---|
| Worker pool, `src/runtime/threading/threading_runtime.cpp` 21-136 | one shared loop: counter, end, body, captured variables, `m_doneCount`, `m_hasWork`, `m_stop`; a mutex and a condition variable | `dispatch` (published, sequential, nested), `workerLoop`, destructor | every compiled `parallel for` | each iteration runs exactly once, with its own captured variables; the call outlives its workers; every call returns |
| Tasks, same file 145-236, `flux_runtime.cpp` 395-465, `jit_engine.cpp` 216-249 | map of pending threads, per-thread call depth and allocations | `spawn`, `join`, end of a top-level call (`flux_join_all_pending`, free) | compiled `spawn`/`join`; `JITEngine::callFunction` | a join yields its task's result; no task uses freed memory; nothing hangs |
| Channels, same file 247-305 | queue, `closed`, mutex, condition variable | create, send, recv, close, destroy | compiled code, several tasks | FIFO, nothing lost or duplicated, no receiver left asleep, no use after destroy |
| `ParallelRuntime`, `src/runtime/threading/parallel_runtime.cpp` | counter and partial results of one call | `parallelFor`, `parallelReduce` | host applications | each index once; the reduction covers the range |
| JIT manager, `src/jit/jit_manager.cpp` | registry of components with state, source, JIT, probes; statistics | register, unregister, compile, recompile, hot reload, evaluate, probe | SPICE hosts, several threads | an active component's function belongs to a live JIT; statistics agree with the registry |
| Hot reload, sandbox, timeouts, multi-core, `src/jit/scaling_security.cpp` | transactions, sandboxes, worker threads | prepare, swap, commit, rollback, execute with timeout | hosts | a rollback restores what was there; an interrupted call leaves no thread behind |
| Simulation hook, `src/jit/simulation_hook.cpp` | behavioural sources, callbacks, node voltages, controller state | add, compile, evaluate, netlist, start, pause, resume, stop | hosts, the simulation thread | no self-deadlock; pause and stop take effect |
| Smart signals and zero-copy data, `src/jit/smart_signal.cpp`, `zero_copy_data.cpp` | signals with parameters and probes; buffers and node mappings | register, bind, map, unregister | hosts | a mapping never refers to a buffer that is gone |
| Tiered JIT, `src/jit/flux_jit.cpp` | call counts, hotness, promoted functions, saved modules | add module, count, promote, redirect | compiled prologues, hosts | a function is promoted once, to its own current code |
| JIT engine, `src/jit_engine.cpp` | compiled modules, return types, on-disk cache | compile, cache, call | CLI, REPL, hosts | a cached module is the one its source compiles to |
| Module loader, `src/compiler/core/module_loader.cpp` | cache of loaded modules, those being loaded | load, resolve, clear | compiler | cycles are reported; a module is loaded once |
| Package resolver and manager, `src/package/` | resolved set, lockfile, installed packages | resolve, install, uninstall | `flux-pkg` | a resolution satisfies every constraint; the lockfile matches what is installed |
| ngspice bridge, `src/runtime/core/ngspice_bridge.cpp` | shared-library handle, callback state | load, run, callbacks | SPICE scripts | callbacks reach the run that asked for them |
| Runtime core, `src/runtime/core/` | error state, try/catch stack, tracked memory, time-domain and mixed-signal state | called by compiled code | compiled code | frames are matched; state does not leak between calls |
| Compiler front end and code generation, `src/compiler/` | one compilation at a time: tokens, AST, symbol tables, LLVM IR | parse, check, emit | JIT engine, tools | the meaning of programs |
| Tools, `src/tooling/`, `cli/`, `src/cli/` | sessions of REPL, notebook, LSP, profiler | user commands | users | — |
| Numerics: matrices, FFT, symbolic algebra, Monte Carlo, sweeps, toolboxes, quantum, neuromorphic, surrogates, doctor, instruments, verification DX | results of one call | pure functions | compiled code, hosts | numerical accuracy |

**How they interact.** Compiled code calls the runtime by C functions whose
addresses the JIT registers. `JITEngine::callFunction` brackets a top-level call
with `flux_inc_call_depth`/`flux_dec_call_depth`; the last decrement joins every
pending task of the process and frees the calling thread's allocations. The
worker pool is one static object. The JIT manager, the simulation hook and the
zero-copy manager are singletons with a mutex each; some of their methods call
others of the same object or of another one with the mutex held, and several
hand out raw pointers that are used after the mutex is released.

**What is hard.** Threads that share fields without a lock; a count used as a
barrier; condition variables with more than one meaning; objects freed while
another thread is inside them; non-recursive mutexes taken again; compound
updates (compile, publish a function pointer, count) that fail half-way; caches
and saved modules that are looked up by a name that may have been redefined.

## 2. Plan

The order is by how much depends on a part and how badly a test would reach it.

| Step | Modules | State |
|---|---|---|
| 1 | `WorkerPool`, `WorkerPoolProofs`: the pool step by step, its contract for undisturbed loops | modelled, checked, proved |
| 2 | `Tasks`, `TasksProofs`: spawn, join, end of a top-level call | modelled, checked, proved |
| 3 | `Fifo` (abstract), `Channel` (refines it), `ChannelProofs` | modelled, checked, safety proved |
| 4 | `JITManager`, `JITManagerProofs`, and `HotReload`, which composes with it | modelled, checked, proved |
| 5 | `SimulationController`, `SimulationControllerProofs`: three mutexes, callbacks, the controller's run states | modelled, checked, safety proved |
| 6 | `FluxJIT`, `FluxJITProofs`: registration, counters, promotion, redirection, refused modules | modelled, checked, proved |
| 7 | `JITEngine`, `JITEngineProofs`: `compileScript` and the two files of a cache entry, shared by processes that may die | modelled, checked, proved |
| 8 | `DependencyResolver`, `DependencyResolverProofs`: depth-first search without reconsideration | modelled, checked, safety proved |
| 9 | What would come next: timeouts and sandboxes (`scaling_security.cpp` 274-946), zero-copy mappings, the module loader | not modelled, see section 13 |

Each module takes its actors as CONSTANTS with named assumptions, has one action
per operation, or per step where another thread may come between, keeps history
in variables marked as such, and states its invariants as conjunctions of named
parts, so that it can be proved about as well as checked. No module declares a
recursive operator: the one recursion of the code that is modelled, that of the
resolver, is a stack. In each module the operators whose comment begins
with "Mutant" are not part of the specification: each is an action with a
plausible bug in it, kept to show that the property it breaks is not vacuous.
PROJECT.json pairs every property of a passing run with one.

## 3. Worker pool (`WorkerPool`, `MCWorkerPool`, `WorkerPoolProofs`)

*Correspondence.* An *executor* is a worker thread or one activation of
`dispatch` (a *call*); `pc` says where it is. A section that holds `m_mutex` is
one action, except the stores of `dispatch` (lines 98-103), which workers read
without the mutex and which are therefore one action each, with `mutex` naming
the call inside. Reads without the mutex are actions of their own: `Probe` (line
90), `Claim` (47, 109), `WorkerCheck` (48), `WorkerLoad` and `WorkerCall` (50: the
body pointer, then `m_userData`). `NotifyAll` moves every sleeper back to its
predicate. A body is the interval between `WorkerCall`/`CallCheck` and
`BodyReturn`; inside it a nested call may be made. C++ gives unsynchronised
accesses no meaning; the model lets each of them happen in program order at any
moment, which covers the values an aligned 64-bit load or store can see.

*History.* `runs[c][n]` counts how often iteration `n` of call `c` was started;
`owner` is the call that stored `m_current` last; `exclusive` are the calls that
found nobody in the loop when they stored it and were not overwritten in turn.
The contract is stated for those: the code has none for loops that overlap.

| Run | Instance | Shows |
|---|---|---|
| `pool_overlap` | 2 workers, 2 calls of 2 threads, ranges 0-1 and 1-2 | undisturbed calls start each iteration exactly once, while others interfere |
| `pool_nested` | 2 workers, 2 calls one after the other or one inside the other's body, then the destructor | while a loop is under way some thread can go on; every call returns; the destructor joins every worker |
| `pool_barrier` | as `pool_nested`, no nesting | *violation*: `dispatch` returns while a worker still runs its body |

*Bounds.* Two workers are the least with which one is early and the other late,
two calls the least that disturb each other; indices below 2 or 3 give a range
with a first, a last and a missing index. `MaxOpen` caps the threads outside the
pool, `AllowNested` switches nested loops on. The workers are symmetric in
`pool_overlap`, which checks no liveness. *Deadlock* is not checked: after the
destructor, or when nobody calls, the system rests. *Fairness*: each worker, each
call that has begun and the destructor go on (weak fairness per thread: the
operating system runs every thread and bodies end); nobody has to call.
`ShutdownCompletes` has a proviso: since `dispatch` may return before its workers
are through, a loop nested in a body can be left open when the destructor sets
`m_stop`; a worker that then sleeps or waits inside that body keeps the
destructor waiting, so the property excuses states with an open call.

*Proofs.* `TypeCorrect`, `WorkOwned`, `StartsOnce`, `StartsAll`, `BodiesMatch`
are proved for any finite set of workers, any calls and any ranges. None of the
last four is inductive. `IInv` adds: who may be in the critical section
(`MutexInv`); that a call that has not published has left no trace (`FreshInv`);
that while the last publisher is undisturbed every index below the counter is
either started once or held by exactly one executor (`OwnerInv`, in named parts);
and that a call that published earlier is complete (`PastInv`). Each action has
a lemma, split by the conjuncts it disturbs. The assumptions are the named
ASSUMEs of `WorkerPool`: a non-empty finite set of workers, calls that are not
workers, ranges of naturals.

`NestedLoopsGoOn` is the safety half of `EveryCallReturns`: before the destructor,
no loop is ever under way with everybody asleep, waiting for `m_mutex` or standing
still for a loop of its own (`SomebodyGoesOn`), however deep loops nest and however
few workers there are. Besides the mutex (`MutexInv`) it needs that no wake-up is
lost (`NoLostWakeUp`), that nested calls form a forest (`NestInv`), and that some
worker is always free (`FreeWorker`): while `m_hasWork` is clear, the one that left
the loop last; while it is set, that same one, since every loop inside whatever it
runs finds the pool busy and goes on sequentially.

*Only model-checked*: `EveryCallReturns`, `ShutdownCompletes` (liveness).
*Not modelled*: a pool of no threads (`hardware_concurrency()` may return 0),
negative ranges (a shift of the range), wrap-around of the counter, bodies that
throw.

## 4. Tasks (`Tasks`, `MCTasks`, `TasksProofs`)

*Correspondence.* A thread is a host thread or a task. `Enter` and `Leave` are the
construction and destruction of the call-depth guard of `JITEngine::callFunction`;
when the depth reaches 0 the thread runs `flux_join_all_pending` (`SweepLock`,
one `SweepJoin` per entry, `SweepEnd`) with `g_thread_map_mutex` held, and frees
its allocations. `Spawn` starts the thread, `Register` enters it in the map under
the mutex: between the two the new thread already runs. `JoinTake` takes the entry
out under the mutex, `JoinReturn` waits for the thread outside it. Memory is
reduced to whose allocations a task uses: those of the host it descends from
(`root`). `context` says whether a task's `ThreadContext` is live or deleted.

| Run | Instance | Shows |
|---|---|---|
| `tasks_shared` | 2 hosts, 2 tasks, depth 2, 2 calls each; tasks may spawn and join | a context has one owner; no task outlives the call it descends from; while a thread is inside the runtime some thread can go on, and each does, unless a task has spawned a task |

The proviso of the last two, `SomebodyGoesOn` and `EveryThreadGoesOn`, is needed: the clean-up waits with the mutex
held, and if the task it waits for is itself about to register a task it spawned,
or to look a handle up, neither goes on.

*Bounds.* Two hosts are the least whose clean-ups meet each other's tasks, two
tasks the least where one spawns or joins the other; two calls show the state
left to the next call, depth 2 that only the outermost call cleans up.
*Fairness*: a thread inside a runtime function goes on and functions end; nobody
has to call, spawn or join. *Deadlock* is not checked: the system rests when all
calls are made.

*Proofs* (`TasksProofs`), for any hosts, any finite set of tasks and any bounds:
`TypeCorrect`, `OneOwnerEach`, `DeletesEnded` (each context is deleted once, after
its thread's end), `NoneOutlives`, `ThreadsGoOn`. `TypeOK` needs that
ids are given out one per task (`CountInv`) and that a host inside a call has a
positive depth (`DepthInv`). `OwnerInv` says what a thread inside `spawn` or `join`
and an entry of the map refer to, that two never refer to the same task, and that
handles are distinct; the exact count of `ContextHasOneOwner` and
`DeletedAfterEnd` follow from it. `NoTaskOutlivesCall` needs an argument of another
kind (`SweepEndLineage`): a task that ran on after its host's clean-up would not
be in the map, so a thread would hold it, in a spawn or a join; that thread is its
parent, a running task of the same host (`HolderInv`), of which the same can be
said; but no set of tasks descends from itself (`TreeInv`).

`ThreadsGoOn` is the safety half of `EveryThreadGoesOn`. Whoever is inside the
runtime and cannot go on waits for the mutex, which only a clean-up keeps across
steps (`HeldInv`), or for a task that has not ended (`Blocked`); such a task, if
it cannot go on, is in a spawn or a join itself (`TaskWaits`). Threads that join
one another's tasks are no circle, again by `TreeInv`: a task is joined only by
its parent or its host.

*Only model-checked*: `EveryThreadGoesOn` (liveness). *Not modelled*: a task's
value (a join returns it or 0), failure to create a thread.

## 5. Channels (`Fifo`, `Channel`, `MCChannel`, `ChannelProofs`)

*Correspondence.* `Fifo` is what a channel promises. In `Channel` each section
under the channel's mutex is an action and the notification after it, outside
the mutex, another: `Push`/`NotifyOne`, `RecvStep` (predicate and pop, or sleep),
`CloseMark`/`CloseNotify`, `DestroyMark`/`DestroyNotify`/`Delete`. The program
around it is the environment: senders with a number of messages each, receivers,
and an owner, one of the receivers, who closes the channel and destroys it after
joining everyone (`MayDestroy`). That it joins is an assumption about the program,
no property of the channel, whose operations do not count their users. The example
of `docs/FLUXSCRIPT.md` 2066-2073 does not join: there the receiver may destroy the
channel between a sender's push and its notification, which then touches freed
memory. What such a program does has no meaning to model.

| Run | Instance | Shows |
|---|---|---|
| `channel_shared` | 2 senders with 2 messages each, 3 receivers with 2 receives each, close and destroy | `Channel` implements `Fifo`, liveness included (`ImplementsFifo`); every message sent before the close is received exactly once and in its sender's order (`Delivery`); a message is never left in the queue with a sleeping receiver and nothing under way (`NoMessageUnannounced`); nobody sleeps past the end of the channel (`SleepersAreWoken`) |

The refinement mapping takes `queue`, `closed` and `got` as they are and
`receiving` to the receivers inside `flux_chan_recv`, asleep or not. *Bounds*: two
messages are the least whose order can be broken; three receivers, one of them the
owner, the least of which two sleep when the channel is closed, so that one
notification is not enough. *Fairness*: a thread inside a channel operation goes on;
`Fifo` in turn promises that a receive that can return does.

*Proofs* (`ChannelProofs`), for any finite sets of senders and receivers and any
numbers of messages and receives: `TypeCorrect`; `Announced`, whose invariant is
inductive given the types (each action's lemma compares what the two sides of its
inequality lose); and `RefinesFifo`, that
initial states and steps of a channel are those of `Fifo` or change nothing of it.

`Delivers` is what the threads around a channel see. `Delivery` has four parts:
nothing is received twice, each receiver gets a sender's messages in order, what
was sent has arrived or is in the queue unless it was sent after the close, and a
receive yields nothing only once the channel is closed and drained. It is
inductive with three more (`DeliveryInv`): the queue is in order, it is later than
what was received, and holds only what was sent. `Woken` (`SleepersAreWoken`) and
`Announced` are the safety half of the liveness in `ImplementsFifo`: a receiver that
sleeps past a message, or past the end of the channel, does so only while somebody
is on the way.

*Only model-checked*: the progress half of `ImplementsFifo`. *Not modelled*:
spurious wake-ups (a sleeper that wakes re-evaluates the same predicate), the
map from handles to channels (handles are addresses), more than one channel.

## 6. JIT manager (`JITManager`, `MCJITManager`, `JITManagerProofs`)

*Correspondence.* Every public method that changes the registry holds the mutex
from beginning to end and is one action. `evaluateComponent` takes no mutex; a
call of it from outside is `EvalBegin`/`EvalEnd`, by an evaluator thread. A JIT
instance is a number and a function pointer is the instance that holds its code;
`codeOf` is the source an instance was given. `fate` is what compiling a source
comes to: a module with the function, a module without it, no module, or an
empty source; `Compiled` is what `compileSource` (279-368) makes of the component
in each case, and `hotReloadComponent` is that with the old state put back.
`restored` is history: the names whose validity a host has put back with
`setComponentState`.

| Run | Instance | Shows |
|---|---|---|
| `jit_manager` | 2 names, 4 sources (one per fate), 2 instances, 1 evaluator | buffers belong to registered components; `total_components` counts them; a valid component runs its own source; its function belongs to the instance it owns |

`UpdateFuncLive` has an exception: a compilation that gives no module has already
destroyed the instance the pointer leads into, and returns before it stores
another. The component is then in the error state, but `evaluateComponent` tests
only that the pointer is not null.

*Bounds.* Two names are the least of which one can disturb the other; `MaxJits`
caps the instances ever created at 2, so that a component can be compiled twice or
both once; `MaxTime` the clock; `Tabled` the names with buffers and probes (one).
`Concurrent = FALSE` lets hosts change the registry only between evaluations: the
code gives an evaluator that runs while its component is recompiled no guarantee.
*Deadlock* is not checked: instances run out.

*Proofs* (`JITManagerProofs`), for any finite set of names, any sources and fates
and any number of instances: `TypeCorrect`, `TablesFit`, `ValidRuns`, `FunctionLive`.
`TablesAgree`, what the run checks, is `TotalCounts` and `BuffersRegistered` together
(`CountsComponents`, `BuffersBelong`); `TypeOK` is proved and not listed in the run.
`RegistryInv` is the inductive invariant of all of these: `TypeOK` needs the exact count, because `unregisterComponent` decrements it,
and the count needs that nothing is registered before `initialize`. `SourceInv` adds
for `ValidRuns` that each component's instance is older than the next one to be
created, so that filling that one in does not change what any component runs.
`CompileSourceRegistry`, `ContentsRegistry`, `CompileSourceSource` and
`ContentsSource` are the frame lemmas the actions' lemmas go through. The
assumptions are `SourcesAssumption`, `BoundsAssumption` and `NamesAssumption`.

*Not modelled*: evaluation counts and times, values in buffers, states and
probes, `generateWaveform` and `evaluateSignal` (they change nothing).
`active_components` is kept but no property is stated of it: it is incremented by
each successful compilation and never decremented.

## 7. Hot reload (`HotReload`, `MCHotReload`, `JITManagerProofs`)

*Correspondence.* `HotReload` extends `JITManager` with `m_transactions` and the
method under way (`hot`). `HotReloadManager` has a mutex of its own, so its
methods exclude each other but not those of `JITManager`: `prepareReload` is two
actions (`PrepareRead`, `PrepareStore`) and `executeReload` three (`ExecuteFind`,
`ExecuteMoveJit`, `ExecuteSetFields`), between which, with `Concurrent`, any
action of `JITManager` may happen (`ManagerStep`). The comment at
`scaling_security.cpp` 164, "Atomic swap (under JIT manager lock)", is not what the
code does: `executeReload` holds its own manager's mutex only. If the component it
has in hand is erased meanwhile, its pointer dangles and the call has no outcome
to model: it is "lost", and no reload comes after it. Which of several ready transactions is
executed (the map's order) is left open. A `prepareReload` that fails stores
nothing and is left out.

| Run | Instance | Shows |
|---|---|---|
| `hot_reload` | 2 names (symmetric), 2 sources, 2 instances, `Concurrent`: reloads and the manager's methods overlap | a ready transaction holds fresh code nobody else holds; `update_func` and `eval_func` lie in the instance their component owns, but for what `executeReload` does not see to |

`FunctionsLive` is about both functions of a component: `update_func`, which
`evaluateComponent` calls, and `eval_func`, which `generateWaveform` and
`evaluateSignal` call (`jit_manager.cpp` 633, 661). It names what `executeReload`
leaves behind, each of which occurs in the run. `eval_func` is not among the fields
it sets (165-169): from the swap until the component is compiled again it points into
the instance the swap destroyed (`swapped`). `update_func` is set after the instance is
replaced: in between (`Swapping`) it points into the destroyed one, and if another
thread compiles the component there, `executeReload` sets it to the instance that
compilation has destroyed (`crossed`). Besides these, a recompilation that yields no
module leaves a function of the instance it destroyed (section 6; the sources of
this run all yield one). Evaluations change none of these fields, so that the run has
no evaluators.

*Proofs* (`JITManagerProofs`), for any components, sources and number of instances:
`HotTypeCorrect` (not listed in the run), `ReadyCode` and `FunctionsInPlace`
(`FunctionsLive`), whether or not hosts call both managers at a time. The invariant, `HotInv`,
says that the instance a transaction holds, stored or still under way, was made
before the next one and is nobody else's. Every step of the manager gives
components new instances or leaves them their own (`CodeStep`, `FreeStep`), and so
takes none from a transaction; one lemma for that stands for all its actions.
`FuncInv` adds what holds between the moves of `executeReload`. Besides the
assumptions of section 6 it takes that `None` is no transaction
(`TransactionAssumption`).

Safety only, no fairness: hosts may stop at any point of the protocol. *Deadlock* is
not checked: instances run out. A rollback puts the old source text and state back
but not the old code, which the swap has destroyed: the component then runs its new
code under its old source, and no property says otherwise.

## 8. Simulation (`SimulationController`, `MCSimulationController`, `SimulationControllerProofs`)

*Correspondence.* The controller, the manager of behavioural sources and the
ngspice hook have a `std::mutex` each (`owner`). A thread is idle or inside one
method (`pc`), and `wants` is the mutex it waits for; `Acquire` takes it, and the
part of a method between two acquisitions is one action. A method that calls
another one of the same object goes on at that method and waits for the mutex it
holds, as the code does: `Finalize` at `stop`, `CompileAll` at `compile`,
`Netlist` at `evaluate`, `OnTimeStep` at `node`. The host's callbacks run with the
controller's mutex held and return or ask the controller something (`Callback`).
`JITManager`'s mutex is taken last and given back at once; its calls are parts of
actions (`jitCode` is what it runs under a name). `m_end_time` is never set in the
code, so that progress is never reported.

| Run | Instance | Shows |
|---|---|---|
| `simulation` | 2 threads: one drives the simulation and owns the sources, one watches, pauses, stops and steps the hook; 1 source, 2 expressions, times 0-1 | every wait leads to a thread that goes on or waits for itself; a run is not interrupted between two of its steps; a source runs its own expression; every method returns unless a thread waits for itself |

What the exceptions in these properties stand for: `finalize`, `compileAllSources`
and `startSimulation` with a source, `generateNetlist` with a source and
`onTimeStep` with a component never return, and every method that then needs
their mutex waits with them; a pause or stop from another thread waits until a run
is over, so that the loop's tests of the flags never end it; a name unregistered
and registered again keeps running the first expression (`reused`).

*Bounds.* One source with two expressions is the least that can be replaced; two
threads the least that can wait for each other, though a chain of two waits
(`EveryWaitEnds`) takes a third, for which the theorem stands; `MaxTime` 1 gives a run of two steps.
`Calls` divides the methods among the threads, which keeps the instance small; the
proofs are for any division. *Fairness*: a thread inside a method goes on, and gets
a mutex that is free again and again (strong fairness per thread, as other
threads may take it in between; `std::mutex` promises no order, but neither does
it starve a thread for ever in practice). *Deadlock* is not checked: threads do
wait for themselves.

*Proofs*, for any threads, sources, expressions and any division of the methods:
`TypeCorrect`, `LocksOrdered`, `WaitsEnd`, `RunUninterrupted`, `SourceRuns`.
`LockInv` says which mutexes a thread may hold at each place (`Fits`), also one
that waits for itself; `LocksAreOrdered` is a part of it, and that the controller's
mutex is held throughout a run makes `RunIsNotInterrupted` inductive. `WaitsEnd` is
the safety half of `EveryCallReturns`. A thread that holds a mutex and waits for
none goes on (`HolderProceeds`); one that holds the sources' or the hook's waits for
none but itself, and only the controller's holder may wait for one of those two, so
that a chain of waits has two links at most.

*Only model-checked*: `EveryCallReturns`. *Not modelled*: voltages, node and vector
tables, statistics, the netlist's text, and the walk of `onTransientTimestep` over a
table that another thread changes without the mutex (the model reads it once).

## 9. Tiered JIT (`FluxJIT`, `MCFluxJIT`, `FluxJITProofs`)

*Correspondence.* The code under a name is of one of three kinds: plain (as its
module was compiled), host (native: registered by the host or found in the process)
or promoted (compiled again from saved IR). `addModule` runs under `JITEngine`'s
compile mutex, one call at a time: `AddModule` begins it, `AddCheck` compares one
function with `m_moduleSymbols`, `AddSave` saves the IR of those that stay external
(and ends it if the verifier refuses the module), `AddLink` gives the module to ORC,
`AddSymbols` and `AddCounts` record its names and set their counters up.

The other three functions take no compile mutex: any thread may be inside one
between the steps of an `addModule`. `registerFunction` is `RegisterPointer` (the
address is cached, 1059-1062), `RegisterDefine` (ORC and dlsym get it) and
`RegisterSymbol` (the name is reserved, 1091-1094). `getPointerToFunction` is `Lookup`,
`Resolve` (ORC), `Fallback` (dlsym), `Store` and `Count`; `promoteFunction`, which any
host may call for any name (`PromoteCall`), `PromoteCheck`, `PromoteOriginal`,
`PromoteSaved`, `PromoteLink` and `Redirect`. Each section under `m_fnMapMutex` and
each call of ORC is an action. ORC and the process's symbols are external, modelled
by what these calls observe of them (`home`, `processSymbols`; which names the process
defines is left open). `Redirectable` are the kinds of code the promoted code is
within a 32-bit jump of. The code uses `m_savedModules` and `m_callCounts` outside the
mutex too, which C++ gives no meaning when two threads do so at once; the model
takes each such use as atomic.

| Run | Instance | Shows |
|---|---|---|
| `jit_tiers` | 2 threads (symmetric), 1 function, which the process may define too, 4 modules: two that define it, one the verifier refuses, one ORC refuses; threshold 2 | every pointer to a promoted function, embedded in a module or cached before or after, leads to the promoted code; a name that was registered in time keeps the host's code; what is compiled again is a definition its module exported |
| `tiers_private` | 1 thread, 2 functions, 2 modules | *violation*: a promoted function calls what is public under a name where its plain code calls its module's own duplicate |

*What the properties leave out*, each of which the run reaches:

- `AllCallersRedirected` counts among the pointers to a function those that the code
  of modules calls it by (JIT-to-JIT callers). It leaves out names in `unseen`:
  `promoteFunction` reads the address to redirect from the cache of lookups
  (837-843), and where nobody has looked the function up it finds none and writes
  no jump (928), so that the modules that call it stay with the plain code. The
  comment at 927, "This redirects ALL existing callers", and test 9 of
  `test_tiered_jit.cpp` (382-422), which promotes a function in this way and only
  checks the result of the call, expect the jump.
- It also leaves out names in `native`: where the host's or the process's address was
  found under a name that a module exports, it may be that address that is
  redirected.
- `HostCodeIntact` is about the names in `first`, for which `registerFunction` ended
  before any module that defines them had them past its check; they are then private
  to every such module, which may be in the middle of its `addModule`. Where a module
  is past its check, or is added between the sections of `registerFunction`, the cache
  holds the host's address beside the module's counter: a promotion then writes its
  jump over the host's code. The same holds for a function of the process that was
  looked up before a module defined it.

*Bounds.* Threshold 2 needs a count that survives a call; two threads can both be
past `PromoteCheck`, or one register what the other looks up; four modules give each
way `addModule` can end, after one another. Profiling, off by default, is left out.
*Deadlock* is not checked; safety only.

*Proofs*, for any modules, functions, threads and thresholds: `TypeCorrect`,
`HostIntact`, `Redirected`, `PromotesDefinitions`. `Redirected` (`TierInv`) needs that
the first thread to promote a function read the plain code's address before, and is
going to redirect it (`Pending`), and that native code is found under `native` names
only. `HostIntact` (`ReservedInv`) rests on `Reserved`: while each module that defines a
name keeps it private or has yet to compare it, no module is linked or saved under
it, so that nothing can be promoted; a name in `m_moduleSymbols` that is reserved
stays so. `PromotesDefinitions` (`SavedInv`) needs how the steps of `addModule` fit: a
module is added once, saves the IR of a name before it is linked under that name,
and one that was not linked then never is.

*Not modelled*: object files, optimisation levels, target set-up, the profiler.

## 10. JIT cache (`JITEngine`, `MCJITEngine`, `JITEngineProofs`)

*Correspondence.* `compileScript` computes the key (`CompileScript`), loads both
files (`LoadBitcode`, `LoadTypes`) or compiles (`Compile`, `CompileFails`) and writes
them: opening a file truncates it (`OpenBitcode`, `OpenTypes`), writing fills it
(`WriteBitcode`, `WriteTypes`), and a write to a file that was removed meanwhile is
lost (`fd`). `Restart` is a process that ends or dies at any point and is started
again. Each process numbers its top-level expressions from 0, and the number is
part of the name under which the code is linked (`linked`).

| Run | Instance | Shows |
|---|---|---|
| `jit_cache` | 2 processes (symmetric), 2 scripts, 2 compilations, 1 edit or restart | an entry fits its key; a process that loaded only its own bitcode runs what it compiled, with the type it was compiled to return |

The scripts differ in the two ways that matter: the value of one is a vector, of
the other a number; the import of one leads the script, that of the other does
not. The properties have provisos, each of which the code needs. *foreign*: the
bitcode of another process, or of the same one before a restart, defines its
expression under a number the loading process may have given to another, and ORC
then keeps the old code. *overlapped*: while one call goes on, another call or a
clearing may leave the two files of an entry from different compilations. *leads*:
only imports at the top of a script are hashed, so that an edited module that is
imported later is not seen. Not in the model: a script of definitions only, after
which the previous expression is run again.

*Bounds.* Two processes are the least that race for a key; `MaxCompilations` 2 lets
one compile after the other, or one process both scripts; `MaxEvents` 1 is one edit
or one death. *Deadlock* is not checked: compilations run out. Safety only.

*Proofs*, for any processes, scripts and bounds: `TypeCorrect`, `EntriesFit`,
`RunsCompiled`, `TypesFit`. `EntryFitsKey` needs that what a call has made or loaded is of the
call's script and as new as its key (`CallInv`); `RunsWhatItCompiled` that a process
never gives two artifacts one number (`NumberInv`), wherever they have been stored
since. `TypesFitCode` needs that while no two calls overlap (`OneCall`) the two
files of an entry are of the same compilation unless their process is about to
write the second (`EntryOK`); what a process left half written when it died has
the number of an earlier life, so that whoever loads it has loaded foreign code.

*Not modelled*: `callFunction` by name, profiling, debugging and symbol queries.

## 11. Dependency resolver (`DependencyResolver`, `MCDependencyResolver`, `DependencyResolverProofs`)

*Correspondence.* The recursion of `resolveRecursive` is a stack of packages, each
with its next dependency: `CallRoot` and `CallDependency` make a call, `EnterResolved`,
`EnterSelect` and `EnterFail` are its outcomes, `Return` leaves a package. A failure
unwinds everything. Versions are numbered in their order, 0 being 0.0.0, which the
code takes for "none". The registry is any (`Registries`).

| Run | Instance | Shows |
|---|---|---|
| `dependency_resolver` | every registry of 2 packages with 2 versions each, over a third with 3; 3 requests; `MaxDepth` 100 | a success satisfies every constraint; a failure means that no set of newest versions does; each step uses up a dependency or a package, and the search ends |

*Bounds.* Two packages with two versions are the least that can depend on each
other in a circle and rule each other's versions out; four constraints (any,
older, newer, a caret range) decide between the versions. With three packages the
search is never 100 calls deep: the test of the limit is in the model, its failure
is not reached by the run. *Fairness*: the resolver
goes on (weak fairness of `Next`): it is one thread that waits for nothing.

*Proofs*, for any packages, registries, requests and any number of versions:
`TypeCorrect` (not listed in the run), `SuccessSolves`. `SearchInv` says what holds in the middle of the
recursion: the dependencies each call has gone through are met, but for the one it
is just calling itself for, and so are all those of packages that are resolved
and not on the stack; selecting a version takes nothing back (`EnterSelectStep`).
`NewestFound`, on which a reader relies when a resolution fails, holds for every
registry of no more packages than `MaxDepth`: the search never takes anything but
newest versions, so that it stays inside any set of packages whose newest versions
fit together (`FollowsInv`), and since no package is on the stack twice (`StackInv`)
it does not get as deep as the limit.

`Advances`, for a finite set of packages, is why the search ends without looking
at what the packages require. Every step that does not end it raises `Effort` by
one, which counts the calls made, those entered and the packages returned from, and
`Effort` never exceeds `EffortLimit`, fixed by the registry and the request. A
dependency is not gone through twice because a package is on the stack once and,
when it has returned, stays resolved; circles among the packages change nothing.

*Only model-checked*: `ResolutionEnds` (liveness).

*Not modelled*: parsing of versions, pre-releases, the error's text. The package
manager does not use the resolver.

## 12. Disagreements between the code and its comments

Two are runs of their own that TLC finds violated; PROJECT.json quotes the lines.

- `dispatch` does not wait for all workers (`pool_barrier`): `m_doneCount` counts how
  often workers leave the loop, and one that is early leaves it twice.
- A promoted function may call another module's function than its plain code does
  (`tiers_private`): duplicates become private to their module, but the saved IR
  refers to them by their public names.

Three more are visible in the models as what a property leaves out:

- Promoting a function that was never looked up redirects nobody, although the
  comment at `flux_jit.cpp` 927 says "ALL existing callers" (section 9).
- `executeReload` does not swap "under JIT manager lock", as the comment at
  `scaling_security.cpp` 164 says, nor is the swap complete: `eval_func` keeps pointing
  into the old instance (section 7).
- A registration that overlaps an `addModule` of the same name does not "prevent
  duplicate definition conflicts" (`flux_jit.cpp` 1089): the name is reserved last,
  after the address was cached and defined (section 9).

## 13. What is not modelled, and why

The compiler's front end and code generation, the largest part of the
repository, are sequential programs whose correctness is the meaning of the
language, not a state machine; numerics are floating point; the tools are user
sessions over the engine. That is why these models, which cover the runtime's and
the JIT's shared state, stand for a small part of the lines. Of the parts with
state, those left out are behind one mutex, or local to one call, or hold nothing
another part relies on; PROJECT.json lists each with its reason, and the hazards
that were seen in them (zero-copy mappings that outlive a buffer, the module
loader's compiled files, timeouts that abandon a thread) without a property.

TLAPS proves safety only. Of the liveness properties, `ShutdownCompletes` apart, the
safety half is proved: that nothing under way is ever without a thread that can
go on (`NestedLoopsGoOn`, `ThreadsGoOn`, `Woken`, `WaitsEnd`), or that there are
finitely many steps to take (`Advances`). That fair threads then get there
(`EveryCallReturns` twice, `ShutdownCompletes`, `EveryThreadGoesOn`,
`ResolutionEnds`, the progress half of `ImplementsFifo`) stays with TLC, on the
instances above; `CanGo` and `CanProceed` are written out, as ENABLED is out of the
prover's reach too. Every safety property of a passing run is a theorem. No run
lists what `DeletesEnded`, `LocksOrdered`, `CountsComponents` and `BuffersBelong`
state, nor three of the type invariants: the theorems say more than an
instance would.
