------------------------------- MODULE Tasks -------------------------------
(***************************************************************************)
(* spawn and join of src/runtime/threading/threading_runtime.cpp, and the  *)
(* end of a top-level call: JITEngine::callFunction counts its nesting on  *)
(* the calling thread, and when the outermost call ends every task of the  *)
(* process that is still registered is joined and the thread's allocations *)
(* are freed.                                                              *)
(*                                                                         *)
(* A thread is a host thread, which calls functions, or a task.  Memory a  *)
(* task receives belongs to the host thread it descends from (its root).   *)
(* A join takes the entry out of the map under g_thread_map_mutex and      *)
(* waits outside it; the clean-up waits inside it.                         *)
(***************************************************************************)
EXTENDS Naturals, FiniteSets

CONSTANTS
    Hosts,      \* threads that call JITEngine::callFunction
    Tasks,      \* spawned threads; each is born at most once
    None,
    MaxDepth,   \* bound of a host's nested calls (FLUX_MAX_CALL_DEPTH)
    MaxCalls    \* how many top-level calls a host makes

Threads == Hosts \cup Tasks
Ids == 1 .. Cardinality(Tasks)

ASSUME ThreadsAssumption == /\ Hosts \cap Tasks = {}
                            /\ None \notin Threads
                            /\ IsFiniteSet(Tasks)
ASSUME BoundsAssumption == MaxDepth \in Nat \ {0} /\ MaxCalls \in Nat

VARIABLES
    g_thread_map,    \* the pending tasks by id; None: no entry
    g_next_thread_id,
    mutex,           \* the thread that holds g_thread_map_mutex across steps
    depth,           \* g_jit_call_depth of each host thread
    pc,
    target,          \* the task a thread is creating or waiting for
    calls,           \* how many top-level calls each host has made
    context,         \* what became of each task's ThreadContext
    handle,          \* the id spawn returned for each task, 0 before it has
    root,            \* history: the host each task descends from
    parent,          \* history: the thread that spawned each task
    answers          \* history: what the joins of each task's handle returned

mapVars == <<g_thread_map, g_next_thread_id>>
history == <<root, parent, answers>>
vars == <<mapVars, mutex, depth, pc, target, calls, context, handle, history>>

HostPc == {"out", "script", "spawned", "joining", "leaving", "sweeping"}
TaskPc == {"unborn", "script", "spawned", "joining", "ended"}

Running(t) == pc[t] \notin {"unborn", "ended"}
Root(th) == IF th \in Hosts THEN th ELSE root[th]

Init ==
    /\ g_thread_map = [n \in Ids |-> None] /\ g_next_thread_id = 1
    /\ mutex = None
    /\ depth = [h \in Hosts |-> 0]
    /\ pc = [th \in Threads |-> IF th \in Hosts THEN "out" ELSE "unborn"]
    /\ target = [th \in Threads |-> None]
    /\ calls = [h \in Hosts |-> 0]
    /\ context = [t \in Tasks |-> "none"]
    /\ handle = [t \in Tasks |-> 0]
    /\ root = [t \in Tasks |-> None] /\ parent = [t \in Tasks |-> None]
    /\ answers = [t \in Tasks |-> {}]

Goto(th, l) == pc' = [pc EXCEPT ![th] = l]

\* The threads whose script may call spawn and join.
Scripting(th) == pc[th] = "script"

----------------------------------------------------------------------------
\* Mutant: a call from outside is not counted.
EnterUncounted(h) ==
    /\ \/ pc[h] = "out" /\ calls[h] < MaxCalls /\ calls' = [calls EXCEPT ![h] = @ + 1]
       \/ pc[h] = "script" /\ depth[h] < MaxDepth /\ UNCHANGED calls
    /\ depth' = [depth EXCEPT ![h] = IF pc[h] = "out" THEN 0 ELSE @ + 1]
    /\ Goto(h, "script")
    /\ UNCHANGED <<mapVars, mutex, target, context, handle, history>>

\* callFunction constructs its CallDepthGuard: from outside, or from a native
\* function the script called.
Enter(h) ==
    /\ \/ pc[h] = "out" /\ calls[h] < MaxCalls /\ calls' = [calls EXCEPT ![h] = @ + 1]
       \/ pc[h] = "script" /\ depth[h] < MaxDepth /\ UNCHANGED calls
    /\ depth' = [depth EXCEPT ![h] = @ + 1]
    /\ Goto(h, "script")
    /\ UNCHANGED <<mapVars, mutex, target, context, handle, history>>

\* Mutant: the outermost call ends without the clean-up.
LeaveNoSweep(h) ==
    /\ pc[h] = "script"
    /\ depth' = [depth EXCEPT ![h] = @ - 1]
    /\ Goto(h, IF depth[h] = 1 THEN "out" ELSE "script")
    /\ UNCHANGED <<mapVars, mutex, target, calls, context, handle, history>>

\* The guard's destructor: flux_dec_call_depth.
Leave(h) ==
    /\ pc[h] = "script"
    /\ depth' = [depth EXCEPT ![h] = @ - 1]
    /\ Goto(h, IF depth[h] = 1 THEN "leaving" ELSE "script")
    /\ UNCHANGED <<mapVars, mutex, target, calls, context, handle, history>>

\* flux_join_all_pending takes the mutex and keeps it.
SweepLock(h) ==
    /\ pc[h] = "leaving"
    /\ mutex = None
    /\ mutex' = h
    /\ Goto(h, "sweeping")
    /\ UNCHANGED <<mapVars, depth, target, calls, context, handle, history>>

\* One turn of its loop, in the order of the hash table (any order).  An entry
\* stays in the map until the loop is over.
SweepJoin(h, n) ==
    /\ pc[h] = "sweeping"
    /\ g_thread_map[n] # None
    /\ context[g_thread_map[n]] = "live"
    /\ pc[g_thread_map[n]] = "ended"
    /\ context' = [context EXCEPT ![g_thread_map[n]] = "deleted"]
    /\ UNCHANGED <<mapVars, mutex, depth, pc, target, calls, handle, history>>

\* Mutant: the mutex is not released.
SweepEndLocked(h) ==
    /\ pc[h] = "sweeping"
    /\ \A n \in Ids : g_thread_map[n] # None => context[g_thread_map[n]] = "deleted"
    /\ g_thread_map' = [n \in Ids |-> None]
    /\ Goto(h, "out")
    /\ UNCHANGED <<g_next_thread_id, mutex, depth, target, calls, context, handle, history>>

\* The loop ends: g_thread_map.clear(), unlock, and the thread's allocations
\* are freed.
SweepEnd(h) ==
    /\ pc[h] = "sweeping"
    /\ \A n \in Ids : g_thread_map[n] # None => context[g_thread_map[n]] = "deleted"
    /\ g_thread_map' = [n \in Ids |-> None]
    /\ mutex' = None
    /\ Goto(h, "out")
    /\ UNCHANGED <<g_next_thread_id, depth, target, calls, context, handle, history>>

----------------------------------------------------------------------------
\* flux_spawn starts the thread; it runs from here on.
Spawn(th, t) ==
    /\ Scripting(th)
    /\ pc[t] = "unborn"
    /\ pc' = [pc EXCEPT ![th] = "spawned", ![t] = "script"]
    /\ target' = [target EXCEPT ![th] = t]
    /\ context' = [context EXCEPT ![t] = "live"]
    /\ root' = [root EXCEPT ![t] = Root(th)]
    /\ parent' = [parent EXCEPT ![t] = th]
    /\ UNCHANGED <<mapVars, mutex, depth, calls, handle, answers>>

\* It then registers the task under the mutex and returns the id.
Register(th) ==
    /\ pc[th] = "spawned"
    /\ mutex = None
    /\ g_thread_map' = [g_thread_map EXCEPT ![g_next_thread_id] = target[th]]
    /\ g_next_thread_id' = g_next_thread_id + 1
    /\ handle' = [handle EXCEPT ![target[th]] = g_next_thread_id]
    /\ target' = [target EXCEPT ![th] = None]
    /\ Goto(th, "script")
    /\ UNCHANGED <<mutex, depth, calls, context, history>>

\* Whether th knows t's handle: it spawned t, or is the host t descends from.
Knows(th, t) == handle[t] # 0 /\ (parent[t] = th \/ root[t] = th)

\* Mutant: the entry is left in the map.
JoinTakeKeep(th, t) ==
    /\ Scripting(th)
    /\ Knows(th, t)
    /\ mutex = None
    /\ IF g_thread_map[handle[t]] = None
         THEN /\ answers' = [answers EXCEPT ![t] = @ \cup {"zero"}]
              /\ UNCHANGED <<target, pc>>
         ELSE /\ target' = [target EXCEPT ![th] = g_thread_map[handle[t]]]
              /\ Goto(th, "joining")
              /\ UNCHANGED answers
    /\ UNCHANGED <<mapVars, mutex, depth, calls, context, handle, root, parent>>

\* flux_join looks the handle up and takes the entry out of the map.
JoinTake(th, t) ==
    /\ Scripting(th)
    /\ Knows(th, t)
    /\ mutex = None
    /\ IF g_thread_map[handle[t]] = None
         THEN /\ answers' = [answers EXCEPT ![t] = @ \cup {"zero"}]
              /\ UNCHANGED <<g_thread_map, target, pc>>
         ELSE /\ target' = [target EXCEPT ![th] = g_thread_map[handle[t]]]
              /\ g_thread_map' = [g_thread_map EXCEPT ![handle[t]] = None]
              /\ Goto(th, "joining")
              /\ UNCHANGED answers
    /\ UNCHANGED <<g_next_thread_id, mutex, depth, calls, context, handle, root, parent>>

\* std::thread::join returns, the result is read and the context deleted.
JoinReturn(th) ==
    /\ pc[th] = "joining"
    /\ pc[target[th]] = "ended"
    /\ answers' = [answers EXCEPT ![target[th]] = @ \cup {"result"}]
    /\ context' = [context EXCEPT ![target[th]] = "deleted"]
    /\ target' = [target EXCEPT ![th] = None]
    /\ Goto(th, "script")
    /\ UNCHANGED <<mapVars, mutex, depth, calls, handle, root, parent>>

\* A task's function returns, and its thread stores the result and ends.
Finish(t) ==
    /\ pc[t] = "script"
    /\ Goto(t, "ended")
    /\ UNCHANGED <<mapVars, mutex, depth, target, calls, context, handle, history>>

ThreadCall(th) ==
    \/ \E t \in Tasks : Spawn(th, t) \/ JoinTake(th, t)
    \/ Register(th) \/ JoinReturn(th)

HostLeaves(h) == SweepLock(h) \/ (\E n \in Ids : SweepJoin(h, n)) \/ SweepEnd(h)

Next ==
    \/ \E th \in Threads : ThreadCall(th)
    \/ \E h \in Hosts : Enter(h) \/ Leave(h) \/ HostLeaves(h)
    \/ \E t \in Tasks : Finish(t)

(* A thread that is inside a runtime function goes on, and functions return *)
(* sooner or later; nobody has to call, spawn or join.                      *)
Fairness ==
    /\ \A th \in Threads : WF_vars(Register(th) \/ JoinReturn(th))
    /\ \A t \in Tasks : WF_vars(Finish(t))
    /\ \A h \in Hosts : WF_vars(HostLeaves(h))

Spec == Init /\ [][Next]_vars /\ Fairness
----------------------------------------------------------------------------
TypeOK ==
    /\ g_thread_map \in [Ids -> Tasks \cup {None}]
    /\ g_next_thread_id \in 1 .. Cardinality(Tasks) + 1
    /\ mutex \in Hosts \cup {None}
    /\ depth \in [Hosts -> 0 .. MaxDepth]
    /\ pc \in [Threads -> HostPc \cup TaskPc]
    /\ \A h \in Hosts : pc[h] \in HostPc
    /\ \A t \in Tasks : pc[t] \in TaskPc
    /\ target \in [Threads -> Tasks \cup {None}]
    /\ calls \in [Hosts -> 0 .. MaxCalls]
    /\ context \in [Tasks -> {"none", "live", "deleted"}]
    /\ handle \in [Tasks -> Ids \cup {0}]
    /\ root \in [Tasks -> Hosts \cup {None}]
    /\ parent \in [Tasks -> Threads \cup {None}]
    /\ answers \in [Tasks -> SUBSET {"result", "zero"}]

(* Every context that is not deleted can be reached by exactly one: the     *)
(* spawn that is registering it, one entry of the map, or one join.  So     *)
(* none is deleted twice, used after its deletion or leaked, whoever joins  *)
(* the same handle at the same time.                                        *)
ContextHasOneOwner ==
    \A t \in Tasks :
        context[t] = "live" =>
          Cardinality({th \in Threads : target[th] = t})
            + Cardinality({n \in Ids : g_thread_map[n] = t}) = 1

(* A context is deleted, and its result returned, only when its thread has  *)
(* ended: a running task still writes into it.                              *)
DeletedAfterEnd == \A t \in Tasks : context[t] = "deleted" => pc[t] = "ended"

(* When the outermost call of a host thread has returned, and its           *)
(* allocations are freed, no task that descends from that thread runs.      *)
NoTaskOutlivesCall ==
    \A h \in Hosts, t \in Tasks : pc[h] = "out" /\ root[t] = h => ~Running(t)

\* Inside a function of the runtime that may wait.
Inside(th) == pc[th] \in {"spawned", "joining", "leaving", "sweeping"}

\* A task's script goes on; whoever is inside the runtime goes on once the
\* mutex is free, or the thread it joins has ended.
CanGo(th) ==
    \/ th \in Tasks /\ pc[th] = "script"
    \/ pc[th] \in {"spawned", "leaving"} /\ mutex = None
    \/ pc[th] = "joining" /\ pc[target[th]] = "ended"
    \/ /\ pc[th] = "sweeping"
       /\ \/ \A n \in Ids : g_thread_map[n] # None => context[g_thread_map[n]] = "deleted"
          \/ \E n \in Ids : /\ g_thread_map[n] # None
                           /\ context[g_thread_map[n]] = "live"
                           /\ pc[g_thread_map[n]] = "ended"

(* Spawning and joining never lock up.  Threads that wait for each other's  *)
(* tasks, however deep tasks spawn tasks, never wait in a circle; and a     *)
(* clean-up, which waits with the mutex held, waits for nobody who needs it *)
(* unless a task has spawned a task.  No host has to do anything for it.    *)
SomebodyGoesOn ==
    (\E th \in Threads : Inside(th)) /\ (mutex = None \/ \A t \in Tasks : parent[t] \notin Tasks)
      => \E th \in Threads : CanGo(th)

(* No thread stays inside spawn, join or the clean-up, unless a task has    *)
(* spawned a task: the clean-up may then wait for one that needs the mutex. *)
EveryThreadGoesOn ==
    \A th \in Threads :
        Inside(th) ~>
        pc[th] \in {"script", "out"} \/ \E t \in Tasks : parent[t] \in Tasks
=============================================================================
