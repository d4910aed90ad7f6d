------------------------------ MODULE TasksProofs ------------------------------
(***************************************************************************)
(* Proofs about Tasks, for any hosts, any finite set of tasks and any      *)
(* bounds.                                                                 *)
(*                                                                         *)
(* TypeOK needs that ids are given out one per task (CountInv).            *)
(* ContextHasOneOwner and DeletedAfterEnd follow from what each thread and *)
(* each entry of the map refers to (OwnerInv). NoTaskOutlivesCall needs    *)
(* that whoever holds a task, in a spawn or a join, runs on behalf of the  *)
(* same host (HolderInv), and that tasks descend from each other without   *)
(* circles (TreeInv): so some running task would be in the map.            *)
(*                                                                         *)
(* SomebodyGoesOn is about the threads in spawn or join and the clean-ups: *)
(* whoever waits for the map's mutex or for a task's end waits for         *)
(* somebody that can go on, unless a task has spawned a task.              *)
(***************************************************************************)
EXTENDS Tasks, FiniteSetTheorems, TLAPS

Handled == {t \in Tasks : handle[t] # 0}

\* Ids are given out in turn, one for each task that was registered.
CountInv == g_next_thread_id = Cardinality(Handled) + 1

DepthInv ==
    \A h \in Hosts : /\ pc[h] \in {"out", "leaving", "sweeping"} => depth[h] = 0
                     /\ pc[h] \in {"script", "spawned", "joining"} => depth[h] > 0

PcOK ==
    /\ pc \in [Threads -> HostPc \cup TaskPc]
    /\ \A h \in Hosts : pc[h] \in HostPc
    /\ \A t \in Tasks : pc[t] \in TaskPc

\* TypeOK but for the thread id, which CountInv gives.
Shape ==
    /\ PcOK
    /\ g_thread_map \in [Ids -> Tasks \cup {None}]
    /\ mutex \in Hosts \cup {None}
    /\ depth \in [Hosts -> 0 .. MaxDepth]
    /\ target \in [Threads -> Tasks \cup {None}]
    /\ calls \in [Hosts -> 0 .. MaxCalls]
    /\ context \in [Tasks -> {"none", "live", "deleted"}]
    /\ handle \in [Tasks -> Ids \cup {0}]
    /\ root \in [Tasks -> Hosts \cup {None}]
    /\ parent \in [Tasks -> Threads \cup {None}]
    /\ answers \in [Tasks -> SUBSET {"result", "zero"}]

TypeInv == Shape /\ CountInv /\ DepthInv

\* What a thread inside spawn or join holds.
HoldOK(th) ==
    /\ pc[th] = "spawned" =>
         target[th] \in Tasks /\ handle[target[th]] = 0 /\ context[target[th]] = "live"
    /\ pc[th] = "joining" =>
         /\ target[th] \in Tasks /\ handle[target[th]] # 0 /\ context[target[th]] = "live"
         /\ \A n \in Ids : g_thread_map[n] # target[th]
    /\ target[th] # None => pc[th] \in {"spawned", "joining"}

Distinct == \A a, b \in Threads : target[a] # None /\ target[a] = target[b] => a = b

\* Between clean-ups the entries are of live tasks.
EntryOK(n) ==
    g_thread_map[n] # None =>
        /\ handle[g_thread_map[n]] = n
        /\ mutex = None => context[g_thread_map[n]] = "live"

Owned(t) == (\E th \in Threads : target[th] = t) \/ (\E n \in Ids : g_thread_map[n] = t)

TaskOK(t) ==
    /\ pc[t] = "unborn" <=> context[t] = "none"
    /\ pc[t] = "unborn" => handle[t] = 0
    /\ context[t] = "live" => Owned(t)
    /\ context[t] = "deleted" => pc[t] = "ended"

HandlesOK ==
    /\ \A t \in Tasks : handle[t] < g_next_thread_id
    /\ \A t, u \in Tasks : handle[t] # 0 /\ handle[t] = handle[u] => t = u

OwnerInv ==
    /\ \A th \in Threads : HoldOK(th)
    /\ Distinct
    /\ \A n \in Ids : EntryOK(n)
    /\ \A t \in Tasks : TaskOK(t)
    /\ HandlesOK
    /\ \A h \in Hosts : pc[h] = "sweeping" => mutex = h

\* A task was spawned on behalf of its host, by a thread that does the same.
LineageOK(t) ==
    pc[t] # "unborn" =>
        /\ root[t] \in Hosts /\ parent[t] \in Threads /\ Root(parent[t]) = root[t]
        /\ parent[t] \in Tasks => pc[parent[t]] # "unborn"

HolderInv ==
    \A th \in Threads : target[th] # None => parent[target[th]] = th \/ root[target[th]] = th

\* No set of tasks descends from itself.
TreeInv ==
    \A S \in SUBSET Tasks :
        S # {} /\ (\A t \in S : pc[t] # "unborn") => \E t \in S : parent[t] \notin S

LineageInv ==
    /\ \A t \in Tasks : LineageOK(t)
    /\ HolderInv /\ TreeInv /\ NoTaskOutlivesCall

IInv == TypeInv /\ OwnerInv /\ LineageInv
----------------------------------------------------------------------------
\* The number of tasks, and of those that have an id.
LEMMA Counts ==
    ASSUME handle \in [Tasks -> Ids \cup {0}]
    PROVE  /\ IsFiniteSet(Tasks) /\ Cardinality(Tasks) \in Nat
           /\ IsFiniteSet(Handled) /\ Cardinality(Handled) \in Nat
           /\ Cardinality(Handled) <= Cardinality(Tasks)
           /\ \A t \in Tasks \ Handled : Cardinality(Handled) < Cardinality(Tasks)
<1>1. IsFiniteSet(Tasks) /\ Handled \subseteq Tasks
  BY ThreadsAssumption DEF Handled
<1>2. IsFiniteSet(Handled) /\ Cardinality(Handled) <= Cardinality(Tasks)
        /\ (Cardinality(Handled) = Cardinality(Tasks) => Handled = Tasks)
  BY <1>1, FS_Subset
<1>3. Cardinality(Tasks) \in Nat /\ Cardinality(Handled) \in Nat
  BY <1>1, <1>2, FS_CardinalityType
<1> QED
  BY <1>1, <1>2, <1>3

LEMMA TypeInvType == TypeInv => TypeOK
<1> SUFFICES ASSUME TypeInv PROVE TypeOK
  OBVIOUS
<1>1. /\ Cardinality(Tasks) \in Nat /\ Cardinality(Handled) \in Nat
      /\ Cardinality(Handled) <= Cardinality(Tasks)
  BY Counts DEF TypeInv, Shape
<1>2. g_next_thread_id \in 1 .. Cardinality(Tasks) + 1
  BY <1>1 DEF TypeInv, CountInv
<1> QED
  BY <1>2 DEF TypeInv, Shape, PcOK, TypeOK

LEMMA Moves ==
    ASSUME PcOK, NEW th \in Threads, NEW l, pc' = [pc EXCEPT ![th] = l],
           th \in Hosts => l \in HostPc, th \in Tasks => l \in TaskPc
    PROVE  PcOK'
<1>1. Hosts \cap Tasks = {}
  BY ThreadsAssumption
<1> QED
  BY <1>1 DEF PcOK, Threads

LEMMA InitInv == Init => TypeInv /\ OwnerInv
<1> SUFFICES ASSUME Init PROVE TypeInv /\ OwnerInv
  OBVIOUS
<1>0. Hosts \cap Tasks = {} /\ None \notin Threads /\ MaxDepth \in Nat /\ MaxCalls \in Nat
  BY ThreadsAssumption, BoundsAssumption
<1>1. PcOK
  BY <1>0 DEF Init, PcOK, Threads, HostPc, TaskPc
<1>2. Shape
  BY <1>0, <1>1 DEF Init, Shape
<1>3. CountInv
  <2>1. Handled = {}
    BY DEF Init, Handled
  <2> QED
    BY <2>1, FS_EmptySet DEF Init, CountInv
<1>4. DepthInv
  BY DEF Init, DepthInv, Threads
<1>5. \A th \in Threads : HoldOK(th)
  BY DEF Init, HoldOK
<1>6. Distinct
  BY DEF Init, Distinct
<1>7. \A n \in Ids : EntryOK(n)
  BY DEF Init, EntryOK
<1>8. \A t \in Tasks : TaskOK(t)
  BY <1>0 DEF Init, TaskOK, Threads
<1>9. HandlesOK
  BY DEF Init, HandlesOK
<1>10. \A h \in Hosts : pc[h] # "sweeping"
  BY DEF Init, Threads
<1> QED
  BY <1>2, <1>3, <1>4, <1>5, <1>6, <1>7, <1>8, <1>9, <1>10 DEF TypeInv, OwnerInv
----------------------------------------------------------------------------
\* A host moves between places at which it holds nothing.
LEMMA HostMoves ==
    ASSUME TypeInv, OwnerInv, NEW h \in Hosts, NEW l \in HostPc \ {"spawned", "joining"},
           pc[h] \notin {"spawned", "joining"}, pc' = [pc EXCEPT ![h] = l],
           UNCHANGED <<mapVars, target, context, handle>>,
           \/ mutex' = mutex /\ l # "sweeping"
           \/ mutex = None /\ mutex' = h /\ l = "sweeping"
    PROVE  OwnerInv' /\ PcOK' /\ CountInv'
<1>0. /\ h \in Threads /\ Hosts \cap Tasks = {} /\ h # None /\ Shape
      /\ UNCHANGED <<g_thread_map, g_next_thread_id, target, context, handle>>
  BY ThreadsAssumption DEF Threads, mapVars, TypeInv
<1>1. PcOK'
  BY <1>0, Moves DEF Shape
<1>2. \A x \in Threads : x # h => pc'[x] = pc[x]
  BY <1>0 DEF Shape, PcOK
<1>3. pc'[h] = l
  BY <1>0 DEF Shape, PcOK
<1>4. \A t \in Tasks : pc'[t] = pc[t]
  BY <1>0, <1>2 DEF Threads
<1>5. CountInv'
  BY <1>0 DEF CountInv, Handled, TypeInv
<1>6. \A th \in Threads : HoldOK(th)'
  BY <1>0, <1>2, <1>3 DEF OwnerInv, HoldOK
<1>7. Distinct' /\ HandlesOK'
  BY <1>0 DEF OwnerInv, Distinct, HandlesOK
<1>8. \A n \in Ids : EntryOK(n)'
  BY <1>0 DEF OwnerInv, EntryOK
<1>9. \A t \in Tasks : TaskOK(t)'
  BY <1>0, <1>4 DEF OwnerInv, TaskOK, Owned
<1>10. \A g \in Hosts : pc'[g] = "sweeping" => mutex' = g
  BY <1>0, <1>2, <1>3, ThreadsAssumption DEF OwnerInv, Threads
<1> QED
  BY <1>1, <1>5, <1>6, <1>7, <1>8, <1>9, <1>10 DEF OwnerInv

LEMMA EnterStep == ASSUME TypeInv, OwnerInv, NEW h \in Hosts, Enter(h) PROVE TypeInv' /\ OwnerInv'
<1>0. /\ Shape /\ DepthInv /\ MaxDepth \in Nat \ {0} /\ MaxCalls \in Nat /\ h \in Threads
      /\ pc[h] \in {"out", "script"} /\ pc' = [pc EXCEPT ![h] = "script"]
      /\ depth' = [depth EXCEPT ![h] = depth[h] + 1]
      /\ UNCHANGED <<mapVars, mutex, target, context, handle, history>>
  BY BoundsAssumption DEF TypeInv, Enter, Goto, Threads
<1>1. OwnerInv' /\ PcOK' /\ CountInv'
  BY <1>0, HostMoves DEF HostPc
<1>2. depth[h] \in 0 .. MaxDepth /\ depth[h] + 1 \in 1 .. MaxDepth
  <2>1. pc[h] = "out" => depth[h] = 0
    BY <1>0 DEF DepthInv
  <2>2. pc[h] = "script" => depth[h] < MaxDepth
    BY DEF Enter
  <2> QED
    BY <1>0, <2>1, <2>2 DEF Shape
<1>3. depth' \in [Hosts -> 0 .. MaxDepth]
  BY <1>0, <1>2 DEF Shape
<1>4. calls' \in [Hosts -> 0 .. MaxCalls]
  <2>1. \/ calls[h] < MaxCalls /\ calls' = [calls EXCEPT ![h] = calls[h] + 1]
        \/ calls' = calls
    BY DEF Enter
  <2>2. calls \in [Hosts -> 0 .. MaxCalls] /\ calls[h] \in 0 .. MaxCalls
    BY <1>0 DEF Shape
  <2> QED
    BY <1>0, <2>1, <2>2
<1>5. Shape'
  BY <1>0, <1>1, <1>3, <1>4 DEF Shape, mapVars, history
<1>6. DepthInv'
  BY <1>0, <1>2 DEF DepthInv, Shape, PcOK
<1> QED
  BY <1>1, <1>5, <1>6 DEF TypeInv

LEMMA LeaveStep == ASSUME TypeInv, OwnerInv, NEW h \in Hosts, Leave(h) PROVE TypeInv' /\ OwnerInv'
<1> DEFINE l == IF depth[h] = 1 THEN "leaving" ELSE "script"
<1>0. /\ Shape /\ DepthInv /\ MaxDepth \in Nat \ {0} /\ h \in Threads
      /\ pc[h] = "script" /\ pc' = [pc EXCEPT ![h] = l]
      /\ depth' = [depth EXCEPT ![h] = depth[h] - 1]
      /\ UNCHANGED <<mapVars, mutex, target, calls, context, handle, history>>
  BY BoundsAssumption DEF TypeInv, Leave, Goto, Threads
<1>1. l \in HostPc \ {"spawned", "joining"} /\ l # "sweeping"
  BY DEF HostPc
<1>2. OwnerInv' /\ PcOK' /\ CountInv'
  <2> HIDE DEF l
  <2> QED
    BY <1>0, <1>1, HostMoves
<1>3. depth[h] \in 1 .. MaxDepth /\ depth[h] - 1 \in 0 .. MaxDepth
  BY <1>0 DEF Shape, DepthInv
<1>4. depth' \in [Hosts -> 0 .. MaxDepth]
  BY <1>0, <1>3 DEF Shape
<1>5. Shape'
  BY <1>0, <1>2, <1>4 DEF Shape, mapVars, history
<1>6. DepthInv'
  BY <1>0, <1>3 DEF DepthInv, Shape, PcOK
<1> QED
  BY <1>2, <1>5, <1>6 DEF TypeInv

LEMMA SweepLockStep ==
    ASSUME TypeInv, OwnerInv, NEW h \in Hosts, SweepLock(h) PROVE TypeInv' /\ OwnerInv'
<1>0. /\ Shape /\ DepthInv /\ h \in Threads
      /\ pc[h] = "leaving" /\ pc' = [pc EXCEPT ![h] = "sweeping"]
      /\ mutex = None /\ mutex' = h
      /\ UNCHANGED <<mapVars, depth, target, calls, context, handle, history>>
  BY DEF TypeInv, SweepLock, Goto, Threads
<1>1. OwnerInv' /\ PcOK' /\ CountInv'
  BY <1>0, HostMoves DEF HostPc
<1>2. Shape'
  BY <1>0, <1>1 DEF Shape, mapVars, history
<1>3. DepthInv'
  BY <1>0 DEF DepthInv, Shape, PcOK
<1> QED
  BY <1>1, <1>2, <1>3 DEF TypeInv

\* One entry is joined: its task was live, and has ended.
LEMMA SweepJoinStep ==
    ASSUME TypeInv, OwnerInv, NEW h \in Hosts, NEW n \in Ids, SweepJoin(h, n)
    PROVE  TypeInv' /\ OwnerInv'
<1> DEFINE t == g_thread_map[n]
<1>0. /\ Shape /\ CountInv /\ DepthInv /\ h \in Threads /\ pc[h] = "sweeping" /\ mutex = h
      /\ t # None /\ t \in Tasks /\ context[t] = "live" /\ pc[t] = "ended"
      /\ context' = [context EXCEPT ![t] = "deleted"]
      /\ UNCHANGED <<g_thread_map, g_next_thread_id, mutex, depth, pc, target, calls, handle,
                     root, parent, answers>>
  BY DEF TypeInv, OwnerInv, SweepJoin, Threads, Shape, mapVars, history
<1>1. handle[t] = n /\ mutex # None
  BY <1>0, ThreadsAssumption DEF OwnerInv, EntryOK
<1>2. \A u \in Tasks : u # t => context'[u] = context[u]
  BY <1>0 DEF Shape
<1>3. context'[t] = "deleted"
  BY <1>0 DEF Shape
<1>4. Shape' /\ CountInv' /\ DepthInv'
  BY <1>0 DEF Shape, PcOK, CountInv, Handled, DepthInv
<1>5. \A th \in Threads : target[th] # t
  <2> SUFFICES ASSUME NEW th \in Threads, target[th] = t PROVE FALSE
    OBVIOUS
  <2>1. HoldOK(th)
    BY DEF OwnerInv
  <2>2. n # 0
    BY DEF Ids
  <2> QED
    BY <1>0, <1>1, <2>1, <2>2 DEF HoldOK
<1>6. \A th \in Threads : HoldOK(th)'
  <2> SUFFICES ASSUME NEW th \in Threads PROVE HoldOK(th)'
    OBVIOUS
  <2>1. HoldOK(th)
    BY DEF OwnerInv
  <2> QED
    BY <1>0, <1>2, <1>5, <2>1 DEF HoldOK
<1>7. Distinct' /\ HandlesOK'
  BY <1>0 DEF OwnerInv, Distinct, HandlesOK
<1>8. \A m \in Ids : EntryOK(m)'
  BY <1>0, <1>1 DEF OwnerInv, EntryOK
<1>9. \A u \in Tasks : TaskOK(u)'
  <2> SUFFICES ASSUME NEW u \in Tasks PROVE TaskOK(u)'
    OBVIOUS
  <2>1. TaskOK(u)
    BY DEF OwnerInv
  <2>2. Owned(u)' <=> Owned(u)
    BY <1>0 DEF Owned
  <2> QED
    BY <1>0, <1>2, <1>3, <2>1, <2>2 DEF TaskOK
<1>10. \A g \in Hosts : pc'[g] = "sweeping" => mutex' = g
  BY <1>0 DEF OwnerInv
<1> QED
  BY <1>4, <1>6, <1>7, <1>8, <1>9, <1>10 DEF OwnerInv, TypeInv

\* The map is emptied: what was in it is deleted.
LEMMA SweepEndStep ==
    ASSUME TypeInv, OwnerInv, NEW h \in Hosts, SweepEnd(h) PROVE TypeInv' /\ OwnerInv'
<1>0. /\ Shape /\ CountInv /\ DepthInv /\ h \in Threads /\ pc[h] = "sweeping" /\ mutex = h
      /\ \A n \in Ids : g_thread_map[n] # None => context[g_thread_map[n]] = "deleted"
      /\ g_thread_map' = [n \in Ids |-> None] /\ mutex' = None
      /\ pc' = [pc EXCEPT ![h] = "out"]
      /\ UNCHANGED <<g_next_thread_id, depth, target, calls, context, handle, root, parent, answers>>
  BY DEF TypeInv, OwnerInv, SweepEnd, Goto, Threads, history
<1>1. PcOK'
  BY <1>0, Moves, ThreadsAssumption DEF Shape, HostPc
<1>2. Hosts \cap Tasks = {} /\ None \notin Tasks
  BY ThreadsAssumption DEF Threads
<1>3. /\ \A x \in Threads : x # h => pc'[x] = pc[x]
      /\ pc'[h] = "out" /\ \A t \in Tasks : pc'[t] = pc[t]
  BY <1>0, <1>2 DEF Shape, PcOK, Threads
<1>4. Shape' /\ CountInv'
  BY <1>0, <1>1 DEF Shape, CountInv, Handled
<1>5. DepthInv'
  BY <1>0, <1>3 DEF DepthInv, Threads
<1>6. \A th \in Threads : HoldOK(th)'
  <2> SUFFICES ASSUME NEW th \in Threads PROVE HoldOK(th)'
    OBVIOUS
  <2>1. HoldOK(th)
    BY DEF OwnerInv
  <2>2. th = h => target[th] = None
    BY <1>0, <2>1 DEF HoldOK
  <2>3. target[th] \in Tasks => \A n \in Ids : g_thread_map'[n] # target[th]
    BY <1>0, <1>2
  <2> QED
    BY <1>0, <1>3, <2>1, <2>2, <2>3 DEF HoldOK
<1>7. Distinct' /\ HandlesOK'
  BY <1>0 DEF OwnerInv, Distinct, HandlesOK
<1>8. \A m \in Ids : EntryOK(m)'
  BY <1>0 DEF EntryOK
<1>9. \A t \in Tasks : TaskOK(t)'
  <2> SUFFICES ASSUME NEW t \in Tasks PROVE TaskOK(t)'
    OBVIOUS
  <2>1. TaskOK(t)
    BY DEF OwnerInv
  <2>2. context[t] = "live" => \E th \in Threads : target'[th] = t
    BY <1>0, <1>2, <2>1 DEF TaskOK, Owned
  <2> QED
    BY <1>0, <1>3, <2>1, <2>2 DEF TaskOK, Owned
<1>10. \A g \in Hosts : pc'[g] # "sweeping"
  BY <1>0, <1>3 DEF OwnerInv, Threads
<1> QED
  BY <1>4, <1>5, <1>6, <1>7, <1>8, <1>9, <1>10 DEF OwnerInv, TypeInv

LEMMA SpawnStep ==
    ASSUME TypeInv, OwnerInv, NEW th \in Threads, NEW t \in Tasks, Spawn(th, t)
    PROVE  TypeInv' /\ OwnerInv'
<1>0. /\ Shape /\ CountInv /\ DepthInv /\ pc[th] = "script" /\ pc[t] = "unborn" /\ th # t
      /\ pc' = [pc EXCEPT ![th] = "spawned", ![t] = "script"]
      /\ target' = [target EXCEPT ![th] = t] /\ context' = [context EXCEPT ![t] = "live"]
      /\ root' = [root EXCEPT ![t] = Root(th)] /\ parent' = [parent EXCEPT ![t] = th]
      /\ UNCHANGED <<g_thread_map, g_next_thread_id, mutex, depth, calls, handle, answers>>
  BY DEF TypeInv, Spawn, Scripting, mapVars
<1>1. Hosts \cap Tasks = {} /\ None \notin Tasks /\ t \in Threads
  BY ThreadsAssumption DEF Threads
<1>2. /\ pc'[th] = "spawned" /\ pc'[t] = "script"
      /\ \A x \in Threads : x # th /\ x # t => pc'[x] = pc[x]
  BY <1>0, <1>1 DEF Shape, PcOK
<1>3. target'[th] = t /\ \A x \in Threads : x # th => target'[x] = target[x]
  BY <1>0 DEF Shape
<1>4. context'[t] = "live" /\ \A u \in Tasks : u # t => context'[u] = context[u]
  BY <1>0 DEF Shape
<1>5. PcOK'
  <2>1. PcOK /\ (th \in Hosts \/ th \in Tasks)
    BY <1>0 DEF Shape, Threads
  <2> QED
    BY <1>0, <1>1, <2>1 DEF PcOK, HostPc, TaskPc, Threads
<1>6. Root(th) \in Hosts \cup {None}
  BY <1>0 DEF Root, Shape, Threads
<1>7. Shape'
  BY <1>0, <1>5, <1>6 DEF Shape
<1>8. CountInv' /\ HandlesOK'
  BY <1>0 DEF CountInv, Handled, OwnerInv, HandlesOK
<1>9. DepthInv'
  <2> SUFFICES ASSUME NEW h \in Hosts
               PROVE  /\ pc'[h] \in {"out", "leaving", "sweeping"} => depth[h] = 0
                      /\ pc'[h] \in {"script", "spawned", "joining"} => depth[h] > 0
    BY <1>0 DEF DepthInv
  <2>1. h # t /\ h \in Threads
    BY <1>1 DEF Threads
  <2> QED
    BY <1>0, <1>2, <2>1 DEF DepthInv
\* Nobody held t, and no entry is t's.
<1>10. /\ handle[t] = 0 /\ context[t] = "none"
       /\ \A x \in Threads : target[x] # t
       /\ \A n \in Ids : g_thread_map[n] # t
  <2>1. handle[t] = 0 /\ context[t] = "none"
    BY <1>0 DEF OwnerInv, TaskOK
  <2>2. ASSUME NEW x \in Threads PROVE target[x] # t
    BY <1>1, <2>1 DEF OwnerInv, HoldOK
  <2>3. ASSUME NEW n \in Ids PROVE g_thread_map[n] # t
    <3>1. n # 0 /\ EntryOK(n)
      BY DEF Ids, OwnerInv
    <3> QED
      BY <1>1, <2>1, <3>1 DEF EntryOK
  <2> QED
    BY <2>1, <2>2, <2>3
<1>11. target[th] = None /\ target[t] = None
  <2>1. HoldOK(th) /\ HoldOK(t)
    BY <1>1 DEF OwnerInv
  <2> QED
    BY <1>0, <2>1 DEF HoldOK
<1>12. \A x \in Threads : HoldOK(x)'
  <2> SUFFICES ASSUME NEW x \in Threads PROVE HoldOK(x)'
    OBVIOUS
  <2>1. CASE x = th
    BY <1>0, <1>2, <1>3, <1>4, <1>10, <2>1 DEF HoldOK
  <2>2. CASE x = t
    BY <1>0, <1>2, <1>3, <1>11, <2>2 DEF HoldOK
  <2>3. CASE x # th /\ x # t
    <3>1. HoldOK(x) /\ pc'[x] = pc[x] /\ target'[x] = target[x] /\ target[x] # t
      BY <1>2, <1>3, <1>10, <2>3 DEF OwnerInv
    <3>2. target[x] \in Tasks => context'[target[x]] = context[target[x]]
      BY <1>4, <3>1
    <3> QED
      BY <1>0, <3>1, <3>2 DEF HoldOK
  <2> QED
    BY <2>1, <2>2, <2>3
<1>13. Distinct'
  <2> SUFFICES ASSUME NEW a \in Threads, NEW b \in Threads, target'[a] # None, target'[a] = target'[b]
               PROVE  a = b
    BY DEF Distinct
  <2> QED
    BY <1>3, <1>10 DEF OwnerInv, Distinct
<1>14. \A n \in Ids : EntryOK(n)'
  <2> SUFFICES ASSUME NEW n \in Ids, g_thread_map[n] # None
               PROVE  /\ handle[g_thread_map[n]] = n
                      /\ mutex = None => context'[g_thread_map[n]] = "live"
    BY <1>0 DEF EntryOK
  <2>1. EntryOK(n) /\ g_thread_map[n] \in Tasks /\ g_thread_map[n] # t
    BY <1>0, <1>10 DEF OwnerInv, Shape
  <2> QED
    BY <1>4, <2>1 DEF EntryOK
<1>15. \A u \in Tasks : TaskOK(u)'
  <2> SUFFICES ASSUME NEW u \in Tasks PROVE TaskOK(u)'
    OBVIOUS
  <2>1. CASE u = t
    <3>1. Owned(u)'
      BY <1>3, <2>1 DEF Owned
    <3> QED
      BY <1>0, <1>2, <1>4, <2>1, <3>1 DEF TaskOK
  <2>2. CASE u # t
    <3>1. TaskOK(u) /\ context'[u] = context[u] /\ u \in Threads
      BY <1>4, <2>2 DEF OwnerInv, Threads
    <3>2. pc'[u] = pc[u] \/ (pc[u] = "script" /\ pc'[u] = "spawned")
      BY <1>0, <1>2, <2>2, <3>1
    <3>3. Owned(u) => Owned(u)'
      BY <1>0, <1>1, <1>3, <1>11 DEF Owned
    <3> QED
      BY <1>0, <3>1, <3>2, <3>3 DEF TaskOK
  <2> QED
    BY <2>1, <2>2
<1>16. \A g \in Hosts : pc'[g] = "sweeping" => mutex' = g
  BY <1>0, <1>1, <1>2 DEF OwnerInv, Threads
<1> QED
  BY <1>7, <1>8, <1>9, <1>12, <1>13, <1>14, <1>15, <1>16 DEF OwnerInv, TypeInv

\* The task gets an id nobody has, and its entry.
LEMMA RegisterStep ==
    ASSUME TypeInv, OwnerInv, NEW th \in Threads, Register(th) PROVE TypeInv' /\ OwnerInv'
<1>a. PICK t : t = target[th]
  OBVIOUS
<1>b. PICK m : m = g_next_thread_id
  OBVIOUS
<1>0. /\ Shape /\ CountInv /\ DepthInv /\ pc[th] = "spawned" /\ mutex = None
      /\ g_thread_map' = [g_thread_map EXCEPT ![m] = t] /\ g_next_thread_id' = m + 1
      /\ handle' = [handle EXCEPT ![t] = m] /\ target' = [target EXCEPT ![th] = None]
      /\ pc' = [pc EXCEPT ![th] = "script"]
      /\ UNCHANGED <<mutex, depth, calls, context, root, parent, answers>>
  BY <1>a, <1>b DEF TypeInv, Register, Goto, history
<1>1. Hosts \cap Tasks = {} /\ None \notin Tasks
  BY ThreadsAssumption DEF Threads
<1>2. t \in Tasks /\ handle[t] = 0 /\ context[t] = "live"
  BY <1>0, <1>a DEF OwnerInv, HoldOK
<1>3. m \in Ids /\ m = Cardinality(Handled) + 1 /\ m # 0
  <2>1. t \in Tasks \ Handled
    BY <1>2 DEF Handled
  <2>2. /\ Cardinality(Tasks) \in Nat /\ Cardinality(Handled) \in Nat
        /\ Cardinality(Handled) < Cardinality(Tasks)
    BY <1>0, <2>1, Counts DEF Shape
  <2> QED
    BY <1>0, <1>b, <2>2 DEF CountInv, Ids
<1>4. /\ pc'[th] = "script" /\ target'[th] = None
      /\ \A x \in Threads : x # th => pc'[x] = pc[x] /\ target'[x] = target[x]
  BY <1>0 DEF Shape, PcOK
<1>5. handle'[t] = m /\ \A u \in Tasks : u # t => handle'[u] = handle[u]
  BY <1>0, <1>2 DEF Shape
<1>6. g_thread_map'[m] = t /\ \A n \in Ids : n # m => g_thread_map'[n] = g_thread_map[n]
  BY <1>0, <1>3 DEF Shape
<1>7. \A x \in Threads : x # th => target[x] # t
  BY <1>1, <1>2, <1>a DEF OwnerInv, Distinct
<1>8. \A u \in Tasks : handle[u] < m /\ handle[u] \in Ids \cup {0}
  BY <1>0, <1>b DEF OwnerInv, HandlesOK, Shape
<1>9. CountInv'
  <2>1. Handled' = Handled \cup {t} /\ t \notin Handled
    BY <1>2, <1>3, <1>5 DEF Handled
  <2>2. Cardinality(Handled') = Cardinality(Handled) + 1
    BY <1>0, <2>1, Counts, FS_AddElement DEF Shape
  <2> QED
    BY <1>0, <1>3, <2>2 DEF CountInv
<1>10. PcOK'
  BY <1>0, Moves DEF Shape, HostPc, TaskPc
<1>11. Shape'
  BY <1>0, <1>2, <1>3, <1>10 DEF Shape
<1>12. DepthInv'
  BY <1>0, <1>4 DEF DepthInv, Threads
<1>13. \A x \in Threads : HoldOK(x)'
  <2> SUFFICES ASSUME NEW x \in Threads PROVE HoldOK(x)'
    OBVIOUS
  <2>1. CASE x = th
    BY <1>4, <2>1 DEF HoldOK
  <2>2. CASE x # th
    <3>1. HoldOK(x) /\ pc'[x] = pc[x] /\ target'[x] = target[x] /\ target[x] # t
      BY <1>4, <1>7, <2>2 DEF OwnerInv
    <3>2. target[x] \in Tasks => handle'[target[x]] = handle[target[x]]
      BY <1>5, <3>1
    <3>3. \A n \in Ids : g_thread_map[n] # target[x] => g_thread_map'[n] # target[x]
      BY <1>6, <3>1
    <3> QED
      BY <1>0, <3>1, <3>2, <3>3 DEF HoldOK
  <2> QED
    BY <2>1, <2>2
<1>14. Distinct'
  BY <1>4 DEF OwnerInv, Distinct
<1>15. HandlesOK'
  <2>1. \A u \in Tasks : handle'[u] < m + 1
    <3> SUFFICES ASSUME NEW u \in Tasks PROVE handle'[u] < m + 1
      OBVIOUS
    <3>1. handle[u] < m /\ handle[u] \in Nat /\ m \in Nat
      BY <1>3, <1>8 DEF Ids
    <3> QED
      BY <1>5, <3>1
  <2>2. ASSUME NEW u \in Tasks, NEW v \in Tasks, handle'[u] # 0, handle'[u] = handle'[v]
        PROVE  u = v
    <3>1. \A w \in Tasks : handle[w] # m
      BY <1>3, <1>8 DEF Ids
    <3> QED
      BY <1>5, <2>2, <3>1 DEF OwnerInv, HandlesOK
  <2> QED
    BY <1>0, <2>1, <2>2 DEF HandlesOK
<1>16. \A n \in Ids : EntryOK(n)'
  <2> SUFFICES ASSUME NEW n \in Ids, g_thread_map'[n] # None
               PROVE  handle'[g_thread_map'[n]] = n /\ context[g_thread_map'[n]] = "live"
    BY <1>0 DEF EntryOK
  <2>1. CASE n = m
    BY <1>2, <1>5, <1>6, <2>1
  <2>2. CASE n # m
    <3>1. EntryOK(n) /\ g_thread_map'[n] = g_thread_map[n] /\ g_thread_map[n] \in Tasks
      BY <1>0, <1>6, <2>2 DEF OwnerInv, Shape
    <3>2. g_thread_map[n] # t
      BY <1>1, <1>2, <3>1 DEF EntryOK, Ids
    <3> QED
      BY <1>0, <1>5, <3>1, <3>2 DEF EntryOK
  <2> QED
    BY <2>1, <2>2
<1>17. \A u \in Tasks : TaskOK(u)'
  <2> SUFFICES ASSUME NEW u \in Tasks PROVE TaskOK(u)'
    OBVIOUS
  <2>1. u \in Threads /\ TaskOK(u)
    BY DEF Threads, OwnerInv
  <2>2. pc'[u] = pc[u] \/ (pc[u] = "spawned" /\ pc'[u] = "script")
    BY <1>0, <1>4, <2>1
  <2>3. pc[u] = "unborn" => u # t
    BY <1>2, <2>1 DEF TaskOK
  <2>4. Owned(u) => Owned(u)'
    <3>1. CASE u = t
      BY <1>3, <1>6, <3>1 DEF Owned
    <3>2. CASE u # t
      <4>1. ASSUME NEW x \in Threads, target[x] = u PROVE target'[x] = u
        BY <1>4, <1>a, <3>2, <4>1
      <4>2. ASSUME NEW n \in Ids, g_thread_map[n] = u PROVE g_thread_map'[n] = u
        <5>1. handle[u] = n
          BY <1>1, <4>2 DEF OwnerInv, EntryOK
        <5>2. n # m
          BY <1>3, <1>8, <5>1 DEF Ids
        <5> QED
          BY <1>6, <4>2, <5>2
      <4> QED
        BY <4>1, <4>2 DEF Owned
    <3> QED
      BY <3>1, <3>2
  <2> QED
    BY <1>0, <1>5, <2>1, <2>2, <2>3, <2>4 DEF TaskOK
<1>18. \A g \in Hosts : pc'[g] = "sweeping" => mutex' = g
  BY <1>0, <1>4 DEF OwnerInv, Threads
<1> QED
  BY <1>9, <1>11, <1>12, <1>13, <1>14, <1>15, <1>16, <1>17, <1>18 DEF OwnerInv, TypeInv

\* The entry of a handle is taken out of the map: it is that task's.
LEMMA JoinTakeStep ==
    ASSUME TypeInv, OwnerInv, NEW th \in Threads, NEW t \in Tasks, JoinTake(th, t)
    PROVE  TypeInv' /\ OwnerInv'
<1>0. /\ Shape /\ CountInv /\ DepthInv /\ pc[th] = "script" /\ mutex = None /\ handle[t] # 0
      /\ UNCHANGED <<g_next_thread_id, mutex, depth, calls, context, handle, root, parent>>
  BY DEF TypeInv, JoinTake, Scripting, Knows
<1>1. Hosts \cap Tasks = {} /\ None \notin Tasks
  BY ThreadsAssumption DEF Threads
<1>2. handle[t] \in Ids
  BY <1>0 DEF Shape
<1>3. CountInv' /\ HandlesOK'
  BY <1>0 DEF CountInv, Handled, OwnerInv, HandlesOK
<1>4. answers' \in [Tasks -> SUBSET {"result", "zero"}]
  <2>1. answers' = [answers EXCEPT ![t] = answers[t] \cup {"zero"}] \/ answers' = answers
    BY DEF JoinTake
  <2>2. answers \in [Tasks -> SUBSET {"result", "zero"}] /\ answers[t] \subseteq {"result", "zero"}
    BY <1>0 DEF Shape
  <2> QED
    BY <2>1, <2>2
<1>5. CASE g_thread_map[handle[t]] = None
  <2>1. UNCHANGED <<g_thread_map, target, pc>>
    BY <1>5 DEF JoinTake
  <2>2. Shape'
    BY <1>0, <1>4, <2>1 DEF Shape, PcOK
  <2>3. DepthInv' /\ Distinct'
    BY <1>0, <2>1 DEF DepthInv, OwnerInv, Distinct
  <2>4. /\ \A x \in Threads : HoldOK(x)'
        /\ \A n \in Ids : EntryOK(n)'
    BY <1>0, <2>1 DEF OwnerInv, HoldOK, EntryOK
  <2>5. /\ \A u \in Tasks : TaskOK(u)'
        /\ \A g \in Hosts : pc'[g] = "sweeping" => mutex' = g
    BY <1>0, <2>1 DEF OwnerInv, TaskOK, Owned
  <2> QED
    BY <1>3, <2>2, <2>3, <2>4, <2>5 DEF TypeInv, OwnerInv
<1>6. CASE g_thread_map[handle[t]] # None
  <2>1. g_thread_map[handle[t]] = t
    <3>1. g_thread_map[handle[t]] \in Tasks /\ handle[g_thread_map[handle[t]]] = handle[t]
      BY <1>0, <1>2, <1>6 DEF Shape, OwnerInv, EntryOK
    <3> QED
      BY <1>0, <3>1 DEF OwnerInv, HandlesOK
  <2>2. /\ target' = [target EXCEPT ![th] = t] /\ pc' = [pc EXCEPT ![th] = "joining"]
        /\ g_thread_map' = [g_thread_map EXCEPT ![handle[t]] = None]
    BY <1>6, <2>1 DEF JoinTake, Goto
  <2>3. context[t] = "live"
    BY <1>0, <1>1, <1>2, <2>1 DEF OwnerInv, EntryOK
  <2>4. /\ pc'[th] = "joining" /\ target'[th] = t
        /\ \A x \in Threads : x # th => pc'[x] = pc[x] /\ target'[x] = target[x]
    BY <1>0, <2>2 DEF Shape, PcOK
  <2>5. /\ g_thread_map'[handle[t]] = None
        /\ \A n \in Ids : n # handle[t] => g_thread_map'[n] = g_thread_map[n]
    BY <1>0, <1>2, <2>2 DEF Shape
  <2>6. \A n \in Ids : g_thread_map'[n] # t
    BY <1>1, <2>5 DEF OwnerInv, EntryOK
  <2>7. \A x \in Threads : target[x] # t
    <3> SUFFICES ASSUME NEW x \in Threads, target[x] = t PROVE FALSE
      OBVIOUS
    <3>1. HoldOK(x)
      BY DEF OwnerInv
    <3> QED
      BY <1>0, <1>1, <1>2, <2>1, <3>1 DEF HoldOK
  <2>8. PcOK'
    BY <1>0, <2>2, Moves DEF Shape, HostPc, TaskPc
  <2>9. Shape'
    BY <1>0, <1>2, <1>4, <2>2, <2>8 DEF Shape
  <2>10. DepthInv'
    BY <1>0, <2>4 DEF DepthInv, Threads
  <2>11. \A x \in Threads : HoldOK(x)'
    <3> SUFFICES ASSUME NEW x \in Threads PROVE HoldOK(x)'
      OBVIOUS
    <3>1. CASE x = th
      BY <1>0, <2>3, <2>4, <2>6, <3>1 DEF HoldOK
    <3>2. CASE x # th
      <4>1. HoldOK(x) /\ pc'[x] = pc[x] /\ target'[x] = target[x]
        BY <2>4, <3>2 DEF OwnerInv
      <4>2. \A n \in Ids : g_thread_map[n] # target[x] => g_thread_map'[n] = g_thread_map[n]
                                                            \/ g_thread_map'[n] = None
        BY <2>5
      <4> QED
        BY <1>0, <1>1, <4>1, <4>2 DEF HoldOK
    <3> QED
      BY <3>1, <3>2
  <2>12. Distinct'
    BY <2>4, <2>7 DEF OwnerInv, Distinct
  <2>13. \A n \in Ids : EntryOK(n)'
    BY <1>0, <2>5 DEF OwnerInv, EntryOK
  <2>14. \A u \in Tasks : TaskOK(u)'
    <3> SUFFICES ASSUME NEW u \in Tasks PROVE TaskOK(u)'
      OBVIOUS
    <3>1. u \in Threads /\ TaskOK(u)
      BY DEF Threads, OwnerInv
    <3>2. pc'[u] = pc[u] \/ (pc[u] = "script" /\ pc'[u] = "joining")
      BY <1>0, <2>4, <3>1
    <3>3. Owned(u) => Owned(u)'
      <4>1. CASE u = t
        BY <2>4, <4>1 DEF Owned
      <4>2. CASE u # t
        <5>1. target[th] = None
          BY <1>0 DEF OwnerInv, HoldOK
        <5>2. ASSUME NEW x \in Threads, target[x] = u PROVE target'[x] = u
          BY <1>1, <2>4, <5>1, <5>2
        <5>3. ASSUME NEW n \in Ids, g_thread_map[n] = u PROVE g_thread_map'[n] = u
          BY <2>1, <2>5, <4>2, <5>3
        <5> QED
          BY <5>2, <5>3 DEF Owned
      <4> QED
        BY <4>1, <4>2
    <3> QED
      BY <1>0, <3>1, <3>2, <3>3 DEF TaskOK
  <2>15. \A g \in Hosts : pc'[g] = "sweeping" => mutex' = g
    BY <1>0, <2>4 DEF OwnerInv, Threads
  <2> QED
    BY <1>3, <2>9, <2>10, <2>11, <2>12, <2>13, <2>14, <2>15 DEF OwnerInv, TypeInv
<1> QED
  BY <1>5, <1>6

LEMMA JoinReturnStep ==
    ASSUME TypeInv, OwnerInv, NEW th \in Threads, JoinReturn(th) PROVE TypeInv' /\ OwnerInv'
<1>a. PICK t : t = target[th]
  OBVIOUS
<1>0. /\ Shape /\ CountInv /\ DepthInv /\ pc[th] = "joining" /\ pc[t] = "ended"
      /\ answers' = [answers EXCEPT ![t] = answers[t] \cup {"result"}]
      /\ context' = [context EXCEPT ![t] = "deleted"] /\ target' = [target EXCEPT ![th] = None]
      /\ pc' = [pc EXCEPT ![th] = "script"]
      /\ UNCHANGED <<g_thread_map, g_next_thread_id, mutex, depth, calls, handle, root, parent>>
  BY <1>a DEF TypeInv, JoinReturn, Goto, mapVars
<1>1. Hosts \cap Tasks = {} /\ None \notin Tasks
  BY ThreadsAssumption DEF Threads
<1>2. t \in Tasks /\ t # th /\ \A n \in Ids : g_thread_map[n] # t
  BY <1>0, <1>a DEF OwnerInv, HoldOK
<1>3. /\ pc'[th] = "script" /\ target'[th] = None
      /\ \A x \in Threads : x # th => pc'[x] = pc[x] /\ target'[x] = target[x]
  BY <1>0 DEF Shape, PcOK
<1>4. context'[t] = "deleted" /\ \A u \in Tasks : u # t => context'[u] = context[u]
  BY <1>0, <1>2 DEF Shape
<1>5. \A x \in Threads : x # th => target[x] # t
  BY <1>1, <1>2, <1>a DEF OwnerInv, Distinct
<1>6. PcOK'
  BY <1>0, Moves DEF Shape, HostPc, TaskPc
<1>7. Shape'
  <2>1. answers' \in [Tasks -> SUBSET {"result", "zero"}]
    <3>1. answers \in [Tasks -> SUBSET {"result", "zero"}]
      BY <1>0 DEF Shape
    <3>2. answers[t] \cup {"result"} \in SUBSET {"result", "zero"}
      BY <1>2, <3>1
    <3> QED
      BY <1>0, <3>1, <3>2
  <2> QED
    BY <1>0, <1>2, <1>6, <2>1 DEF Shape
<1>8. CountInv' /\ HandlesOK'
  BY <1>0 DEF CountInv, Handled, OwnerInv, HandlesOK
<1>9. DepthInv'
  BY <1>0, <1>3 DEF DepthInv, Threads
<1>10. \A x \in Threads : HoldOK(x)'
  <2> SUFFICES ASSUME NEW x \in Threads PROVE HoldOK(x)'
    OBVIOUS
  <2>1. CASE x = th
    BY <1>3, <2>1 DEF HoldOK
  <2>2. CASE x # th
    <3>1. HoldOK(x) /\ pc'[x] = pc[x] /\ target'[x] = target[x] /\ target[x] # t
      BY <1>3, <1>5, <2>2 DEF OwnerInv
    <3>2. target[x] \in Tasks => context'[target[x]] = context[target[x]]
      BY <1>4, <3>1
    <3> QED
      BY <1>0, <3>1, <3>2 DEF HoldOK
  <2> QED
    BY <2>1, <2>2
<1>11. Distinct'
  BY <1>3 DEF OwnerInv, Distinct
<1>12. \A n \in Ids : EntryOK(n)'
  <2> SUFFICES ASSUME NEW n \in Ids PROVE EntryOK(n)'
    OBVIOUS
  <2>1. EntryOK(n) /\ g_thread_map[n] # t /\ g_thread_map[n] \in Tasks \cup {None}
    BY <1>0, <1>2 DEF OwnerInv, Shape
  <2> QED
    BY <1>0, <1>4, <2>1 DEF EntryOK
<1>13. \A u \in Tasks : TaskOK(u)'
  <2> SUFFICES ASSUME NEW u \in Tasks PROVE TaskOK(u)'
    OBVIOUS
  <2>1. u \in Threads /\ TaskOK(u) /\ TaskOK(t)
    BY <1>2 DEF Threads, OwnerInv
  <2>2. CASE u = t
    BY <1>0, <1>2, <1>3, <1>4, <2>1, <2>2 DEF TaskOK
  <2>3. CASE u # t
    <3>1. pc'[u] = pc[u] \/ (pc[u] = "joining" /\ pc'[u] = "script")
      BY <1>0, <1>3, <2>1
    <3>2. Owned(u) => Owned(u)'
      BY <1>0, <1>3, <1>a, <2>3 DEF Owned
    <3> QED
      BY <1>0, <1>4, <2>1, <2>3, <3>1, <3>2 DEF TaskOK
  <2> QED
    BY <2>2, <2>3
<1>14. \A g \in Hosts : pc'[g] = "sweeping" => mutex' = g
  BY <1>0, <1>3 DEF OwnerInv, Threads
<1> QED
  BY <1>7, <1>8, <1>9, <1>10, <1>11, <1>12, <1>13, <1>14 DEF OwnerInv, TypeInv

LEMMA FinishStep ==
    ASSUME TypeInv, OwnerInv, NEW t \in Tasks, Finish(t) PROVE TypeInv' /\ OwnerInv'
<1>0. /\ Shape /\ CountInv /\ DepthInv /\ pc[t] = "script" /\ pc' = [pc EXCEPT ![t] = "ended"]
      /\ UNCHANGED <<g_thread_map, g_next_thread_id, mutex, depth, target, calls, context, handle,
                     root, parent, answers>>
  BY DEF TypeInv, Finish, Goto, mapVars, history
<1>1. Hosts \cap Tasks = {} /\ t \in Threads
  BY ThreadsAssumption DEF Threads
<1>2. pc'[t] = "ended" /\ \A x \in Threads : x # t => pc'[x] = pc[x]
  BY <1>0, <1>1 DEF Shape, PcOK
<1>3. PcOK'
  BY <1>0, <1>1, Moves DEF Shape, TaskPc
<1>4. Shape' /\ CountInv'
  BY <1>0, <1>3 DEF Shape, CountInv, Handled
<1>5. DepthInv'
  BY <1>0, <1>1, <1>2 DEF DepthInv, Threads
<1>6. \A x \in Threads : HoldOK(x)'
  BY <1>0, <1>2 DEF OwnerInv, HoldOK
<1>7. Distinct' /\ HandlesOK'
  BY <1>0 DEF OwnerInv, Distinct, HandlesOK
<1>8. \A n \in Ids : EntryOK(n)'
  BY <1>0 DEF OwnerInv, EntryOK
<1>9. \A u \in Tasks : TaskOK(u)'
  BY <1>0, <1>2 DEF OwnerInv, TaskOK, Owned, Threads
<1>10. \A g \in Hosts : pc'[g] = "sweeping" => mutex' = g
  BY <1>0, <1>1, <1>2 DEF OwnerInv, Threads
<1> QED
  BY <1>4, <1>5, <1>6, <1>7, <1>8, <1>9, <1>10 DEF OwnerInv, TypeInv
----------------------------------------------------------------------------
\* Steps that give nobody a task and let no host return.
LEMMA SameLineage ==
    ASSUME TypeInv, LineageInv, UNCHANGED <<root, parent>>,
           \A t \in Tasks : /\ pc[t] = "unborn" <=> pc'[t] = "unborn"
                            /\ Running(t)' => Running(t),
           \A th \in Threads : target'[th] = target[th] \/ target'[th] = None,
           \A h \in Hosts : pc'[h] = "out" => pc[h] = "out"
    PROVE  LineageInv'
<1>1. \A t \in Tasks : LineageOK(t)'
  BY DEF LineageInv, LineageOK, Root
<1>2. HolderInv'
  BY DEF LineageInv, HolderInv
<1>3. TreeInv'
  BY DEF LineageInv, TreeInv
<1>4. NoTaskOutlivesCall'
  BY DEF LineageInv, NoTaskOutlivesCall
<1> QED
  BY <1>1, <1>2, <1>3, <1>4 DEF LineageInv

\* A host's own steps: its tasks go on, and it has not returned after them.
LEMMA HostLineage ==
    ASSUME TypeInv, LineageInv, NEW h \in Hosts, NEW l, l # "out", pc' = [pc EXCEPT ![h] = l],
           UNCHANGED <<target, root, parent>>
    PROVE  LineageInv'
<1>1. Hosts \cap Tasks = {} /\ PcOK
  BY ThreadsAssumption DEF TypeInv, Shape
<1>2. \A t \in Tasks : pc'[t] = pc[t]
  BY <1>1 DEF PcOK, Threads
<1>3. \A g \in Hosts : pc'[g] = "out" => pc[g] = "out"
  BY <1>1 DEF PcOK, Threads
<1> QED
  BY <1>2, <1>3, SameLineage DEF Running

\* The end of a clean-up.  If a task of h still ran, its holder would be a
\* running task of h too, its parent, and so on without end.
LEMMA SweepEndLineage ==
    ASSUME TypeInv, OwnerInv, LineageInv, NEW h \in Hosts, SweepEnd(h) PROVE LineageInv'
<1>0. /\ pc[h] = "sweeping" /\ pc' = [pc EXCEPT ![h] = "out"] /\ PcOK
      /\ \A n \in Ids : g_thread_map[n] # None => context[g_thread_map[n]] = "deleted"
      /\ UNCHANGED <<target, root, parent>> /\ h \in Threads
      /\ Hosts \cap Tasks = {} /\ None \notin Tasks
  BY ThreadsAssumption DEF SweepEnd, Goto, history, TypeInv, Shape, Threads
<1>1. /\ \A t \in Tasks : pc'[t] = pc[t]
      /\ \A g \in Hosts \ {h} : pc'[g] = pc[g]
  BY <1>0 DEF PcOK, Threads
<1> DEFINE S == {t \in Tasks : Running(t) /\ root[t] = h}
<1>2. ASSUME NEW t \in S PROVE parent[t] \in S
  <2>1. t \in Tasks /\ Running(t) /\ root[t] = h /\ LineageOK(t) /\ TaskOK(t)
    BY DEF LineageInv, OwnerInv
  <2>2. context[t] = "live"
    BY <2>1 DEF TaskOK, Running, TypeInv, Shape
  <2>3. PICK th \in Threads : target[th] = t
    BY <1>0, <2>1, <2>2 DEF TaskOK, Owned
  <2>4. pc[th] \in {"spawned", "joining"}
    BY <1>0, <2>1, <2>3 DEF OwnerInv, HoldOK
  <2>5. th # h
    BY <1>0, <2>4
  <2>6. parent[t] = th
    BY <1>0, <2>1, <2>3, <2>5 DEF LineageInv, HolderInv
  <2>7. Root(th) = h
    BY <2>1, <2>6 DEF LineageOK, Running
  <2>8. th \in Tasks /\ root[th] = h
    BY <2>5, <2>7 DEF Root, Threads
  <2> QED
    BY <2>4, <2>6, <2>8 DEF Running
<1>3. S = {}
  <2>1. S \in SUBSET Tasks /\ \A t \in S : pc[t] # "unborn"
    BY DEF Running
  <2> HIDE DEF S
  <2> QED
    BY <1>2, <2>1 DEF LineageInv, TreeInv
<1>4. \A t \in Tasks : LineageOK(t)'
  BY <1>0, <1>1 DEF LineageInv, LineageOK, Root
<1>5. HolderInv'
  BY <1>0 DEF LineageInv, HolderInv
<1>6. TreeInv'
  BY <1>0, <1>1 DEF LineageInv, TreeInv
<1>7. NoTaskOutlivesCall'
  <2> SUFFICES ASSUME NEW g \in Hosts, NEW t \in Tasks, pc'[g] = "out", root[t] = g, Running(t)
               PROVE  FALSE
    BY <1>0, <1>1 DEF NoTaskOutlivesCall, Running
  <2>1. CASE g = h
    BY <1>3, <2>1
  <2>2. CASE g # h
    BY <1>1, <2>2 DEF LineageInv, NoTaskOutlivesCall
  <2> QED
    BY <2>1, <2>2
<1> QED
  BY <1>4, <1>5, <1>6, <1>7 DEF LineageInv

LEMMA SpawnLineage ==
    ASSUME TypeInv, OwnerInv, LineageInv, NEW th \in Threads, NEW t \in Tasks, Spawn(th, t)
    PROVE  LineageInv'
<1>0. /\ Shape /\ pc[th] = "script" /\ pc[t] = "unborn" /\ th # t
      /\ pc' = [pc EXCEPT ![th] = "spawned", ![t] = "script"]
      /\ target' = [target EXCEPT ![th] = t]
      /\ root' = [root EXCEPT ![t] = Root(th)] /\ parent' = [parent EXCEPT ![t] = th]
  BY DEF TypeInv, Spawn, Scripting
<1>1. Hosts \cap Tasks = {} /\ None \notin Tasks /\ t \in Threads
  BY ThreadsAssumption DEF Threads
<1>2. /\ pc'[th] = "spawned" /\ pc'[t] = "script"
      /\ \A x \in Threads : x # th /\ x # t => pc'[x] = pc[x]
  BY <1>0, <1>1 DEF Shape, PcOK
<1>3. target'[th] = t /\ \A x \in Threads : x # th => target'[x] = target[x]
  BY <1>0 DEF Shape
<1>4. /\ root'[t] = Root(th) /\ parent'[t] = th
      /\ \A u \in Tasks : u # t => root'[u] = root[u] /\ parent'[u] = parent[u]
  BY <1>0 DEF Shape
<1>5. Root(th) \in Hosts /\ pc[Root(th)] # "out"
  <2>1. CASE th \in Hosts
    BY <1>0, <2>1 DEF Root
  <2>2. CASE th \in Tasks
    <3>1. Root(th) = root[th] /\ root[th] \in Hosts /\ Running(th)
      BY <1>0, <1>1, <2>2 DEF LineageInv, LineageOK, Root, Running
    <3> QED
      BY <2>2, <3>1 DEF LineageInv, NoTaskOutlivesCall
  <2> QED
    BY <2>1, <2>2 DEF Threads
<1>6. \A x \in Threads : x # t => Root(x)' = Root(x)
  BY <1>4 DEF Root, Threads
<1>7. ASSUME NEW u \in Tasks PROVE LineageOK(u)'
  <2>1. CASE u = t
    <3>1. Root(th)' = Root(th)
      BY <1>0, <1>6
    <3>2. th \in Tasks => pc'[th] # "unborn"
      BY <1>2
    <3> QED
      BY <1>4, <1>5, <2>1, <3>1, <3>2 DEF LineageOK, Root, Threads
  <2>2. CASE u # t /\ pc'[u] # "unborn"
    <3>1. u \in Threads /\ pc[u] # "unborn" /\ LineageOK(u)
      BY <1>0, <1>2, <2>2 DEF Threads, LineageInv
    <3>2. /\ root[u] \in Hosts /\ parent[u] \in Threads /\ Root(parent[u]) = root[u]
          /\ parent[u] \in Tasks => pc[parent[u]] # "unborn"
      BY <3>1 DEF LineageOK
    <3>3. parent[u] # t
      BY <1>0, <3>2
    <3>4. Root(parent[u])' = Root(parent[u])
      BY <1>4, <2>2, <3>2, <3>3 DEF Root, Threads
    <3>5. parent[u] \in Tasks => pc'[parent[u]] # "unborn"
      BY <1>2, <3>2, <3>3
    <3> QED
      BY <1>4, <2>2, <3>2, <3>4, <3>5 DEF LineageOK
  <2>3. CASE pc'[u] = "unborn"
    BY <2>3 DEF LineageOK
  <2> QED
    BY <2>1, <2>2, <2>3
<1>8. HolderInv'
  <2> SUFFICES ASSUME NEW x \in Threads, target'[x] # None
               PROVE  parent'[target'[x]] = x \/ root'[target'[x]] = x
    BY DEF HolderInv
  <2>1. CASE x = th
    BY <1>3, <1>4, <2>1
  <2>2. CASE x # th
    <3>1. target'[x] = target[x] /\ target[x] \in Tasks /\ context[target[x]] = "live"
      BY <1>0, <1>3, <2>2 DEF OwnerInv, HoldOK, Shape
    <3>2. target[x] # t
      BY <1>0, <3>1 DEF OwnerInv, TaskOK
    <3> QED
      BY <1>4, <3>1, <3>2 DEF LineageInv, HolderInv
  <2> QED
    BY <2>1, <2>2
<1>9. TreeInv'
  <2> SUFFICES ASSUME NEW S \in SUBSET Tasks, S # {}, \A u \in S : pc'[u] # "unborn"
               PROVE  \E u \in S : parent'[u] \notin S
    BY DEF TreeInv
  <2>1. \A u \in S \ {t} : u \in Tasks /\ pc[u] # "unborn" /\ parent'[u] = parent[u] /\ parent[u] # t
    <3> SUFFICES ASSUME NEW u \in S \ {t}
                 PROVE  u \in Tasks /\ pc[u] # "unborn" /\ parent'[u] = parent[u] /\ parent[u] # t
      OBVIOUS
    <3>1. u \in Tasks /\ u \in Threads /\ pc[u] # "unborn" /\ parent'[u] = parent[u]
      BY <1>0, <1>2, <1>4 DEF Threads
    <3>2. LineageOK(u)
      BY <3>1 DEF LineageInv
    <3> QED
      BY <1>0, <3>1, <3>2 DEF LineageOK
  <2>2. CASE S \ {t} = {}
    BY <1>0, <1>4, <2>2
  <2>3. CASE S \ {t} # {}
    <3>1. PICK u \in S \ {t} : parent[u] \notin S \ {t}
      <4>1. S \ {t} \in SUBSET Tasks /\ \A u \in S \ {t} : pc[u] # "unborn"
        BY <2>1
      <4> QED
        BY <2>3, <4>1 DEF LineageInv, TreeInv
    <3> QED
      BY <2>1, <3>1
  <2> QED
    BY <2>2, <2>3
<1>10. NoTaskOutlivesCall'
  <2> SUFFICES ASSUME NEW g \in Hosts, NEW u \in Tasks, pc'[g] = "out", root'[u] = g
               PROVE  ~Running(u)'
    BY DEF NoTaskOutlivesCall
  <2>1. g # th /\ g # t /\ g \in Threads /\ pc[g] = "out"
    BY <1>1, <1>2 DEF Threads
  <2>2. u # t /\ root[u] = g
    BY <1>4, <1>5, <2>1
  <2>3. ~Running(u) /\ u \in Threads
    BY <2>1, <2>2 DEF LineageInv, NoTaskOutlivesCall, Threads
  <2>4. u # th
    BY <1>0, <2>3 DEF Running
  <2> QED
    BY <1>2, <2>2, <2>3, <2>4 DEF Running
<1> QED
  BY <1>7, <1>8, <1>9, <1>10 DEF LineageInv

LEMMA JoinTakeLineage ==
    ASSUME TypeInv, OwnerInv, LineageInv, NEW th \in Threads, NEW t \in Tasks, JoinTake(th, t)
    PROVE  LineageInv'
<1>0. Shape /\ pc[th] = "script" /\ handle[t] \in Ids /\ UNCHANGED <<root, parent>>
        /\ (parent[t] = th \/ root[t] = th)
  BY DEF TypeInv, JoinTake, Scripting, Knows, Shape
<1>1. CASE g_thread_map[handle[t]] = None
  <2>1. UNCHANGED <<target, pc>>
    BY <1>1 DEF JoinTake
  <2> QED
    BY <1>0, <2>1, SameLineage DEF Running
<1>2. CASE g_thread_map[handle[t]] # None
  <2>1. g_thread_map[handle[t]] = t
    <3>1. g_thread_map[handle[t]] \in Tasks /\ handle[g_thread_map[handle[t]]] = handle[t]
      BY <1>0, <1>2 DEF Shape, OwnerInv, EntryOK
    <3> QED
      BY <1>0, <3>1 DEF OwnerInv, HandlesOK, Ids
  <2>2. target' = [target EXCEPT ![th] = t] /\ pc' = [pc EXCEPT ![th] = "joining"]
    BY <1>2, <2>1 DEF JoinTake, Goto
  <2>3. /\ pc'[th] = "joining" /\ target'[th] = t
        /\ \A x \in Threads : x # th => pc'[x] = pc[x] /\ target'[x] = target[x]
    BY <1>0, <2>2 DEF Shape, PcOK
  <2>4. /\ \A u \in Tasks : (pc'[u] = "unborn" <=> pc[u] = "unborn") /\ (Running(u)' <=> Running(u))
        /\ \A g \in Hosts : pc'[g] = "out" => pc[g] = "out"
    BY <1>0, <2>3 DEF Running, Threads
  <2>5. \A u \in Tasks : LineageOK(u)'
    BY <1>0, <2>4 DEF LineageInv, LineageOK, Root
  <2>6. HolderInv'
    BY <1>0, <2>3 DEF LineageInv, HolderInv
  <2>7. TreeInv'
    BY <1>0, <2>4 DEF LineageInv, TreeInv
  <2>8. NoTaskOutlivesCall'
    BY <1>0, <2>4 DEF LineageInv, NoTaskOutlivesCall
  <2> QED
    BY <2>5, <2>6, <2>7, <2>8 DEF LineageInv
<1> QED
  BY <1>1, <1>2

\* register, the return of a join and the end of a task.
LEMMA ThreadLineage ==
    ASSUME TypeInv, OwnerInv, LineageInv, NEW th \in Threads, NEW l,
           pc[th] \notin {"unborn", "ended", "out"}, l \notin {"unborn", "out"},
           pc' = [pc EXCEPT ![th] = l], UNCHANGED <<root, parent>>,
           target' = target \/ target' = [target EXCEPT ![th] = None]
    PROVE  LineageInv'
<1>1. /\ pc'[th] = l /\ \A x \in Threads : x # th => pc'[x] = pc[x]
      /\ \A x \in Threads : target'[x] = target[x] \/ target'[x] = None
  BY DEF TypeInv, Shape, PcOK
<1>2. /\ \A t \in Tasks : (pc[t] = "unborn" <=> pc'[t] = "unborn") /\ (Running(t)' => Running(t))
      /\ \A h \in Hosts : pc'[h] = "out" => pc[h] = "out"
  BY <1>1 DEF Running, Threads
<1> QED
  BY <1>1, <1>2, SameLineage
----------------------------------------------------------------------------
LEMMA InitIInv == Init => IInv
<1> SUFFICES ASSUME Init PROVE IInv
  OBVIOUS
<1>1. /\ \A t \in Tasks : pc[t] = "unborn"
      /\ \A th \in Threads : target[th] = None
  BY ThreadsAssumption DEF Init, Threads
<1>2. (\A t \in Tasks : LineageOK(t)) /\ HolderInv
  BY <1>1 DEF LineageOK, HolderInv
<1>3. TreeInv /\ NoTaskOutlivesCall
  BY <1>1 DEF TreeInv, NoTaskOutlivesCall, Running
<1> QED
  BY <1>2, <1>3, InitInv DEF IInv, LineageInv

LEMMA NextIInv == IInv /\ [Next]_vars => IInv'
<1> SUFFICES ASSUME TypeInv, OwnerInv, LineageInv, [Next]_vars PROVE IInv'
  BY DEF IInv
<1>1. ASSUME NEW h \in Hosts, Enter(h) \/ Leave(h) \/ SweepLock(h) PROVE LineageInv'
  <2>1. /\ \E l \in {"script", "leaving", "sweeping"} : pc' = [pc EXCEPT ![h] = l]
        /\ UNCHANGED <<target, root, parent>>
    BY <1>1 DEF Enter, Leave, SweepLock, Goto, history
  <2> QED
    BY <2>1, HostLineage
<1>2. ASSUME NEW h \in Hosts, NEW n \in Ids, SweepJoin(h, n) PROVE LineageInv'
  <2>1. UNCHANGED <<pc, target, root, parent>>
    BY <1>2 DEF SweepJoin, history
  <2> QED
    BY <2>1, SameLineage DEF Running
<1>3. ASSUME NEW th \in Threads, Register(th) \/ JoinReturn(th) PROVE LineageInv'
  <2>1. /\ pc[th] \in {"spawned", "joining"} /\ pc' = [pc EXCEPT ![th] = "script"]
        /\ target' = [target EXCEPT ![th] = None] /\ UNCHANGED <<root, parent>>
    BY <1>3 DEF Register, JoinReturn, Goto, history
  <2> QED
    BY <2>1, ThreadLineage
<1>4. ASSUME NEW t \in Tasks, Finish(t) PROVE LineageInv'
  <2>1. /\ t \in Threads /\ pc[t] = "script" /\ pc' = [pc EXCEPT ![t] = "ended"]
        /\ UNCHANGED <<target, root, parent>>
    BY <1>4 DEF Finish, Goto, history, Threads
  <2> QED
    BY <2>1, ThreadLineage
<1>5. CASE \E h \in Hosts : Enter(h) \/ Leave(h) \/ HostLeaves(h)
  BY <1>1, <1>2, <1>5, EnterStep, LeaveStep, SweepLockStep, SweepJoinStep, SweepEndStep,
     SweepEndLineage DEF HostLeaves, IInv
<1>6. CASE \E th \in Threads : ThreadCall(th)
  BY <1>3, <1>6, SpawnStep, SpawnLineage, JoinTakeStep, JoinTakeLineage, RegisterStep,
     JoinReturnStep DEF ThreadCall, IInv
<1>7. CASE \E t \in Tasks : Finish(t)
  BY <1>4, <1>7, FinishStep DEF IInv
<1>8. CASE UNCHANGED vars
  <2>1. /\ UNCHANGED <<g_thread_map, g_next_thread_id, mutex, depth, pc, target, calls, context>>
        /\ UNCHANGED <<handle, root, parent, answers>>
    BY <1>8 DEF vars, mapVars, history
  <2>2. TypeInv'
    BY <2>1 DEF TypeInv, Shape, PcOK, CountInv, Handled, DepthInv
  <2>3. OwnerInv'
    BY <2>1 DEF OwnerInv, HoldOK, Distinct, EntryOK, TaskOK, Owned, HandlesOK
  <2>4. LineageInv'
    BY <2>1, SameLineage DEF Running
  <2> QED
    BY <2>2, <2>3, <2>4 DEF IInv
<1> QED
  BY <1>5, <1>6, <1>7, <1>8 DEF Next

THEOREM Invariance == Spec => []IInv
  BY InitIInv, NextIInv, PTL DEF Spec
----------------------------------------------------------------------------
(* Every variable keeps its type: no more ids are given out than there are  *)
(* tasks, and the depth of a host's calls never goes below zero.            *)
THEOREM TypeCorrect == Spec => []TypeOK
<1>1. IInv => TypeOK
  BY TypeInvType DEF IInv
<1> QED
  BY <1>1, Invariance, PTL

LEMMA OneOwner == IInv => ContextHasOneOwner
<1> SUFFICES ASSUME TypeInv, OwnerInv, NEW t \in Tasks, context[t] = "live"
             PROVE  Cardinality({th \in Threads : target[th] = t})
                      + Cardinality({n \in Ids : g_thread_map[n] = t}) = 1
  BY DEF IInv, ContextHasOneOwner
<1>0. None \notin Tasks /\ Owned(t)
  BY ThreadsAssumption DEF Threads, OwnerInv, TaskOK
<1> DEFINE H == {th \in Threads : target[th] = t}
           E == {n \in Ids : g_thread_map[n] = t}
<1>1. ASSUME NEW th \in Threads, target[th] = t PROVE H = {th} /\ E = {}
  <2>1. H = {th}
    BY <1>0, <1>1 DEF OwnerInv, Distinct
  <2>2. HoldOK(th)
    BY DEF OwnerInv
  <2>3. \A n \in Ids : g_thread_map[n] = t => handle[t] = n /\ n # 0
    BY <1>0 DEF OwnerInv, EntryOK, Ids
  <2>4. E = {}
    BY <1>0, <1>1, <2>2, <2>3 DEF HoldOK
  <2> QED
    BY <2>1, <2>4
<1>2. ASSUME NEW n \in Ids, g_thread_map[n] = t, H = {} PROVE E = {n}
  BY <1>0, <1>2 DEF OwnerInv, EntryOK
<1>3. \/ Cardinality(H) = 1 /\ Cardinality(E) = 0
      \/ Cardinality(H) = 0 /\ Cardinality(E) = 1
  <2>1. \/ E = {} /\ \E th : H = {th}
        \/ H = {} /\ \E n : E = {n}
    <3>1. CASE \E th \in Threads : target[th] = t
      <4>1. PICK th \in Threads : target[th] = t
        BY <3>1
      <4>2. H = {th} /\ E = {}
        BY <1>1, <4>1
      <4> HIDE DEF H, E
      <4> QED
        BY <4>2
    <3>2. CASE ~ \E th \in Threads : target[th] = t
      <4>1. H = {}
        BY <3>2
      <4>2. PICK n \in Ids : g_thread_map[n] = t
        BY <1>0, <3>2 DEF Owned
      <4>3. E = {n}
        BY <1>2, <4>1, <4>2
      <4> HIDE DEF H, E
      <4> QED
        BY <4>1, <4>3
    <3> QED
      BY <3>1, <3>2
  <2> HIDE DEF H, E
  <2> QED
    BY <2>1, FS_EmptySet, FS_Singleton
<1> QED
  BY <1>3

(* Every live context has exactly one owner, a spawn, an entry of the map   *)
(* or a join, whichever threads join the same handle or clean up at the     *)
(* same time.                                                               *)
THEOREM OneOwnerEach == Spec => []ContextHasOneOwner
  BY Invariance, OneOwner, PTL

(* A context is deleted only when its thread has ended.                     *)
THEOREM DeletesEnded == Spec => []DeletedAfterEnd
<1>1. IInv => DeletedAfterEnd
  BY DEF IInv, OwnerInv, TaskOK, DeletedAfterEnd
<1> QED
  BY <1>1, Invariance, PTL

(* When a host's outermost call has returned, no task that descends from it *)
(* runs: however tasks spawned and joined each other, one of those that     *)
(* still ran would have been in the map.                                    *)
THEOREM NoneOutlives == Spec => []NoTaskOutlivesCall
<1>1. IInv => NoTaskOutlivesCall
  BY DEF IInv, LineageInv
<1> QED
  BY <1>1, Invariance, PTL

----------------------------------------------------------------------------
(* SomebodyGoesOn *)

Joining == {th \in Threads : pc[th] = "joining"}

\* Of the threads that join, one waits for a thread that does not: were it not
\* so, the joining tasks would be joined by each other, each by its parent.
LEMMA JoinsEnd ==
    ASSUME IInv, Joining # {} PROVE \E th \in Joining : target[th] \notin Joining
<1> SUFFICES ASSUME \A th \in Joining : target[th] \in Joining PROVE FALSE
  OBVIOUS
<1>0. /\ Hosts \cap Tasks = {} /\ None \notin Tasks
      /\ \A th \in Joining : th \in Threads /\ target[th] \in Tasks
      /\ Distinct /\ \A t \in Tasks : LineageOK(t)
  BY ThreadsAssumption DEF IInv, OwnerInv, LineageInv, HoldOK, Threads, Joining
<1> DEFINE S == Joining \cap Tasks
           f == [t \in S |-> target[t]]
<1>1. IsFiniteSet(S) /\ S # {}
  <2>1. IsFiniteSet(Tasks) /\ S \subseteq Tasks
    BY ThreadsAssumption
  <2> QED
    BY <1>0, <2>1, FS_Subset
<1>2. \A t \in S : f[t] = target[t] /\ f[t] \in S
  BY <1>0
<1>3. f \in Injection(S, S)
  <2>1. f \in [S -> S]
    BY <1>2
  <2>2. \A a, b \in S : f[a] = f[b] => a = b
    BY <1>0 DEF Distinct
  <2> HIDE DEF S, f
  <2> QED
    BY <2>1, <2>2 DEF Injection, IsInjective
<1>4. \A t \in S : \E u \in S : target[u] = t
  <2>1. f \in Surjection(S, S)
    <3> HIDE DEF S, f
    <3> QED
      BY <1>1, <1>3, FS_Injection
  <2> HIDE DEF S
  <2> QED
    BY <1>2, <2>1 DEF Surjection
<1>5. \A t \in S : parent[t] \in S
  <2> SUFFICES ASSUME NEW t \in S PROVE parent[t] \in S
    OBVIOUS
  <2>1. PICK u \in S : target[u] = t
    BY <1>4
  <2>2. t \in Tasks /\ u \in Threads /\ u \in Tasks /\ pc[t] # "unborn" /\ target[u] # None
    BY <1>0, <2>1 DEF Joining
  <2>3. root[t] \in Hosts
    BY <1>0, <2>2 DEF LineageOK
  <2>4. parent[t] = u
    BY <1>0, <2>1, <2>2, <2>3 DEF IInv, LineageInv, HolderInv
  <2> QED
    BY <2>4
<1>6. S \in SUBSET Tasks /\ \A t \in S : pc[t] # "unborn"
  BY DEF Joining
<1> HIDE DEF S
<1> QED
  BY <1>1, <1>5, <1>6 DEF IInv, LineageInv, TreeInv

\* What a thread waits for that is inside the runtime and cannot go on.
LEMMA Blocked ==
    ASSUME IInv, NEW th \in Threads, Inside(th), ~CanGo(th)
    PROVE  \/ pc[th] \in {"spawned", "leaving"} /\ mutex # None
           \/ th \in Joining /\ target[th] \in Tasks /\ pc[target[th]] # "ended"
           \/ /\ pc[th] = "sweeping" /\ mutex = th
              /\ \E t \in Tasks : context[t] = "live" /\ pc[t] # "ended"
<1>1. CASE pc[th] \in {"spawned", "leaving"}
  BY <1>1 DEF CanGo
<1>2. CASE pc[th] = "joining"
  BY <1>2 DEF CanGo, Joining, IInv, OwnerInv, HoldOK
<1>3. CASE pc[th] = "sweeping"
  <2>1. th \in Hosts /\ mutex = th
    <3>1. th \in Tasks => pc[th] \in TaskPc
      BY DEF IInv, TypeInv, Shape, PcOK
    <3> QED
      BY <1>3, <3>1 DEF IInv, OwnerInv, TaskPc, Threads
  <2>2. PICK n \in Ids : g_thread_map[n] # None /\ context[g_thread_map[n]] # "deleted"
    BY <1>3 DEF CanGo
  <2> DEFINE t == g_thread_map[n]
  <2>3. t \in Tasks /\ TaskOK(t) /\ context[t] \in {"none", "live", "deleted"}
    BY <2>2 DEF IInv, TypeInv, Shape, OwnerInv
  <2>a. handle[t] = n /\ n # 0
    BY <2>2 DEF IInv, OwnerInv, EntryOK, Ids
  <2>4. context[t] = "live"
    BY <2>2, <2>3, <2>a DEF TaskOK
  <2>5. pc[t] # "ended"
    BY <1>3, <2>2, <2>4 DEF CanGo
  <2> QED
    BY <1>3, <2>1, <2>3, <2>4, <2>5
<1> QED
  BY <1>1, <1>2, <1>3 DEF Inside

\* A task that lives but cannot go on is itself inside spawn or join.
LEMMA TaskWaits ==
    ASSUME IInv, NEW t \in Tasks, context[t] = "live", pc[t] # "ended", ~CanGo(t)
    PROVE  t \in Threads /\ pc[t] \in {"spawned", "joining"}
<1>1. t \in Threads /\ pc[t] \in TaskPc /\ pc[t] # "unborn"
  BY DEF IInv, TypeInv, Shape, PcOK, OwnerInv, TaskOK, Threads
<1> QED
  BY <1>1 DEF CanGo, TaskPc

\* The mutex is held across steps only by a host that cleans up.
HeldInv == mutex # None => mutex \in Hosts /\ pc[mutex] = "sweeping"

LEMMA HeldInvariant == Spec => []HeldInv
<1>1. Init => HeldInv
  BY DEF Init, HeldInv
<1>2. IInv /\ HeldInv /\ [Next]_vars => HeldInv'
  <2> SUFFICES ASSUME IInv, HeldInv, [Next]_vars PROVE HeldInv'
    OBVIOUS
  <2>0. /\ Hosts \cap Tasks = {} /\ \A h \in Hosts : h \in Threads /\ h # None
        /\ pc \in [Threads -> HostPc \cup TaskPc]
    BY ThreadsAssumption DEF Threads, IInv, TypeInv, Shape, PcOK
  <2> USE <2>0 DEF HeldInv, Goto
  <2>1. ASSUME NEW h \in Hosts, Enter(h) \/ Leave(h) PROVE HeldInv'
    BY <2>1 DEF Enter, Leave
  <2>2. ASSUME NEW h \in Hosts, SweepLock(h) PROVE HeldInv'
    BY <2>2 DEF SweepLock
  <2>3. ASSUME NEW h \in Hosts, NEW n \in Ids, SweepJoin(h, n) PROVE HeldInv'
    BY <2>3 DEF SweepJoin
  <2>4. ASSUME NEW h \in Hosts, SweepEnd(h) PROVE HeldInv'
    BY <2>4 DEF SweepEnd
  <2>5. ASSUME NEW th \in Threads, NEW t \in Tasks, Spawn(th, t) PROVE HeldInv'
    BY <2>5 DEF Spawn, Scripting
  <2>6. ASSUME NEW th \in Threads, NEW t \in Tasks, JoinTake(th, t) PROVE HeldInv'
    BY <2>6 DEF JoinTake, Scripting
  <2>7. ASSUME NEW th \in Threads, Register(th) \/ JoinReturn(th) PROVE HeldInv'
    BY <2>7 DEF Register, JoinReturn
  <2>8. ASSUME NEW t \in Tasks, Finish(t) PROVE HeldInv'
    BY <2>8 DEF Finish
  <2>9. CASE UNCHANGED vars
    BY <2>9 DEF vars
  <2> QED
    BY <2>1, <2>2, <2>3, <2>4, <2>5, <2>6, <2>7, <2>8, <2>9 DEF Next, ThreadCall, HostLeaves
<1> QED
  BY <1>1, <1>2, Invariance, PTL DEF Spec

(* Threads inside spawn, join and the clean-up never wait in a circle: a     *)
(* thread joins only tasks that descend from it, and no set of tasks         *)
(* descends from itself.                                                     *)
THEOREM ThreadsGoOn == Spec => []SomebodyGoesOn
<1>1. IInv /\ HeldInv => SomebodyGoesOn
  <2> SUFFICES ASSUME IInv, HeldInv, NEW th \in Threads, Inside(th),
                      mutex = None \/ \A t \in Tasks : parent[t] \notin Tasks,
                      \A x \in Threads : ~CanGo(x)
               PROVE  FALSE
    BY DEF SomebodyGoesOn
  <2>0. \A t \in Tasks : t \in Threads /\ t # None
    BY ThreadsAssumption DEF Threads
  <2>1. CASE mutex = None
    <3>1. \A x \in Threads : Inside(x) => x \in Joining
      BY <2>1, <2>0, Blocked, ThreadsAssumption DEF Threads
    <3>2. PICK x \in Joining : target[x] \notin Joining
      BY <3>1, JoinsEnd
    <3> DEFINE t == target[x]
    <3>3. t \in Tasks /\ context[t] = "live" /\ pc[t] # "ended"
      BY <3>2 DEF Joining, CanGo, IInv, OwnerInv, HoldOK
    <3>4. pc[t] \in {"spawned", "joining"} /\ t \in Threads
      BY <2>0, <3>3, TaskWaits
    <3> QED
      BY <3>1, <3>2, <3>4 DEF Inside
  <2>2. CASE mutex # None /\ \A t \in Tasks : parent[t] \notin Tasks
    \* No task holds a task, so none is inside spawn or join.
    <3>1. ASSUME NEW t \in Tasks, pc[t] \in {"spawned", "joining"} PROVE FALSE
      <4>1. t \in Threads /\ target[t] \in Tasks /\ target[t] # None /\ context[target[t]] = "live"
        BY <2>0, <3>1 DEF IInv, OwnerInv, HoldOK
      <4>2. root[target[t]] \in Hosts
        BY <4>1 DEF IInv, OwnerInv, TaskOK, LineageInv, LineageOK
      <4>3. parent[target[t]] = t
        BY <4>1, <4>2, ThreadsAssumption DEF IInv, LineageInv, HolderInv
      <4> QED
        BY <2>2, <4>1, <4>3
    <3>2. \A t \in Tasks : context[t] = "live" => pc[t] = "ended"
      BY <2>0, <3>1, TaskWaits
    <3>3. \A x \in Threads : Inside(x) => pc[x] \in {"spawned", "leaving"}
      BY <3>2, Blocked DEF Joining, IInv, OwnerInv, HoldOK
    <3>4. mutex \in Threads /\ Inside(mutex) /\ pc[mutex] = "sweeping"
      BY <2>2 DEF HeldInv, Inside, Threads
    <3> QED
      BY <3>3, <3>4
  <2> QED
    BY <2>1, <2>2
<1> QED
  BY <1>1, Invariance, HeldInvariant, PTL

=============================================================================
