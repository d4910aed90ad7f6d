--------------------- MODULE SimulationControllerProofs ---------------------
(***************************************************************************)
(* Proofs about SimulationController, for any threads, whatever methods    *)
(* they call.                                                              *)
(*                                                                         *)
(* LockInv says which mutexes a thread holds at each place, also one that  *)
(* waits for itself for ever. LocksAreOrdered is a part of it; that the    *)
(* controller's mutex is held throughout a run makes RunIsNotInterrupted   *)
(* inductive.                                                              *)
(*                                                                         *)
(* EveryWaitEnds follows from the same two: who holds a mutex goes on, or  *)
(* waits for itself, or for one that is later in the order, whose holder   *)
(* is followed in turn (HolderProceeds).                                   *)
(***************************************************************************)
EXTENDS SimulationController, TLAPS

Held(th) == {l \in Locks : owner[l] = th}

\* What a thread at l that waits for w may hold.
Fits(l, w, H) ==
    \/ l \in {"idle", "timestep"} /\ w = None /\ H = {}
    \/ l \in Ops \ {"timestep"} /\ w = None /\ H = {LockOf(l)}
    \/ /\ l \in Ops \ {"timestep"} /\ w = LockOf(l)
       /\ H = {} \/ (w \in H /\ H \subseteq {w, "controller"})
    \/ l = "startCompile" /\ w = "sources" /\ H = {"controller"}
    \/ l = "startCompile" /\ w = None /\ H = {"controller", "sources"}
    \/ l = "startNgspice" /\ w = None /\ H = {"controller"}
    \/ l \in {"stepped", "looping"} /\ w = "hook" /\ H = {"controller"}
    \/ l \in {"stepped", "looping"} /\ w = None
         /\ (H = {"controller"} \/ H = {"controller", "hook"})
    \/ l = "callback" /\ w = "controller" /\ H = {"controller"}

ThreadOK(th) ==
    /\ pc[th] \in Ops \cup Inner \cup {"idle"}
    /\ wants[th] \in Locks \cup {None}
    /\ Fits(pc[th], wants[th], Held(th))

LockTypes ==
    /\ owner \in [Locks -> Threads \cup {None}]
    /\ pc \in [Threads -> Ops \cup Inner \cup {"idle"}]
    /\ wants \in [Threads -> Locks \cup {None}]

LockInv == LockTypes /\ \A th \in Threads : Fits(pc[th], wants[th], Held(th))

----------------------------------------------------------------------------
\* A step of th alone, after which what it holds fits the place it is at.
LEMMA LockStep ==
    ASSUME LockInv, NEW th \in Threads, LockTypes',
           \A x \in Threads \ {th} : pc'[x] = pc[x] /\ wants'[x] = wants[x] /\ Held(x)' = Held(x),
           Fits(pc'[th], wants'[th], Held(th)')
    PROVE  LockInv'
<1>1. ASSUME NEW x \in Threads \ {th} PROVE Fits(pc'[x], wants'[x], Held(x)')
  <2>1. Fits(pc[x], wants[x], Held(x))
    BY DEF LockInv
  <2>2. pc'[x] = pc[x] /\ wants'[x] = wants[x] /\ Held(x)' = Held(x)
    OBVIOUS
  <2> QED
    BY <2>1, <2>2 DEF Fits
<1>2. \A x \in Threads : Fits(pc'[x], wants'[x], Held(x)')
  BY <1>1
<1> QED
  BY <1>2 DEF LockInv, Fits

\* Goto, nothing locked or unlocked.
LEMMA GotoStep ==
    ASSUME LockInv, NEW th \in Threads, NEW l \in Ops \cup Inner \cup {"idle"},
           NEW w \in Locks \cup {None}, Goto(th, l, w), UNCHANGED owner,
           Fits(l, w, Held(th))
    PROVE  LockInv'
<1>1. LockTypes'
  BY DEF LockInv, LockTypes, Goto
<1>2. \A x \in Threads : Held(x)' = Held(x)
  BY DEF Held
<1>3. \A x \in Threads \ {th} : pc'[x] = pc[x] /\ wants'[x] = wants[x]
  BY DEF LockInv, LockTypes, Goto
<1>4. pc'[th] = l /\ wants'[th] = w
  BY DEF LockInv, LockTypes, Goto
<1>5. Fits(pc'[th], wants'[th], Held(th)')
  BY <1>2, <1>4
<1> QED
  BY <1>1, <1>2, <1>3, <1>5, LockStep

\* A mutex given back.
LEMMA Release ==
    ASSUME LockTypes, NEW th \in Threads, NEW l \in Locks, owner[l] = th,
           owner' = [owner EXCEPT ![l] = None]
    PROVE  /\ owner' \in [Locks -> Threads \cup {None}]
           /\ Held(th)' = Held(th) \ {l}
           /\ \A x \in Threads \ {th} : Held(x)' = Held(x)
  BY ConstantsAssumption DEF LockTypes, Held

\* Return, of a thread that holds the method's mutex and no other.
LEMMA ReturnStep ==
    ASSUME LockInv, NEW th \in Threads, NEW l \in Locks, Held(th) = {l},
           wants[th] = None, Return(th, l)
    PROVE  LockInv'
<1>1. owner[l] = th /\ owner' = [owner EXCEPT ![l] = None]
  BY DEF Held, Return
<1>2. LockTypes
  BY DEF LockInv
<1>3. LockTypes'
  BY <1>1, <1>2, Release DEF LockTypes, Return
<1>4. /\ Held(th)' = {}
      /\ \A x \in Threads \ {th} : Held(x)' = Held(x)
  BY <1>1, <1>2, Release
<1>5. /\ pc'[th] = "idle" /\ wants'[th] = None
      /\ \A x \in Threads \ {th} : pc'[x] = pc[x] /\ wants'[x] = wants[x]
  BY <1>2 DEF LockTypes, Return
<1>6. Fits(pc'[th], wants'[th], Held(th)')
  BY <1>4, <1>5 DEF Fits
<1> QED
  BY <1>3, <1>4, <1>5, <1>6, LockStep

\* What a thread that waits for nothing holds.
LEMMA HeldAt ==
    ASSUME LockInv, NEW th \in Threads, wants[th] = None
    PROVE  /\ pc[th] \in Ops \ {"timestep"} => Held(th) = {LockOf(pc[th])}
           /\ pc[th] \in {"idle", "timestep"} => Held(th) = {}
           /\ pc[th] = "startCompile" => Held(th) = {"controller", "sources"}
           /\ pc[th] = "startNgspice" => Held(th) = {"controller"}
           /\ pc[th] \in {"stepped", "looping"} =>
                Held(th) = {"controller"} \/ Held(th) = {"controller", "hook"}
           /\ pc[th] # "callback"
<1>1. Fits(pc[th], wants[th], Held(th))
  BY DEF LockInv
<1>2. None \notin Locks
  BY ConstantsAssumption
<1>3. \A op \in Ops \ {"timestep"} : LockOf(op) \in Locks
  BY DEF LockOf, Ops, ControllerOps, SourceOps, HookOps, Locks
<1>4. None # "hook" /\ None # "sources" /\ None # "controller"
  BY <1>2 DEF Locks
<1> QED
  BY <1>1, <1>2, <1>3, <1>4 DEF Fits, Ops, ControllerOps, SourceOps, HookOps

LEMMA LockOps ==
    /\ \A op \in ControllerOps : LockOf(op) = "controller"
    /\ \A op \in SourceOps : LockOf(op) = "sources"
    /\ \A op \in HookOps : LockOf(op) = "hook"
    /\ LockOf("timestep") = None
    /\ None \notin Locks
  BY ConstantsAssumption DEF LockOf, ControllerOps, SourceOps, HookOps, Locks

----------------------------------------------------------------------------
LEMMA InitLocks == Init => LockInv
<1> SUFFICES ASSUME Init PROVE LockInv
  OBVIOUS
<1>1. LockTypes
  BY DEF Init, LockTypes
<1>2. \A th \in Threads : Held(th) = {}
  BY ConstantsAssumption DEF Init, Held
<1> QED
  BY <1>1, <1>2 DEF Init, LockInv, Fits

LEMMA CallLocks ==
    ASSUME LockInv, NEW th \in Threads, NEW op \in Ops, Call(th, op)
    PROVE  LockInv'
<1>1. Goto(th, op, LockOf(op)) /\ UNCHANGED owner
  BY DEF Call, Goto
<1>2. LockOf(op) \in Locks \cup {None}
  BY LockOps DEF Ops, Locks
<1>3. pc[th] = "idle"
  BY DEF Call
<1>4. Held(th) = {}
  BY <1>3 DEF LockInv, Fits, Ops, ControllerOps, SourceOps, HookOps
<1>5. Fits(op, LockOf(op), {})
  BY LockOps DEF Fits
<1> QED
  BY <1>1, <1>2, <1>4, <1>5, GotoStep

LEMMA AcquireLocks ==
    ASSUME LockInv, NEW th \in Threads, Acquire(th)
    PROVE  LockInv'
<1> DEFINE l == wants[th]
<1>1. l \in Locks /\ owner[l] = None /\ owner' = [owner EXCEPT ![l] = th]
  BY DEF Acquire, LockInv, LockTypes
<1>2. /\ pc' = pc /\ wants'[th] = None
      /\ \A x \in Threads \ {th} : wants'[x] = wants[x]
  BY DEF Acquire, LockInv, LockTypes
<1>3. LockTypes'
  BY DEF Acquire, LockInv, LockTypes
<1>4. Held(th)' = Held(th) \cup {l}
  BY <1>1 DEF LockInv, LockTypes, Held
<1>5. \A x \in Threads \ {th} : Held(x)' = Held(x)
  BY <1>1, ConstantsAssumption DEF LockInv, LockTypes, Held
<1>6. l \notin Held(th)
  BY <1>1, ConstantsAssumption DEF Held
<1>7. Fits(pc[th], l, Held(th)) /\ l # None
  BY DEF LockInv, Acquire
<1>8. Fits(pc[th], None, Held(th) \cup {l})
  BY <1>6, <1>7, LockOps DEF Fits, Locks
<1> QED
  BY <1>2, <1>3, <1>4, <1>5, <1>8, LockStep

\* A thread that holds the controller's mutex alone, at any point of a method.
LEMMA CallbackStep ==
    ASSUME LockInv, NEW th \in Threads, Held(th) = {"controller"}, wants[th] = None,
           Callback(th)
    PROVE  LockInv'
<1>1. CASE Return(th, "controller")
  BY <1>1, ReturnStep DEF Locks
<1>2. CASE Goto(th, "callback", "controller") /\ UNCHANGED owner
  BY <1>2, GotoStep DEF Locks, Inner, Fits
<1> QED
  BY <1>1, <1>2 DEF Callback

LEMMA WalkStep ==
    ASSUME LockInv, NEW th \in Threads, Held(th) = {"controller"}, wants[th] = None,
           NEW l \in {"stepped", "looping"}, Walk(th, l), UNCHANGED owner
    PROVE  LockInv'
<1>1. CASE Goto(th, l, "hook")
  BY <1>1, GotoStep DEF Locks, Inner, Fits
<1>2. CASE Goto(th, l, None)
  BY <1>2, GotoStep DEF Locks, Inner, Fits
<1> QED
  BY <1>1, <1>2 DEF Walk

----------------------------------------------------------------------------
\* The actions of the controller.
LEMMA ControllerLocks ==
    ASSUME LockInv, NEW th \in Threads,
           \/ Initialize(th) \/ Finalize(th) \/ Start(th) \/ StartNgspice(th)
           \/ Stop(th) \/ Pause(th) \/ Query(th) \/ Step(th)
           \/ (\E a, b \in 0 .. MaxTime : Run(th, a, b)) \/ Loop(th) \/ Stepped(th)
    PROVE  LockInv'
<1>1. CASE Initialize(th)
  <2>1. wants[th] = None /\ pc[th] = "initialize" /\ Return(th, "controller")
    BY <1>1 DEF Initialize, At
  <2> QED
    BY <2>1, HeldAt, LockOps, ReturnStep DEF Ops, ControllerOps, Locks
<1>2. CASE Finalize(th)
  <2>1. /\ wants[th] = None /\ pc[th] = "finalize"
        /\ Goto(th, "stop", "controller") /\ UNCHANGED owner
    BY <1>2 DEF Finalize, At
  <2>2. Held(th) = {"controller"}
    BY <2>1, HeldAt, LockOps DEF Ops, ControllerOps
  <2>3. Fits("stop", "controller", {"controller"})
    BY LockOps DEF Fits, Ops, ControllerOps
  <2> QED
    BY <2>1, <2>2, <2>3, GotoStep DEF Ops, ControllerOps, Locks
<1>3. CASE Start(th)
  <2>1. wants[th] = None /\ pc[th] = "start"
    BY <1>3 DEF Start, At
  <2>2. Held(th) = {"controller"}
    BY <2>1, HeldAt, LockOps DEF Ops, ControllerOps
  <2>3. CASE Return(th, "controller")
    BY <2>1, <2>2, <2>3, ReturnStep DEF Locks
  <2>4. CASE Goto(th, "startCompile", "sources") /\ UNCHANGED owner
    BY <2>2, <2>4, GotoStep DEF Locks, Inner, Fits
  <2> QED
    BY <1>3, <2>3, <2>4 DEF Start
<1>4. CASE StartNgspice(th)
  BY <1>4, HeldAt, CallbackStep DEF StartNgspice, At
<1>5. CASE Stop(th)
  <2>1. wants[th] = None /\ pc[th] = "stop"
    BY <1>5 DEF Stop, At
  <2>2. Held(th) = {"controller"}
    BY <2>1, HeldAt, LockOps DEF Ops, ControllerOps
  <2>3. Callback(th) \/ Return(th, "controller")
    BY <1>5 DEF Stop
  <2> QED
    BY <2>1, <2>2, <2>3, CallbackStep, ReturnStep DEF Locks
<1>6. CASE Pause(th)
  <2>1. wants[th] = None /\ pc[th] \in {"pause", "resume"} /\ Return(th, "controller")
    BY <1>6 DEF Pause
  <2>2. Held(th) = {"controller"}
    BY <2>1, HeldAt, LockOps DEF Ops, ControllerOps
  <2> QED
    BY <2>1, <2>2, ReturnStep DEF Locks
<1>7. CASE Query(th)
  <2>1. wants[th] = None /\ pc[th] \in {"query", "evaluate"} /\ Return(th, LockOf(pc[th]))
    BY <1>7 DEF Query
  <2>2. Held(th) = {LockOf(pc[th])} /\ LockOf(pc[th]) \in Locks
    BY <2>1, HeldAt, LockOps DEF Ops, ControllerOps, SourceOps, Locks
  <2> QED
    BY <2>1, <2>2, ReturnStep
<1>8. CASE Step(th)
  <2>1. wants[th] = None /\ pc[th] = "step"
    BY <1>8 DEF Step, At
  <2>2. Held(th) = {"controller"}
    BY <2>1, HeldAt, LockOps DEF Ops, ControllerOps
  <2>3. Return(th, "controller") \/ (Walk(th, "stepped") /\ UNCHANGED owner)
    <3>1. CASE ~m_running \/ m_paused \/ m_current_time = MaxTime
      BY <1>8, <3>1 DEF Step
    <3>2. CASE ~(~m_running \/ m_paused \/ m_current_time = MaxTime)
      BY <1>8, <3>2 DEF Step
    <3> QED
      BY <3>1, <3>2
  <2> QED
    BY <2>1, <2>2, <2>3, ReturnStep, WalkStep DEF Locks
<1>9. ASSUME NEW a \in 0 .. MaxTime, NEW b \in 0 .. MaxTime, Run(th, a, b)
      PROVE  LockInv'
  <2>1. wants[th] = None /\ pc[th] = "run"
    BY <1>9 DEF Run, At
  <2>2. Held(th) = {"controller"}
    BY <2>1, HeldAt, LockOps DEF Ops, ControllerOps
  <2>3. \/ Return(th, "controller") \/ Callback(th)
        \/ Walk(th, "looping") /\ UNCHANGED owner
    BY <1>9 DEF Run
  <2> QED
    BY <2>1, <2>2, <2>3, ReturnStep, CallbackStep, WalkStep DEF Locks
<1>10. CASE Loop(th) \/ Stepped(th)
  <2>1. wants[th] = None /\ pc[th] \in {"stepped", "looping"} /\ owner["hook"] # th
    BY <1>10 DEF Loop, Stepped, At
  <2>2. Held(th) = {"controller"}
    BY <2>1, HeldAt DEF Held, Locks
  <2>3. Return(th, "controller") \/ (Walk(th, "looping") /\ UNCHANGED owner)
    <3>1. CASE Stepped(th)
      BY <3>1 DEF Stepped
    <3>2. CASE Loop(th)
      <4>1. CASE m_current_time < until /\ m_running /\ ~m_paused
        BY <3>2, <4>1 DEF Loop
      <4>2. CASE ~(m_current_time < until /\ m_running /\ ~m_paused)
        BY <3>2, <4>2 DEF Loop
      <4> QED
        BY <4>1, <4>2
    <3> QED
      BY <1>10, <3>1, <3>2
  <2> QED
    BY <2>1, <2>2, <2>3, ReturnStep, WalkStep DEF Locks
<1> QED
  BY <1>1, <1>2, <1>3, <1>4, <1>5, <1>6, <1>7, <1>8, <1>9, <1>10

\* The actions of the hook and of the sources.
LEMMA OtherLocks ==
    ASSUME LockInv, NEW th \in Threads,
           \/ CompileAll(th) \/ Timestep(th) \/ Node(th) \/ OnTimeStep(th) \/ HookChange(th)
           \/ (\E n \in Names : \/ \E e \in Exprs : Register(th, n, e)
                               \/ Unregister(th, n) \/ CompileSource(th, n))
           \/ Netlist(th)
    PROVE  LockInv'
<1>1. CASE CompileAll(th)
  <2>1. wants[th] = None /\ pc[th] \in {"compileAll", "startCompile"}
    BY <1>1 DEF CompileAll
  <2>2. CASE Goto(th, "compile", "sources") /\ UNCHANGED owner
    <3>1. "sources" \in Held(th) /\ Held(th) \subseteq {"sources", "controller"}
      BY <2>1, HeldAt, LockOps DEF Ops, SourceOps
    <3>2. Fits("compile", "sources", Held(th))
      BY <3>1, LockOps DEF Fits, Ops, SourceOps
    <3> QED
      BY <2>2, <3>2, GotoStep DEF Ops, SourceOps, Locks
  <2>3. CASE /\ owner' = [owner EXCEPT !["sources"] = None]
             /\ pc' = [pc EXCEPT ![th] = IF @ = "compileAll" THEN "idle" ELSE "startNgspice"]
             /\ UNCHANGED wants
    <3>1. "sources" \in Held(th) /\ "sources" \in Locks
      BY <2>1, HeldAt, LockOps DEF Ops, SourceOps, Locks
    <3>2. owner["sources"] = th /\ LockTypes
      BY <3>1 DEF Held, LockInv
    <3>3. /\ LockTypes'
          /\ Held(th)' = Held(th) \ {"sources"}
          /\ \A x \in Threads \ {th} : Held(x)' = Held(x)
      BY <2>3, <3>1, <3>2, Release DEF LockTypes, Inner
    <3>4. /\ \A x \in Threads \ {th} : pc'[x] = pc[x] /\ wants'[x] = wants[x]
          /\ wants'[th] = None
          /\ pc'[th] = IF pc[th] = "compileAll" THEN "idle" ELSE "startNgspice"
      BY <2>1, <2>3, <3>2 DEF LockTypes
    <3>5. CASE pc[th] = "compileAll"
      <4>1. Held(th) = {"sources"}
        BY <2>1, <3>5, HeldAt, LockOps DEF Ops, SourceOps
      <4>2. Fits(pc'[th], wants'[th], Held(th)')
        BY <3>3, <3>4, <3>5, <4>1 DEF Fits
      <4> QED
        BY <3>3, <3>4, <4>2, LockStep
    <3>6. CASE pc[th] = "startCompile"
      <4>1. Held(th) = {"controller", "sources"}
        BY <2>1, <3>6, HeldAt
      <4>2. Fits(pc'[th], wants'[th], Held(th)')
        BY <3>3, <3>4, <3>6, <4>1 DEF Fits
      <4> QED
        BY <3>3, <3>4, <4>2, LockStep
    <3> QED
      BY <2>1, <3>5, <3>6
  <2> QED
    BY <1>1, <2>2, <2>3 DEF CompileAll
<1>2. CASE Timestep(th)
  <2>1. wants[th] = None /\ pc[th] = "timestep" /\ UNCHANGED owner
    BY <1>2 DEF Timestep, At
  <2>2. Held(th) = {}
    BY <2>1, HeldAt
  <2>3. Fits("node", "hook", {}) /\ Fits("idle", None, {})
    BY LockOps DEF Fits, Ops, HookOps
  <2>4. Goto(th, "node", "hook") \/ Goto(th, "idle", None)
    BY <1>2 DEF Timestep
  <2> QED
    BY <2>1, <2>2, <2>3, <2>4, GotoStep DEF Ops, HookOps, Locks
<1>3. CASE Node(th)
  <2>1. /\ wants[th] = None /\ pc[th] \in {"node", "stepped", "looping"} /\ owner["hook"] = th
        /\ owner' = [owner EXCEPT !["hook"] = None]
        /\ pc' = [pc EXCEPT ![th] = IF @ = "node" THEN "idle" ELSE @] /\ UNCHANGED wants
    BY <1>3 DEF Node
  <2>2. LockTypes /\ "hook" \in Locks /\ "hook" \in Held(th)
    BY <2>1 DEF LockInv, Locks, Held
  <2>3. /\ LockTypes'
        /\ Held(th)' = Held(th) \ {"hook"}
        /\ \A x \in Threads \ {th} : Held(x)' = Held(x)
    BY <2>1, <2>2, Release DEF LockTypes
  <2>4. /\ \A x \in Threads \ {th} : pc'[x] = pc[x] /\ wants'[x] = wants[x]
        /\ wants'[th] = None
        /\ pc'[th] = IF pc[th] = "node" THEN "idle" ELSE pc[th]
    BY <2>1, <2>2 DEF LockTypes
  <2>5. Fits(pc'[th], wants'[th], Held(th)')
    <3>1. CASE pc[th] = "node"
      <4>1. Held(th) = {"hook"}
        BY <2>1, <3>1, HeldAt, LockOps DEF Ops, HookOps
      <4> QED
        BY <2>3, <2>4, <3>1, <4>1 DEF Fits
    <3>2. CASE pc[th] \in {"stepped", "looping"}
      <4>1. Held(th) = {"controller", "hook"}
        BY <2>1, <2>2, <3>2, HeldAt
      <4> QED
        BY <2>3, <2>4, <3>2, <4>1 DEF Fits
    <3> QED
      BY <2>1, <3>1, <3>2
  <2> QED
    BY <2>3, <2>4, <2>5, LockStep
<1>4. CASE OnTimeStep(th)
  <2>1. wants[th] = None /\ pc[th] = "onTimeStep"
    BY <1>4 DEF OnTimeStep, At
  <2>2. Held(th) = {"hook"}
    BY <2>1, HeldAt, LockOps DEF Ops, HookOps
  <2>3. CASE Return(th, "hook")
    BY <2>1, <2>2, <2>3, ReturnStep DEF Locks
  <2>4. CASE Goto(th, "node", "hook") /\ UNCHANGED owner
    <3>1. Fits("node", "hook", {"hook"})
      BY LockOps DEF Fits, Ops, HookOps
    <3> QED
      BY <2>2, <2>4, <3>1, GotoStep DEF Ops, HookOps, Locks
  <2> QED
    BY <1>4, <2>3, <2>4 DEF OnTimeStep
<1>5. CASE HookChange(th)
  <2>1. /\ wants[th] = None /\ pc[th] \in {"simStart", "simEnd", "integrate", "hookFinalize"}
        /\ Return(th, "hook")
    BY <1>5 DEF HookChange
  <2>2. Held(th) = {"hook"}
    BY <2>1, HeldAt, LockOps DEF Ops, HookOps
  <2> QED
    BY <2>1, <2>2, ReturnStep DEF Locks
<1>6. ASSUME NEW n \in Names,
             \/ \E e \in Exprs : Register(th, n, e)
             \/ Unregister(th, n) \/ CompileSource(th, n)
      PROVE  LockInv'
  <2>1. /\ wants[th] = None /\ pc[th] \in {"register", "unregister", "compile"}
        /\ Return(th, "sources")
    BY <1>6 DEF Register, Unregister, CompileSource, At
  <2>2. Held(th) = {"sources"}
    BY <2>1, HeldAt, LockOps DEF Ops, SourceOps
  <2> QED
    BY <2>1, <2>2, ReturnStep DEF Locks
<1>7. CASE Netlist(th)
  <2>1. wants[th] = None /\ pc[th] = "netlist"
    BY <1>7 DEF Netlist, At
  <2>2. Held(th) = {"sources"}
    BY <2>1, HeldAt, LockOps DEF Ops, SourceOps
  <2>3. CASE Return(th, "sources")
    BY <2>1, <2>2, <2>3, ReturnStep DEF Locks
  <2>4. CASE Goto(th, "evaluate", "sources") /\ UNCHANGED owner
    <3>1. Fits("evaluate", "sources", {"sources"})
      BY LockOps DEF Fits, Ops, SourceOps
    <3> QED
      BY <2>2, <2>4, <3>1, GotoStep DEF Ops, SourceOps, Locks
  <2> QED
    BY <1>7, <2>3, <2>4 DEF Netlist
<1> QED
  BY <1>1, <1>2, <1>3, <1>4, <1>5, <1>6, <1>7

LEMMA NextLocks == LockInv /\ [Next]_vars => LockInv'
<1> SUFFICES ASSUME LockInv, [Next]_vars PROVE LockInv'
  OBVIOUS
<1>1. ASSUME NEW th \in Threads, Proceed(th) PROVE LockInv'
  BY <1>1, AcquireLocks, ControllerLocks, OtherLocks DEF Proceed
<1>2. ASSUME NEW th \in Threads, NEW op \in Calls[th], Call(th, op) PROVE LockInv'
  <2>1. op \in Ops
    BY CallsAssumption
  <2> QED
    BY <1>2, <2>1, CallLocks
<1>3. CASE UNCHANGED vars
  BY <1>3 DEF vars, LockInv, LockTypes, Held, Fits
<1> QED
  BY <1>1, <1>2, <1>3 DEF Next

\* Threads never wait for each other in a circle: one that waits for a mutex
\* holds no other, unless it waits inside the controller for a mutex below it
\* (the lock_guards of simulation_hook.cpp).
THEOREM LocksOrdered == Spec => []LocksAreOrdered
<1>1. LockInv => LocksAreOrdered
  <2> SUFFICES ASSUME LockInv, NEW th \in Threads, NEW l \in Locks,
                      wants[th] # None, owner[l] = th
               PROVE  l = wants[th] \/ l = "controller"
    BY DEF LocksAreOrdered
  <2>1. l \in Held(th)
    BY DEF Held
  <2>2. Fits(pc[th], wants[th], Held(th))
    BY DEF LockInv
  <2> QED
    BY <2>1, <2>2 DEF Fits
<1> QED
  BY <1>1, InitLocks, NextLocks, PTL DEF Spec

----------------------------------------------------------------------------
\* The rest of the types.
DataTypes ==
    /\ m_running \in BOOLEAN /\ m_paused \in BOOLEAN
    /\ m_current_time \in 0 .. MaxTime /\ until \in 0 .. MaxTime
    /\ m_simulation_active \in BOOLEAN /\ hasInputs \in BOOLEAN
    /\ m_sources \in [Names -> Exprs \cup {None}]
    /\ jitCode \in [Names -> Exprs \cup {None, Broken}]
    /\ reused \in SUBSET Names

LEMMA InitData == Init => DataTypes
<1> SUFFICES ASSUME Init PROVE DataTypes
  OBVIOUS
<1>1. /\ m_sources \in [Names -> Exprs \cup {None}]
      /\ jitCode \in [Names -> Exprs \cup {None, Broken}]
      /\ reused \in SUBSET Names
  BY DEF Init
<1>2. m_current_time \in 0 .. MaxTime /\ until \in 0 .. MaxTime
  BY ConstantsAssumption DEF Init
<1> QED
  BY <1>1, <1>2 DEF Init, DataTypes

LEMMA ControlData ==
    ASSUME DataTypes, UNCHANGED <<hook, sources>>,
           m_running' \in BOOLEAN, m_paused' \in BOOLEAN,
           m_current_time' \in 0 .. MaxTime, until' \in 0 .. MaxTime
    PROVE  DataTypes'
  BY DEF DataTypes, hook, sources

LEMMA SourcesData ==
    ASSUME DataTypes, UNCHANGED <<control, hook>>,
           m_sources' \in [Names -> Exprs \cup {None}],
           jitCode' \in [Names -> Exprs \cup {None, Broken}],
           reused' \in SUBSET Names
    PROVE  DataTypes'
  BY DEF DataTypes, control, hook

LEMMA SameData == DataTypes /\ UNCHANGED <<control, hook, sources>> => DataTypes'
  BY DEF DataTypes, control, hook, sources

LEMMA NextData == DataTypes /\ [Next]_vars => DataTypes'
<1> SUFFICES ASSUME DataTypes, [Next]_vars PROVE DataTypes'
  OBVIOUS
<1>1. ASSUME NEW th \in Threads,
             \/ Acquire(th) \/ Finalize(th) \/ Start(th) \/ CompileAll(th) \/ Query(th)
             \/ Stepped(th) \/ Timestep(th) \/ Node(th) \/ OnTimeStep(th) \/ Netlist(th)
             \/ \E op \in Calls[th] : Call(th, op)
      PROVE  DataTypes'
  <2>1. UNCHANGED <<control, hook, sources>>
    BY <1>1 DEF Acquire, Finalize, Start, CompileAll, Query, Stepped, Timestep, Node,
                OnTimeStep, Netlist, Call
  <2> QED
    BY <2>1, SameData
<1>2. ASSUME NEW th \in Threads,
             Initialize(th) \/ StartNgspice(th) \/ Stop(th) \/ Pause(th)
      PROVE  DataTypes'
  <2>1. UNCHANGED <<hook, sources, until>>
    BY <1>2 DEF Initialize, StartNgspice, Stop, Pause, control
  <2>2. m_running' \in BOOLEAN /\ m_paused' \in BOOLEAN
    BY <1>2 DEF Initialize, StartNgspice, Stop, Pause, control, DataTypes
  <2>3. m_current_time' \in {m_current_time, 0}
    BY <1>2 DEF Initialize, StartNgspice, Stop, Pause, control
  <2> QED
    BY <2>1, <2>2, <2>3, ControlData, ConstantsAssumption DEF DataTypes
<1>3. ASSUME NEW th \in Threads, Step(th) \/ Loop(th)
      PROVE  DataTypes'
  <2>1. UNCHANGED <<hook, sources, m_running, m_paused>> /\ until' \in {until, 0}
    BY <1>3 DEF Step, Loop
  <2>2. m_current_time' \in 0 .. MaxTime
    BY <1>3, ConstantsAssumption DEF Step, Loop, DataTypes
  <2> QED
    BY <2>1, <2>2, ControlData, ConstantsAssumption DEF DataTypes
<1>4. ASSUME NEW th \in Threads, NEW a \in 0 .. MaxTime, NEW b \in 0 .. MaxTime, Run(th, a, b)
      PROVE  DataTypes'
  <2>1. UNCHANGED <<hook, sources, m_running, m_paused>>
    BY <1>4 DEF Run
  <2>2. m_current_time' \in {m_current_time, a} /\ until' \in {until, b}
    BY <1>4 DEF Run
  <2> QED
    BY <2>1, <2>2, ControlData DEF DataTypes
<1>5. ASSUME NEW th \in Threads, HookChange(th) PROVE DataTypes'
  <2>1. m_simulation_active' \in BOOLEAN /\ hasInputs' \in BOOLEAN
    BY <1>5 DEF HookChange, DataTypes
  <2> QED
    BY <1>5, <2>1 DEF HookChange, DataTypes, control, sources
<1>6. ASSUME NEW th \in Threads, NEW n \in Names, NEW e \in Exprs, Register(th, n, e)
      PROVE  DataTypes'
  BY <1>6, SourcesData DEF Register, DataTypes
<1>7. ASSUME NEW th \in Threads, NEW n \in Names, Unregister(th, n) \/ CompileSource(th, n)
      PROVE  DataTypes'
  <2>1. CASE Unregister(th, n)
    BY <2>1, SourcesData DEF Unregister, DataTypes
  <2>2. CASE CompileSource(th, n)
    BY <2>2, SourcesData DEF CompileSource, DataTypes
  <2> QED
    BY <1>7, <2>1, <2>2
<1>8. CASE UNCHANGED vars
  BY <1>8, SameData DEF vars
<1> QED
  BY <1>1, <1>2, <1>3, <1>4, <1>5, <1>6, <1>7, <1>8 DEF Next, Proceed

\* Every variable has its type, whatever the threads call in whatever order
\* (simulation_hook.cpp).
THEOREM TypeCorrect == Spec => []TypeOK
<1>1. LockInv /\ DataTypes => TypeOK
  BY DEF LockInv, LockTypes, DataTypes, TypeOK
<1> QED
  BY <1>1, InitLocks, NextLocks, InitData, NextData, PTL DEF Spec

----------------------------------------------------------------------------
Busy == {"stepped", "looping"}

\* A step or a run holds the controller's mutex throughout.
LEMMA BusyHolds ==
    ASSUME LockInv, NEW th \in Threads, pc[th] \in Busy
    PROVE  owner["controller"] = th
<1>1. Fits(pc[th], wants[th], Held(th))
  BY DEF LockInv
<1>2. pc[th] \notin Ops \cup {"idle", "timestep", "startCompile", "startNgspice", "callback"}
  BY DEF Busy, Ops, ControllerOps, SourceOps, HookOps
<1>3. "controller" \in Held(th)
  BY <1>1, <1>2 DEF Fits
<1> QED
  BY <1>3 DEF Held

LEMMA FlagsKept ==
    ASSUME RunIsNotInterrupted, UNCHANGED <<m_running, m_paused>>,
           \A x \in Threads : pc'[x] \in Busy => pc[x] \in Busy
    PROVE  RunIsNotInterrupted'
  BY DEF RunIsNotInterrupted, Busy

\* The methods that set the flags hold the mutex, so nobody is in a run.
LEMMA FlagsSet ==
    ASSUME LockInv, NEW th \in Threads,
           Initialize(th) \/ StartNgspice(th) \/ Stop(th) \/ Pause(th)
    PROVE  RunIsNotInterrupted'
<1>1. /\ pc[th] \in {"initialize", "startNgspice", "stop", "pause", "resume"}
      /\ wants[th] = None
  BY DEF Initialize, StartNgspice, Stop, Pause, At
<1>2. Held(th) = {"controller"}
  BY <1>1, HeldAt, LockOps DEF Ops, ControllerOps
<1>3. owner["controller"] = th
  BY <1>2 DEF Held
<1>4. \A x \in Threads : pc[x] \notin Busy
  BY <1>1, <1>3, BusyHolds DEF Busy
<1>5. \E l \in {"idle", "callback"} : pc' = [pc EXCEPT ![th] = l]
  BY DEF Initialize, StartNgspice, Stop, Pause, Callback, Return, Goto
<1>6. \A x \in Threads : pc'[x] \notin Busy
  BY <1>4, <1>5 DEF Busy, LockInv, LockTypes
<1> QED
  BY <1>6 DEF RunIsNotInterrupted, Busy

\* A step begins, or a run, or the loop goes round.
LEMMA FlagsRun ==
    ASSUME LockInv, RunIsNotInterrupted, NEW th \in Threads,
           \/ Step(th) \/ Loop(th) \/ \E a, b \in 0 .. MaxTime : Run(th, a, b)
    PROVE  RunIsNotInterrupted'
<1>1. UNCHANGED <<m_running, m_paused>>
  BY DEF Step, Loop, Run
<1>2. PICK l \in Busy \cup {"idle", "callback"} :
        pc' = [pc EXCEPT ![th] = l] /\ (l \in Busy => m_running /\ ~m_paused)
  <2>1. CASE Step(th)
    BY <2>1 DEF Step, Return, Walk, Goto, Busy
  <2>2. CASE Loop(th)
    BY <2>2 DEF Loop, Return, Walk, Goto, Busy
  <2>3. CASE \E a, b \in 0 .. MaxTime : Run(th, a, b)
    BY <2>3 DEF Run, Return, Callback, Walk, Goto, Busy
  <2> QED
    BY <2>1, <2>2, <2>3
<1>3. \A x \in Threads : pc'[x] \in Busy => pc[x] \in Busy \/ (m_running /\ ~m_paused)
  BY <1>2 DEF LockInv, LockTypes, Busy
<1> QED
  BY <1>1, <1>3 DEF RunIsNotInterrupted, Busy

LEMMA NextFlags == LockInv /\ RunIsNotInterrupted /\ [Next]_vars => RunIsNotInterrupted'
<1> SUFFICES ASSUME LockInv, RunIsNotInterrupted, [Next]_vars PROVE RunIsNotInterrupted'
  OBVIOUS
<1>1. ASSUME NEW th \in Threads, Initialize(th) \/ StartNgspice(th) \/ Stop(th) \/ Pause(th)
      PROVE  RunIsNotInterrupted'
  BY <1>1, FlagsSet
<1>2. ASSUME NEW th \in Threads,
             Step(th) \/ Loop(th) \/ \E a, b \in 0 .. MaxTime : Run(th, a, b)
      PROVE  RunIsNotInterrupted'
  BY <1>2, FlagsRun
<1>3. ASSUME NEW th \in Threads, Acquire(th) PROVE RunIsNotInterrupted'
  BY <1>3, FlagsKept DEF Acquire, control
<1>4. ASSUME NEW th \in Threads,
             \/ Finalize(th) \/ Start(th) \/ CompileAll(th) \/ Query(th) \/ Stepped(th)
             \/ Timestep(th) \/ Node(th) \/ OnTimeStep(th) \/ HookChange(th)
             \/ (\E n \in Names : \/ \E e \in Exprs : Register(th, n, e)
                                 \/ Unregister(th, n) \/ CompileSource(th, n))
             \/ Netlist(th)
      PROVE  RunIsNotInterrupted'
  <2>1. UNCHANGED <<m_running, m_paused>>
    BY <1>4 DEF Finalize, Start, CompileAll, Query, Stepped, Timestep, Node, OnTimeStep,
                HookChange, Register, Unregister, CompileSource, Netlist, control
  <2>2. \E l \in (Ops \cup Inner \cup {"idle"}) \ Busy :
           pc' = [pc EXCEPT ![th] = l] \/ pc' = [pc EXCEPT ![th] = pc[th]]
    <3>1. CASE Finalize(th) \/ Start(th)
      BY <3>1 DEF Finalize, Start, Goto, Return, Ops, ControllerOps, Inner, Busy
    <3>2. CASE CompileAll(th)
      BY <3>2 DEF CompileAll, Goto, Ops, SourceOps, Inner, Busy
    <3>3. CASE Query(th) \/ Stepped(th) \/ HookChange(th) \/ Netlist(th)
      BY <3>3 DEF Query, Stepped, HookChange, Netlist, Return, Goto, Ops, SourceOps, Busy
    <3>4. CASE Timestep(th) \/ OnTimeStep(th) \/ Node(th)
      BY <3>4 DEF Timestep, OnTimeStep, Node, Return, Goto, Ops, HookOps, Busy
    <3>5. CASE \E n \in Names : \/ \E e \in Exprs : Register(th, n, e)
                               \/ Unregister(th, n) \/ CompileSource(th, n)
      BY <3>5 DEF Register, Unregister, CompileSource, Return, Busy
    <3> QED
      BY <1>4, <3>1, <3>2, <3>3, <3>4, <3>5
  <2>3. \A x \in Threads : pc'[x] \in Busy => pc[x] \in Busy
    BY <2>2 DEF LockInv, LockTypes
  <2> QED
    BY <2>1, <2>3, FlagsKept
<1>5. ASSUME NEW th \in Threads, NEW op \in Calls[th], Call(th, op) PROVE RunIsNotInterrupted'
  <2>1. op \notin Busy
    BY CallsAssumption DEF Ops, ControllerOps, SourceOps, HookOps, Busy
  <2> QED
    BY <1>5, <2>1, FlagsKept DEF Call, control, LockInv, LockTypes
<1>6. CASE UNCHANGED vars
  BY <1>6, FlagsKept DEF vars, control
<1> QED
  BY <1>1, <1>2, <1>3, <1>4, <1>5, <1>6 DEF Next, Proceed

\* No pause, stop or restart comes between two steps of a transient run: its
\* own test of the flags never ends it (runTransientSimulation, line 606).
THEOREM RunUninterrupted == Spec => []RunIsNotInterrupted
<1>1. Init => RunIsNotInterrupted
  BY DEF Init, RunIsNotInterrupted
<1> QED
  BY <1>1, InitLocks, NextLocks, NextFlags, PTL DEF Spec

----------------------------------------------------------------------------
LEMMA NextSources == SourceRunsItsExpression /\ DataTypes /\ [Next]_vars => SourceRunsItsExpression'
<1> SUFFICES ASSUME SourceRunsItsExpression, DataTypes, [Next]_vars
             PROVE  SourceRunsItsExpression'
  OBVIOUS
<1>1. CASE UNCHANGED sources
  BY <1>1 DEF SourceRunsItsExpression, sources
<1>2. ASSUME NEW th \in Threads, NEW n \in Names, NEW e \in Exprs, Register(th, n, e)
      PROVE  SourceRunsItsExpression'
  BY <1>2, ConstantsAssumption DEF Register, SourceRunsItsExpression, DataTypes
<1>3. ASSUME NEW th \in Threads, NEW n \in Names, Unregister(th, n)
      PROVE  SourceRunsItsExpression'
  BY <1>3 DEF Unregister, SourceRunsItsExpression, DataTypes
<1>4. ASSUME NEW th \in Threads, NEW n \in Names, CompileSource(th, n)
      PROVE  SourceRunsItsExpression'
  <2>1. UNCHANGED <<m_sources, reused>>
    BY <1>4 DEF CompileSource
  <2>2. \A m \in Names : jitCode'[m] \in {jitCode[m], m_sources[m], Broken}
    BY <1>4 DEF CompileSource, DataTypes
  <2> QED
    BY <2>1, <2>2 DEF SourceRunsItsExpression
<1>5. ASSUME NEW th \in Threads,
             \/ Acquire(th)
             \/ Initialize(th) \/ Finalize(th) \/ Start(th) \/ CompileAll(th) \/ StartNgspice(th)
             \/ Stop(th) \/ Pause(th) \/ Query(th)
             \/ Step(th) \/ (\E a, b \in 0 .. MaxTime : Run(th, a, b)) \/ Loop(th) \/ Stepped(th)
             \/ Timestep(th) \/ Node(th) \/ OnTimeStep(th) \/ HookChange(th) \/ Netlist(th)
             \/ \E op \in Calls[th] : Call(th, op)
      PROVE  UNCHANGED sources
  BY <1>5 DEF Acquire, Initialize, Finalize, Start, CompileAll, StartNgspice, Stop, Pause,
              Query, Step, Run, Loop, Stepped, Timestep, Node, OnTimeStep, HookChange,
              Netlist, Call
<1>6. CASE UNCHANGED vars
  BY <1>1, <1>6 DEF vars
<1> QED
  BY <1>1, <1>2, <1>3, <1>4, <1>5, <1>6 DEF Next, Proceed

\* evaluateSource runs the expression a source was registered with, unless
\* its name was registered anew (registerSource, unregisterSource and
\* compileSource of simulation_hook.cpp).
THEOREM SourceRuns == Spec => []SourceRunsItsExpression
<1>1. Init => SourceRunsItsExpression
  BY DEF Init, SourceRunsItsExpression
<1> QED
  BY <1>1, InitData, NextData, NextSources, PTL DEF Spec

----------------------------------------------------------------------------
\* A thread that holds a mutex and waits for none has a step to take.
LEMMA HolderProceeds ==
    ASSUME LockInv, NEW x \in Threads, NEW l \in Locks, owner[l] = x, wants[x] = None
    PROVE  CanProceed(x)
<1>1. l \in Held(x) /\ Fits(pc[x], wants[x], Held(x)) /\ None \notin Locks
  BY ConstantsAssumption DEF Held, LockInv
<1>2. pc[x] \notin {"idle", "callback"}
  BY <1>1 DEF Fits, Ops, ControllerOps, SourceOps, HookOps
<1>3. pc[x] = "node" => Held(x) = {"hook"}
  <2>1. "node" \notin {"idle", "timestep", "startCompile", "startNgspice", "stepped", "looping", "callback"}
    OBVIOUS
  <2>2. LockOf("node") = "hook"
    BY LockOps DEF LockOf, ControllerOps, SourceOps, HookOps
  <2>3. "hook" # None
    BY <1>1 DEF Locks
  <2> QED
    BY <1>1, <2>1, <2>2, <2>3 DEF Fits
<1> QED
  BY <1>2, <1>3 DEF CanProceed, Held

(* Threads never wait for each other in a circle, and no chain of waits is   *)
(* longer than two, however many threads there are and whatever they call: a *)
(* thread that holds a mutex below the controller's waits for none but its   *)
(* own.                                                                      *)
THEOREM WaitsEnd == Spec => []EveryWaitEnds
<1>1. LockInv /\ LocksAreOrdered => EveryWaitEnds
  <2> SUFFICES ASSUME LockInv, LocksAreOrdered, NEW th \in Threads, pc[th] # "idle",
                      ~Settled(th)
               PROVE  \E x \in Threads :
                         WaitsFor(th, x) /\ (Settled(x) \/ \E y \in Threads : WaitsFor(x, y) /\ Settled(y))
    BY DEF EveryWaitEnds
  <2>0. LockTypes /\ None \notin Threads /\ None \notin Locks
    BY ConstantsAssumption DEF LockInv
  <2>1. wants[th] # None
    <3>1. Fits(pc[th], wants[th], Held(th))
      BY DEF LockInv
    <3> SUFFICES ASSUME wants[th] = None PROVE FALSE
      OBVIOUS
    <3>2. Held(th) = {} => pc[th] = "timestep"
      <4>1. \A op \in Ops \ {"timestep"} : LockOf(op) # None
        BY LockOps DEF Ops, Locks
      <4> SUFFICES ASSUME Held(th) = {}, pc[th] # "timestep" PROVE FALSE
        OBVIOUS
      <4>2. pc[th] # "idle"
        OBVIOUS
      <4> QED
        BY <3>1, <4>1, <4>2 DEF Fits
    <3>3. Held(th) # {}
      BY <3>2 DEF Settled, CanProceed
    <3> QED
      BY <3>3, HolderProceeds DEF Held, Settled
  <2>2. PICK l \in Locks : l = wants[th]
    BY <2>0, <2>1 DEF LockTypes
  <2>3. PICK x \in Threads : owner[l] = x
    BY <2>0, <2>1, <2>2 DEF LockTypes, Settled, CanProceed
  <2>4. CASE Settled(x)
    BY <2>1, <2>2, <2>3, <2>4 DEF WaitsFor
  <2>5. CASE ~Settled(x)
    <3>1. PICK m \in Locks : m = wants[x]
      BY <2>0, <2>3, <2>5, HolderProceeds DEF LockTypes, Settled
    <3>2. PICK y \in Threads : owner[m] = y
      BY <2>0, <2>5, <3>1 DEF LockTypes, Settled, CanProceed
    <3>3. y # x
      BY <2>0, <2>5, <3>1, <3>2 DEF Settled, Reentered
    <3>4. l = "controller" /\ m # "controller"
      BY <2>0, <2>3, <3>1, <3>2, <3>3 DEF LocksAreOrdered
    <3>5. Settled(y)
      <4>1. CASE wants[y] = None
        BY <3>2, <4>1, HolderProceeds DEF Settled
      <4>2. CASE wants[y] # None
        BY <3>2, <3>4, <4>2 DEF LocksAreOrdered, Settled, Reentered
      <4> QED
        BY <4>1, <4>2
    <3> QED
      BY <2>0, <2>1, <2>2, <2>3, <3>1, <3>2, <3>5 DEF WaitsFor
  <2> QED
    BY <2>4, <2>5
<1> QED
  BY <1>1, InitLocks, NextLocks, LocksOrdered, PTL DEF Spec

=============================================================================
