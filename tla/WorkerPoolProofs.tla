-------------------------- MODULE WorkerPoolProofs --------------------------
(***************************************************************************)
(* Proofs about WorkerPool, for every set of workers, every set of calls   *)
(* and every iteration range.                                              *)
(*                                                                         *)
(* That undisturbed calls start each iteration once (IInv) goes through    *)
(* the counter: while the last publisher is undisturbed, an index below it *)
(* was started once or is held by one executor. SomebodyGoesOn needs that  *)
(* some worker is free (FreeWorker): outside the loop while m_hasWork is   *)
(* clear, else running only loops that go on sequentially.                 *)
(***************************************************************************)
EXTENDS WorkerPool, TLAPS

\* The two halves of TypeOK: where the executors are, and what the data is.
PcOK == /\ pc \in [Executors -> WorkerPc \cup CallPc]
        /\ \A w \in Workers : pc[w] \in WorkerPc
        /\ \A c \in Calls : pc[c] \in CallPc

DataOK ==
    /\ m_current \in Nat /\ m_end \in 0 .. MaxIndex /\ m_doneCount \in Nat
    /\ m_body \in Calls \cup {None} /\ m_userData \in Calls \cup {None}
    /\ m_hasWork \in BOOLEAN /\ m_stop \in BOOLEAN
    /\ mutex \in Calls \cup {None}
    /\ i \in [Executors -> Nat]
    /\ body \in [Workers -> Calls \cup {None}]
    /\ arg \in [Workers -> Calls \cup {None}]
    /\ caller \in [Calls -> Executors \cup {None}]
    /\ dtor \in {"no", "stopped", "notified", "joined"}
    /\ runs \in [Calls -> [Index -> Nat]]
    /\ owner \in Calls \cup {None}
    /\ exclusive \in SUBSET Calls

LEMMA TypeSplit == TypeOK <=> PcOK /\ DataOK
BY DEF TypeOK, PcOK, DataOK

LEMMA InitType == Init => TypeOK
<1> SUFFICES ASSUME Init PROVE PcOK /\ DataOK
  BY TypeSplit
<1> USE CallsAssumption, RangeAssumption DEF Init, Executors, Index
<1>1. PcOK
  BY DEF PcOK, WorkerPc, CallPc, InLoop
<1>2. i \in [Executors -> Nat] /\ body \in [Workers -> Calls \cup {None}]
      /\ arg \in [Workers -> Calls \cup {None}] /\ caller \in [Calls -> Executors \cup {None}]
  OBVIOUS
<1>3. runs \in [Calls -> [Index -> Nat]]
  OBVIOUS
<1>4. m_current \in Nat /\ m_end \in 0 .. MaxIndex /\ m_doneCount \in Nat
  OBVIOUS
<1> QED
  BY <1>1, <1>2, <1>3, <1>4 DEF DataOK

\* Moving one executor to a location of its kind keeps pc well typed.
LEMMA GotoWorker ==
    ASSUME PcOK, NEW w \in Workers, NEW l \in WorkerPc, Goto(w, l)
    PROVE  PcOK'
BY CallsAssumption DEF PcOK, Goto, Executors

LEMMA GotoCall ==
    ASSUME PcOK, NEW c \in Calls, NEW l \in CallPc, Goto(c, l)
    PROVE  PcOK'
BY CallsAssumption DEF PcOK, Goto, Executors

LEMMA NotifyType ==
    ASSUME PcOK, NEW e \in Executors, NEW l, NotifyAll(e, l),
           e \in Workers => l \in WorkerPc, e \in Calls => l \in CallPc
    PROVE  PcOK'
BY CallsAssumption DEF PcOK, NotifyAll, Executors, WorkerPc, CallPc

LEMMA PcNext == TypeOK /\ [Next]_vars => PcOK'
<1> SUFFICES ASSUME TypeOK, [Next]_vars PROVE PcOK'
  OBVIOUS
<1>0. PcOK
  BY DEF TypeOK, PcOK
<1> USE <1>0 DEF InLoop, Storing
<1>1. ASSUME NEW w \in Workers, WorkerStep(w) PROVE PcOK'
  <2>0. \A l \in {"wait", "exited", "claim", "asleep", "check", "signal", "load", "call", "run", "notify"} : l \in WorkerPc
    BY DEF WorkerPc
  <2>1. CASE WorkerNotify(w)
    BY <2>1, <2>0, NotifyType, CallsAssumption DEF WorkerNotify, Executors
  <2>2. CASE WorkerWait(w)
    BY <2>2, <2>0, GotoWorker DEF WorkerWait
  <2>3. CASE Claim(w)
    BY <2>3, <2>0, GotoWorker DEF Claim
  <2>4. CASE WorkerCheck(w)
    BY <2>4, <2>0, GotoWorker DEF WorkerCheck
  <2>5. CASE WorkerLoad(w)
    BY <2>5, <2>0, GotoWorker DEF WorkerLoad
  <2>6. CASE WorkerCall(w)
    BY <2>6, <2>0, GotoWorker DEF WorkerCall
  <2>7. CASE BodyReturn(w)
    <3>1. pc[w] # "seqRun"
      BY DEF PcOK, WorkerPc
    <3> QED BY <2>7, <2>0, <3>1, GotoWorker DEF BodyReturn
  <2>8. CASE Signal(w)
    BY <2>8, <2>0, GotoWorker DEF Signal
  <2> QED BY <1>1, <2>1, <2>2, <2>3, <2>4, <2>5, <2>6, <2>7, <2>8 DEF WorkerStep
<1>2. ASSUME NEW c \in Calls, CallStep(c) \/ Invoke(c) \/ \E e \in Executors : InvokeNested(e, c) PROVE PcOK'
  <2>0. \A l \in {"unused", "probe", "returned", "seq", "seqRun", "store", "storeEnd", "storeBody", "storeUserData", "storeWork", "notify", "claim", "check", "run", "wait", "asleep"} : l \in CallPc
    BY DEF CallPc
  <2>1. CASE CallNotify(c)
    BY <2>1, <2>0, NotifyType, CallsAssumption DEF CallNotify, Executors
  <2>2. CASE Probe(c)
    BY <2>2, <2>0, GotoCall DEF Probe
  <2>3. CASE Claim(c)
    BY <2>3, <2>0, GotoCall DEF Claim
  <2>4. CASE SeqNext(c)
    BY <2>4, <2>0, GotoCall DEF SeqNext
  <2>5. CASE StoreCurrent(c)
    BY <2>5, <2>0, GotoCall DEF StoreCurrent
  <2>6. CASE StoreEnd(c)
    BY <2>6, <2>0, GotoCall DEF StoreEnd
  <2>7. CASE StoreBody(c)
    BY <2>7, <2>0, GotoCall DEF StoreBody
  <2>8. CASE StoreUserData(c)
    BY <2>8, <2>0, GotoCall DEF StoreUserData
  <2>9. CASE StoreWork(c)
    BY <2>9, <2>0, GotoCall DEF StoreWork
  <2>10. CASE CallCheck(c)
    BY <2>10, <2>0, GotoCall DEF CallCheck
  <2>11. CASE CallWait(c)
    BY <2>11, <2>0, GotoCall DEF CallWait
  <2>12. CASE BodyReturn(c)
    BY <2>12, <2>0, GotoCall DEF BodyReturn
  <2>13. CASE Invoke(c) \/ \E e \in Executors : InvokeNested(e, c)
    BY <2>13, <2>0, GotoCall DEF Invoke, InvokeNested
  <2> QED BY <1>2, <2>1, <2>2, <2>3, <2>4, <2>5, <2>6, <2>7, <2>8, <2>9, <2>10, <2>11, <2>12, <2>13 DEF CallStep
<1>3. CASE StopNotify
  BY <1>3, CallsAssumption DEF StopNotify, PcOK, Executors, WorkerPc, CallPc
<1>4. CASE Stop \/ JoinWorkers \/ UNCHANGED vars
  BY <1>4 DEF Stop, JoinWorkers, vars, PcOK
<1> QED BY <1>1, <1>2, <1>3, <1>4 DEF Next, DtorStep
LEMMA RunsType ==
    ASSUME DataOK, NEW c, NEW n, StartRun(c, n) PROVE runs' \in [Calls -> [Index -> Nat]]
<1>1. runs' = [d \in Calls |-> IF d = c THEN [runs[c] EXCEPT ![n] = runs[c][n] + 1] ELSE runs[d]]
  BY DEF DataOK, StartRun
<1>2. c \in Calls => [runs[c] EXCEPT ![n] = runs[c][n] + 1] \in [Index -> Nat]
  <2> SUFFICES ASSUME c \in Calls PROVE [runs[c] EXCEPT ![n] = runs[c][n] + 1] \in [Index -> Nat]
    OBVIOUS
  <2>1. runs[c] \in [Index -> Nat]
    BY DEF DataOK
  <2>2. n \in Index => runs[c][n] + 1 \in Nat
    BY <2>1
  <2> QED
    BY <2>1, <2>2
<1> QED
  BY <1>1, <1>2 DEF DataOK

LEMMA DataNext == TypeOK /\ [Next]_vars => DataOK'
<1> SUFFICES ASSUME TypeOK, [Next]_vars PROVE DataOK'
  OBVIOUS
<1>0. DataOK
  BY TypeSplit
<1> USE <1>0 DEF DataOK, poolVars, localVars, history
<1>1. ASSUME NEW w \in Workers, WorkerWait(w) PROVE DataOK'
  BY <1>1, CallsAssumption DEF WorkerWait, Executors
<1>2. ASSUME NEW w \in Workers, WorkerCheck(w) PROVE DataOK'
  <2>1. i' \in [Executors -> Nat]
    BY <1>2 DEF WorkerCheck
  <2> QED
    BY <1>2, <2>1 DEF WorkerCheck
<1>3. ASSUME NEW w \in Workers, WorkerLoad(w) PROVE DataOK'
  BY <1>3, CallsAssumption DEF WorkerLoad, Executors
<1>4. ASSUME NEW w \in Workers, WorkerCall(w) PROVE DataOK'
  BY <1>4, RunsType, CallsAssumption DEF WorkerCall, Executors
<1>5. ASSUME NEW w \in Workers, Signal(w) PROVE DataOK'
  <2>1. m_doneCount' = m_doneCount + 1 /\ m_doneCount' \in Nat
    BY <1>5 DEF Signal
  <2>2. m_hasWork' = FALSE \/ m_hasWork' = m_hasWork
    BY <1>5, Zenon DEF Signal
  <2> QED
    BY <1>5, <2>1, <2>2 DEF Signal
<1>6. ASSUME NEW w \in Workers, WorkerNotify(w) PROVE DataOK'
  BY <1>6, CallsAssumption DEF WorkerNotify, Executors
<1>7. ASSUME NEW c \in Calls, Invoke(c) PROVE DataOK'
  BY <1>7, CallsAssumption DEF Invoke, Executors
<1>8. ASSUME NEW c \in Calls, Probe(c) PROVE DataOK'
  <2>1. i' \in [Executors -> Nat]
    BY <1>8, RangeAssumption DEF Probe
  <2> QED
    BY <1>8, <2>1 DEF Probe
<1>9. ASSUME NEW c \in Calls, SeqNext(c) PROVE DataOK'
  BY <1>9, RunsType, CallsAssumption DEF SeqNext, Executors
<1>10. ASSUME NEW c \in Calls, StoreCurrent(c) PROVE DataOK'
  <2>1. m_current' \in Nat /\ exclusive' \in SUBSET Calls
    BY <1>10, RangeAssumption DEF StoreCurrent
  <2> QED
    BY <1>10, <2>1 DEF StoreCurrent
<1>11. ASSUME NEW c \in Calls, StoreEnd(c) PROVE DataOK'
  BY <1>11, RangeAssumption, CallsAssumption DEF StoreEnd, Executors
<1>12. ASSUME NEW c \in Calls, StoreBody(c) PROVE DataOK'
  BY <1>12, CallsAssumption DEF StoreBody, Executors
<1>13. ASSUME NEW c \in Calls, StoreUserData(c) PROVE DataOK'
  BY <1>13, CallsAssumption DEF StoreUserData, Executors
<1>14. ASSUME NEW c \in Calls, StoreWork(c) PROVE DataOK'
  BY <1>14, CallsAssumption DEF StoreWork, Executors
<1>15. ASSUME NEW c \in Calls, CallNotify(c) PROVE DataOK'
  BY <1>15, CallsAssumption DEF CallNotify, Executors
<1>16. ASSUME NEW c \in Calls, CallCheck(c) PROVE DataOK'
  BY <1>16, RunsType, CallsAssumption DEF CallCheck, Executors
<1>17. ASSUME NEW c \in Calls, CallWait(c) PROVE DataOK'
  BY <1>17, CallsAssumption DEF CallWait, Executors
<1>18. ASSUME NEW e \in Executors, Claim(e) PROVE DataOK'
  BY <1>18 DEF Claim, Executors
<1>19. ASSUME NEW e \in Executors, BodyReturn(e) PROVE DataOK'
  BY <1>19 DEF BodyReturn, Executors
<1>20. ASSUME NEW c \in Calls, NEW e \in Executors, InvokeNested(e, c) PROVE DataOK'
  BY <1>20 DEF InvokeNested
<1>21. CASE Stop \/ DtorStep \/ UNCHANGED vars
  BY <1>21 DEF Stop, DtorStep, StopNotify, JoinWorkers, vars
<1> HIDE DEF DataOK, poolVars, localVars, history
<1> QED
  BY <1>1, <1>2, <1>3, <1>4, <1>5, <1>6, <1>7, <1>8, <1>9, <1>10, <1>11,
     <1>12, <1>13, <1>14, <1>15, <1>16, <1>17, <1>18, <1>19, <1>20, <1>21
     DEF Next, WorkerStep, CallStep, Executors

LEMMA TypeNext == TypeOK /\ [Next]_vars => TypeOK'
<1>1. TypeOK' <=> PcOK' /\ DataOK'
  BY DEF TypeOK, PcOK, DataOK
<1> QED
  BY <1>1, PcNext, DataNext

(* Every reachable state is well typed.                                      *)
THEOREM TypeCorrect == Spec => []TypeOK
<1> QED
  BY InitType, TypeNext, PTL DEF Spec

----------------------------------------------------------------------------
(* MutexInv *)

LEMMA GotoAt ==
    ASSUME TypeOK, NEW e \in Executors, NEW l, Goto(e, l)
    PROVE  \A x \in Executors : pc'[x] = IF x = e THEN l ELSE pc[x]
BY DEF TypeOK, Goto

LEMMA NotifyAt ==
    ASSUME NEW e \in Executors, NEW l, NotifyAll(e, l)
    PROVE  \A x \in Executors :
              pc'[x] = IF x = e THEN l ELSE IF pc[x] = "asleep" THEN "wait" ELSE pc[x]
BY DEF NotifyAll

\* What a worker, or the destructor, cannot do: it moves no call but by waking
\* it, and writes no field of the pool that dispatch() stores.
LEMMA WorkerEffect ==
    ASSUME TypeOK, NEW w \in Workers, WorkerStep(w)
    PROVE  /\ \A c \in Calls : pc'[c] = pc[c] \/ (pc[c] = "asleep" /\ pc'[c] = "wait")
           /\ \A e \in Executors \ {w} : pc'[e] = pc[e] \/ (pc[e] = "asleep" /\ pc'[e] = "wait")
           /\ UNCHANGED <<mutex, owner, exclusive, m_end, m_body, m_userData>>
           /\ m_hasWork' => m_hasWork
<1>0. w \in Executors /\ \A c \in Calls : c \in Executors /\ c # w
  BY CallsAssumption DEF Executors
<1> USE DEF poolVars, localVars, history
<1>1. CASE WorkerWait(w)
  BY <1>0, <1>1, GotoAt DEF WorkerWait
<1>2. CASE Claim(w)
  BY <1>0, <1>2, GotoAt DEF Claim
<1>3. CASE WorkerCheck(w)
  BY <1>0, <1>3, GotoAt DEF WorkerCheck
<1>4. CASE WorkerLoad(w)
  BY <1>0, <1>4, GotoAt DEF WorkerLoad
<1>5. CASE WorkerCall(w)
  BY <1>0, <1>5, GotoAt DEF WorkerCall
<1>6. CASE BodyReturn(w)
  BY <1>0, <1>6, GotoAt DEF BodyReturn
<1>7. CASE Signal(w)
  <2>1. m_hasWork' => m_hasWork
    BY <1>7, Zenon DEF Signal
  <2> QED
    BY <1>0, <1>7, <2>1, GotoAt DEF Signal
<1>8. CASE WorkerNotify(w)
  BY <1>0, <1>8, NotifyAt DEF WorkerNotify
<1> QED
  BY <1>1, <1>2, <1>3, <1>4, <1>5, <1>6, <1>7, <1>8 DEF WorkerStep

LEMMA InitMutex == Init => MutexInv
BY CallsAssumption DEF Init, MutexInv, Storing, Executors

LEMMA MutexNext == TypeOK /\ MutexInv /\ [Next]_vars => MutexInv'
<1> SUFFICES ASSUME TypeOK, MutexInv, [Next]_vars PROVE MutexInv'
  OBVIOUS
<1>0. \A c \in Calls : c \in Executors /\ c # None
  BY CallsAssumption DEF Executors
<1>a. owner \in Calls \cup {None} /\ mutex \in Calls \cup {None} /\ m_hasWork \in BOOLEAN
  BY DEF TypeOK
<1> USE DEF MutexInv, Storing, Waiting
<1>1. ASSUME NEW w \in Workers, WorkerStep(w) PROVE MutexInv'
  BY <1>0, <1>a, <1>1, WorkerEffect
<1> USE DEF poolVars, localVars, history
<1>2. ASSUME NEW c \in Calls, Probe(c) PROVE MutexInv'
  BY <1>0, <1>a, <1>2, GotoAt DEF Probe
<1>3. ASSUME NEW c \in Calls, SeqNext(c) PROVE MutexInv'
  BY <1>0, <1>a, <1>3, GotoAt DEF SeqNext
<1>4. ASSUME NEW c \in Calls, StoreCurrent(c) PROVE MutexInv'
  BY <1>0, <1>a, <1>4, GotoAt DEF StoreCurrent
<1>5. ASSUME NEW c \in Calls, StoreEnd(c) PROVE MutexInv'
  BY <1>0, <1>a, <1>5, GotoAt DEF StoreEnd
<1>6. ASSUME NEW c \in Calls, StoreBody(c) PROVE MutexInv'
  BY <1>0, <1>a, <1>6, GotoAt DEF StoreBody
<1>7. ASSUME NEW c \in Calls, StoreUserData(c) PROVE MutexInv'
  BY <1>0, <1>a, <1>7, GotoAt DEF StoreUserData
<1>8. ASSUME NEW c \in Calls, StoreWork(c) PROVE MutexInv'
  BY <1>0, <1>a, <1>8, GotoAt DEF StoreWork
<1>9. ASSUME NEW c \in Calls, CallNotify(c) PROVE MutexInv'
  BY <1>0, <1>a, <1>9, NotifyAt DEF CallNotify
<1>10. ASSUME NEW c \in Calls, Claim(c) PROVE MutexInv'
  BY <1>0, <1>a, <1>10, GotoAt DEF Claim
<1>11. ASSUME NEW c \in Calls, CallCheck(c) PROVE MutexInv'
  BY <1>0, <1>a, <1>11, GotoAt DEF CallCheck
<1>12. ASSUME NEW c \in Calls, BodyReturn(c) PROVE MutexInv'
  BY <1>0, <1>a, <1>12, GotoAt DEF BodyReturn
<1>13. ASSUME NEW c \in Calls, CallWait(c) PROVE MutexInv'
  BY <1>0, <1>a, <1>13, GotoAt DEF CallWait
<1>14. ASSUME NEW c \in Calls, Invoke(c) PROVE MutexInv'
  BY <1>0, <1>a, <1>14, GotoAt DEF Invoke
<1>15. ASSUME NEW c \in Calls, NEW e \in Executors, InvokeNested(e, c) PROVE MutexInv'
  BY <1>0, <1>a, <1>15, GotoAt DEF InvokeNested
<1>16. CASE StopNotify
  BY <1>0, <1>a, <1>16 DEF StopNotify
<1>17. CASE Stop \/ JoinWorkers \/ UNCHANGED vars
  BY <1>17 DEF Stop, JoinWorkers, vars
<1> HIDE DEF MutexInv, Storing, Waiting, poolVars, localVars, history
<1> QED
  BY <1>1, <1>2, <1>3, <1>4, <1>5, <1>6, <1>7, <1>8, <1>9, <1>10, <1>11, <1>12, <1>13,
     <1>14, <1>15, <1>16, <1>17 DEF Next, CallStep, DtorStep

(* m_hasWork is never left set behind the back of the call that set it, on   *)
(* any number of workers and calls, nested or not.                           *)
THEOREM WorkOwned == Spec => []WorkHasOwner
<1>1. TypeOK /\ MutexInv => WorkHasOwner
  BY DEF MutexInv, WorkHasOwner
<1> QED
  BY <1>1, InitType, InitMutex, TypeNext, MutexNext, PTL DEF Spec

----------------------------------------------------------------------------
(* FreshInv *)

LEMMA StartAt ==
    ASSUME TypeOK, NEW c, NEW n, StartRun(c, n)
    PROVE  \A d \in Calls, m \in Index :
              runs'[d][m] = IF d = c /\ m = n THEN runs[d][m] + 1 ELSE runs[d][m]
<1>1. runs \in [Calls -> [Index -> Nat]]
  BY DEF TypeOK
<1>2. runs' = [d \in Calls |-> IF d = c THEN [runs[c] EXCEPT ![n] = runs[c][n] + 1] ELSE runs[d]]
  BY <1>1 DEF StartRun
<1> QED
  BY <1>1, <1>2

\* A worker starts a body only in WorkerCall, the one it finds in m_userData.
LEMMA WorkerRuns ==
    ASSUME TypeOK, NEW w \in Workers, WorkerStep(w)
    PROVE  runs' = runs \/ (pc[w] = "call" /\ StartRun(m_userData, i[w]))
BY DEF WorkerStep, WorkerWait, Claim, WorkerCheck, WorkerLoad, WorkerCall, BodyReturn,
       Signal, WorkerNotify, history

LEMMA InitFresh == Init => FreshInv
BY CallsAssumption DEF Init, FreshInv, Executors

LEMMA FreshNext == TypeOK /\ MutexInv /\ FreshInv /\ [Next]_vars => FreshInv'
<1> SUFFICES ASSUME TypeOK, MutexInv, FreshInv, [Next]_vars PROVE FreshInv'
  OBVIOUS
<1>0. \A c \in Calls : c \in Executors
  BY DEF Executors
<1> USE DEF FreshInv
<1>1. ASSUME NEW w \in Workers, WorkerStep(w) PROVE FreshInv'
  <2>1. \A c \in Calls : pc'[c] = pc[c] \/ (pc[c] = "asleep" /\ pc'[c] = "wait")
    BY <1>1, WorkerEffect
  <2>2. UNCHANGED <<owner, exclusive, m_body, m_userData>>
    BY <1>1, WorkerEffect
  <2>3. CASE runs' = runs
    BY <2>1, <2>2, <2>3
  <2>4. CASE StartRun(m_userData, i[w])
    BY <2>1, <2>2, <2>4, StartAt
  <2> QED
    BY <1>1, <2>3, <2>4, WorkerRuns
<1> USE DEF poolVars, localVars, history
<1>2. ASSUME NEW c \in Calls, Probe(c) PROVE FreshInv'
  BY <1>0, <1>2, GotoAt DEF Probe
<1>3. ASSUME NEW c \in Calls, SeqNext(c) PROVE FreshInv'
  BY <1>0, <1>3, GotoAt, StartAt DEF SeqNext
<1>4. ASSUME NEW c \in Calls, StoreCurrent(c) PROVE FreshInv'
  BY <1>0, <1>4, GotoAt, CallsAssumption DEF StoreCurrent, MutexInv, Storing
<1>5. ASSUME NEW c \in Calls, StoreEnd(c) PROVE FreshInv'
  BY <1>0, <1>5, GotoAt DEF StoreEnd, MutexInv, Storing
<1>6. ASSUME NEW c \in Calls, StoreBody(c) PROVE FreshInv'
  BY <1>0, <1>6, GotoAt, CallsAssumption DEF StoreBody, MutexInv, Storing
<1>7. ASSUME NEW c \in Calls, StoreUserData(c) PROVE FreshInv'
  BY <1>0, <1>7, GotoAt DEF StoreUserData, MutexInv, Storing
<1>8. ASSUME NEW c \in Calls, StoreWork(c) PROVE FreshInv'
  BY <1>0, <1>8, GotoAt DEF StoreWork, MutexInv, Storing
<1>9. ASSUME NEW c \in Calls, CallNotify(c) PROVE FreshInv'
  BY <1>0, <1>9, NotifyAt DEF CallNotify
<1>10. ASSUME NEW c \in Calls, Claim(c) PROVE FreshInv'
  BY <1>0, <1>10, GotoAt DEF Claim
<1>11. ASSUME NEW c \in Calls, CallCheck(c) PROVE FreshInv'
  BY <1>0, <1>11, GotoAt, StartAt DEF CallCheck
<1>12. ASSUME NEW c \in Calls, BodyReturn(c) PROVE FreshInv'
  BY <1>0, <1>12, GotoAt DEF BodyReturn
<1>13. ASSUME NEW c \in Calls, CallWait(c) PROVE FreshInv'
  BY <1>0, <1>13, GotoAt DEF CallWait
<1>14. ASSUME NEW c \in Calls, Invoke(c) PROVE FreshInv'
  BY <1>0, <1>14, GotoAt DEF Invoke
<1>15. ASSUME NEW c \in Calls, NEW e \in Executors, InvokeNested(e, c) PROVE FreshInv'
  BY <1>0, <1>15, GotoAt DEF InvokeNested
<1>16. CASE StopNotify
  BY <1>0, <1>16 DEF StopNotify
<1>17. CASE Stop \/ JoinWorkers \/ UNCHANGED vars
  BY <1>17 DEF Stop, JoinWorkers, vars
<1> HIDE DEF FreshInv, poolVars, localVars, history
<1> QED
  BY <1>1, <1>2, <1>3, <1>4, <1>5, <1>6, <1>7, <1>8, <1>9, <1>10, <1>11, <1>12, <1>13,
     <1>14, <1>15, <1>16, <1>17 DEF Next, CallStep, DtorStep

----------------------------------------------------------------------------
(* OwnerInv *)

Owned(o) ==
    /\ StoresAlone(o) /\ FieldsStored(o) /\ CounterPassed(o) /\ LoopAlone(o)
    /\ HeldDistinct(o) /\ WorkersMatch(o) /\ RunsCounted(o)

\* A step that neither gives out nor gives up an index, starts no body of o and
\* lets nobody into the loop while o stores.
Bystander(o) ==
    /\ UNCHANGED <<m_current, m_end, m_body, m_userData>>
    /\ \A n \in Index : runs'[o][n] = runs[o][n]
    /\ Holding' = Holding
    /\ \A e \in Holding : i'[e] = i[e]
    /\ \A w \in Workers : pc'[w] \in {"load", "call", "run"} =>
           pc'[w] = pc[w] /\ body'[w] = body[w] /\ arg'[w] = arg[w]
    /\ \A d \in Calls \ {o} : pc'[d] \in InLoop \cup {"notify"} => pc[d] \in InLoop \cup {"notify"}
    /\ pc'[o] = pc[o] \/ {pc'[o], pc[o]} \cap Storing = {}
    /\ pc'[o] \in {"wait", "asleep", "returned"} => pc[o] \in {"wait", "asleep", "returned"}
    /\ pc[o] \in Storing => \A w \in Workers : pc'[w] \in InLoop => pc[w] \in InLoop

LEMMA BystanderOwned ==
    ASSUME NEW o \in Calls, Owned(o), Bystander(o) PROVE Owned(o)'
<1>1. StoresAlone(o)'
  BY DEF Owned, Bystander, StoresAlone, Quiet, Storing
<1>2. FieldsStored(o)'
  BY DEF Owned, Bystander, FieldsStored, Storing
<1>3. CounterPassed(o)'
  BY DEF Owned, Bystander, CounterPassed
<1>4. LoopAlone(o)'
  BY DEF Owned, Bystander, LoopAlone
<1>5. HeldDistinct(o)'
  BY DEF Owned, Bystander, HeldDistinct
<1>6. WorkersMatch(o)'
  BY DEF Owned, Bystander, WorkersMatch, Holding, Executors
<1>7. RunsCounted(o)'
  BY DEF Owned, Bystander, RunsCounted, InRange
<1> QED
  BY <1>1, <1>2, <1>3, <1>4, <1>5, <1>6, <1>7 DEF Owned

\* A step moves one executor; the others stay where they are or are woken.
Moves(e) == \A x \in Executors \ {e} :
                pc'[x] = pc[x] \/ (pc[x] = "asleep" /\ pc'[x] = "wait")

LEMMA GotoMoves ==
    ASSUME TypeOK, NEW e \in Executors, NEW l, Goto(e, l) PROVE Moves(e) /\ pc'[e] = l
BY GotoAt DEF Moves

LEMMA NotifyMoves ==
    ASSUME NEW e \in Executors, NEW l, NotifyAll(e, l) PROVE Moves(e) /\ pc'[e] = l
BY NotifyAt DEF Moves

\* Moving e is a bystander's step if e, before and after, holds no index and the
\* rest is as Bystander says.
LEMMA MoveBystander ==
    ASSUME NEW o \in Calls, NEW e \in Executors, Moves(e),
           UNCHANGED <<m_current, m_end, m_body, m_userData>>,
           \A n \in Index : runs'[o][n] = runs[o][n],
           \A x \in Executors \ {e} : i'[x] = i[x],
           \A w \in Workers \ {e} : body'[w] = body[w] /\ arg'[w] = arg[w],
           pc[e] \notin {"check", "load", "call"},
           pc'[e] \notin {"check", "load", "call"},
           e \in Workers => pc'[e] # "run" /\ (pc[o] \in Storing => (pc'[e] \in InLoop => pc[e] \in InLoop)),
           e \in Calls \ {o} => (pc'[e] \in InLoop \cup {"notify"} => pc[e] \in InLoop \cup {"notify"}),
           e = o => /\ {pc'[o], pc[o]} \cap Storing = {}
                    /\ pc'[o] \in {"wait", "asleep", "returned"} => pc[o] \in {"wait", "asleep", "returned"}
    PROVE  Bystander(o)
<1>0. o \in Executors /\ o \notin Workers /\ Workers \subseteq Executors /\ Calls \subseteq Executors
  BY CallsAssumption DEF Executors
<1>1. Holding' = Holding
  BY DEF Moves, Holding
<1>2. \A x \in Holding : i'[x] = i[x]
  BY DEF Holding
<1>3. \A w \in Workers : pc'[w] \in {"load", "call", "run"} =>
           pc'[w] = pc[w] /\ body'[w] = body[w] /\ arg'[w] = arg[w]
  BY <1>0 DEF Moves
<1>4. \A d \in Calls \ {o} : pc'[d] \in InLoop \cup {"notify"} => pc[d] \in InLoop \cup {"notify"}
  BY <1>0 DEF Moves, InLoop
<1>5. pc'[o] = pc[o] \/ {pc'[o], pc[o]} \cap Storing = {}
  BY <1>0 DEF Moves, Storing
<1>6. pc'[o] \in {"wait", "asleep", "returned"} => pc[o] \in {"wait", "asleep", "returned"}
  BY <1>0 DEF Moves
<1>7. pc[o] \in Storing => \A w \in Workers : pc'[w] \in InLoop => pc[w] \in InLoop
  BY <1>0 DEF Moves, InLoop
<1> QED
  BY <1>1, <1>2, <1>3, <1>4, <1>5, <1>6, <1>7 DEF Bystander

LEMMA WorkerBystander ==
    ASSUME TypeOK, MutexInv, owner \in Calls, NEW w \in Workers,
           WorkerWait(w) \/ Signal(w) \/ WorkerNotify(w) \/ BodyReturn(w)
    PROVE  Bystander(owner)
<1>0. w \in Executors /\ w \notin Calls
  BY CallsAssumption DEF Executors
<1>m. pc[owner] \in Storing => mutex # None
  BY CallsAssumption DEF MutexInv, Executors
<1>1. CASE WorkerWait(w)
  <2>1. /\ Moves(w) /\ pc[w] = "wait" /\ mutex = None
        /\ pc'[w] \in {"exited", "claim", "asleep"}
    BY <1>0, <1>1, GotoMoves DEF WorkerWait
  <2>2. /\ UNCHANGED <<m_current, m_end, m_body, m_userData, mutex>>
        /\ runs' = runs
        /\ \A x \in Executors \ {w} : i'[x] = i[x]
        /\ \A x \in Workers \ {w} : body'[x] = body[x] /\ arg'[x] = arg[x]
    BY <1>1, <1>0 DEF WorkerWait, poolVars, localVars, history, TypeOK
  <2> QED
    BY <1>0, <1>m, <2>1, <2>2, MoveBystander DEF InLoop, Storing
<1>2. CASE Signal(w)
  <2>1. Moves(w) /\ pc[w] = "signal" /\ pc'[w] \in {"notify", "wait"}
    BY <1>0, <1>2, GotoMoves DEF Signal
  <2>2. /\ UNCHANGED <<m_current, m_end, m_body, m_userData, mutex>>
        /\ runs' = runs
        /\ \A x \in Executors \ {w} : i'[x] = i[x]
        /\ \A x \in Workers \ {w} : body'[x] = body[x] /\ arg'[x] = arg[x]
    BY <1>2, <1>0 DEF Signal, poolVars, localVars, history, TypeOK
  <2> QED
    BY <1>0, <1>m, <2>1, <2>2, MoveBystander DEF InLoop, Storing
<1>3. CASE WorkerNotify(w)
  <2>1. Moves(w) /\ pc[w] = "notify" /\ pc'[w] = "wait"
    BY <1>0, <1>3, NotifyMoves DEF WorkerNotify
  <2>2. /\ UNCHANGED <<m_current, m_end, m_body, m_userData, mutex>>
        /\ runs' = runs
        /\ \A x \in Executors \ {w} : i'[x] = i[x]
        /\ \A x \in Workers \ {w} : body'[x] = body[x] /\ arg'[x] = arg[x]
    BY <1>3, <1>0 DEF WorkerNotify, poolVars, localVars, history, TypeOK
  <2> QED
    BY <1>0, <1>m, <2>1, <2>2, MoveBystander DEF InLoop, Storing
<1>4. CASE BodyReturn(w)
  <2>1. /\ Moves(w) /\ pc[w] = "run" /\ pc'[w] = "claim"
    BY <1>0, <1>4, GotoMoves DEF BodyReturn, TypeOK, WorkerPc, InLoop
  <2>2. /\ UNCHANGED <<m_current, m_end, m_body, m_userData, mutex>>
        /\ runs' = runs
        /\ \A x \in Executors \ {w} : i'[x] = i[x]
        /\ \A x \in Workers \ {w} : body'[x] = body[x] /\ arg'[x] = arg[x]
    BY <1>4, <1>0 DEF BodyReturn, poolVars, localVars, history, TypeOK
  <2> QED
    BY <1>0, <1>m, <2>1, <2>2, MoveBystander DEF InLoop, Storing
<1> QED
  BY <1>1, <1>2, <1>3, <1>4

LEMMA CallBystander ==
    ASSUME TypeOK, MutexInv, owner \in Calls, NEW c \in Calls,
           \/ Probe(c) \/ SeqNext(c) \/ CallNotify(c) \/ BodyReturn(c) \/ CallWait(c)
           \/ Invoke(c) \/ \E e \in Executors : InvokeNested(e, c)
    PROVE  Bystander(owner)
<1>0. c \in Executors /\ c \notin Workers
  BY CallsAssumption DEF Executors
<1>m. pc[owner] \in Storing \cup Waiting \cup {"returned"}
  BY CallsAssumption DEF MutexInv, Executors
<1>1. CASE Probe(c)
  <2>1. Moves(c) /\ pc[c] = "probe" /\ pc'[c] \in {"returned", "seq", "store"}
    BY <1>0, <1>1, GotoMoves DEF Probe
  <2>2. /\ UNCHANGED <<m_current, m_end, m_body, m_userData>>
        /\ \A x \in Executors \ {c} : i'[x] = i[x]
        /\ \A x \in Workers : body'[x] = body[x] /\ arg'[x] = arg[x]
    BY <1>1, <1>0 DEF Probe, poolVars, localVars, TypeOK
  <2>3. \A n \in Index : runs'[owner][n] = runs[owner][n]
    BY <1>1, <1>0, <1>m, <2>1 DEF Probe, history, Storing, Waiting
  <2> QED
    BY <1>0, <1>m, <2>1, <2>2, <2>3, MoveBystander DEF InLoop, Storing, Waiting
<1>2. CASE SeqNext(c)
  <2>1. Moves(c) /\ pc[c] = "seq" /\ pc'[c] \in {"returned", "seqRun"}
    BY <1>0, <1>2, GotoMoves DEF SeqNext
  <2>2. /\ UNCHANGED <<m_current, m_end, m_body, m_userData>>
        /\ \A x \in Executors \ {c} : i'[x] = i[x]
        /\ \A x \in Workers : body'[x] = body[x] /\ arg'[x] = arg[x]
    BY <1>2, <1>0 DEF SeqNext, poolVars, localVars, TypeOK
  <2>3. \A n \in Index : runs'[owner][n] = runs[owner][n]
    BY <1>2, <1>0, <1>m, <2>1, StartAt DEF SeqNext, history, Storing, Waiting
  <2> QED
    BY <1>0, <1>m, <2>1, <2>2, <2>3, MoveBystander DEF InLoop, Storing, Waiting
<1>3. CASE CallNotify(c)
  <2>1. Moves(c) /\ pc[c] = "notify" /\ pc'[c] = "claim"
    BY <1>0, <1>3, NotifyMoves DEF CallNotify
  <2>2. /\ UNCHANGED <<m_current, m_end, m_body, m_userData>>
        /\ \A x \in Executors \ {c} : i'[x] = i[x]
        /\ \A x \in Workers : body'[x] = body[x] /\ arg'[x] = arg[x]
    BY <1>3, <1>0 DEF CallNotify, poolVars, localVars, TypeOK
  <2>3. \A n \in Index : runs'[owner][n] = runs[owner][n]
    BY <1>3, <1>0, <1>m, <2>1 DEF CallNotify, history, Storing, Waiting
  <2> QED
    BY <1>0, <1>m, <2>1, <2>2, <2>3, MoveBystander DEF InLoop, Storing, Waiting
<1>4. CASE BodyReturn(c)
  <2>1. /\ Moves(c)
        /\ \/ pc[c] = "run" /\ pc'[c] = "claim"
           \/ pc[c] = "seqRun" /\ pc'[c] = "seq"
    BY <1>0, <1>4, GotoMoves DEF BodyReturn
  <2>2. /\ UNCHANGED <<m_current, m_end, m_body, m_userData>>
        /\ \A x \in Executors \ {c} : i'[x] = i[x]
        /\ \A x \in Workers : body'[x] = body[x] /\ arg'[x] = arg[x]
    BY <1>4, <1>0 DEF BodyReturn, poolVars, localVars, TypeOK
  <2>3. \A n \in Index : runs'[owner][n] = runs[owner][n]
    BY <1>4, <1>0, <1>m, <2>1 DEF BodyReturn, history, Storing, Waiting
  <2> QED
    BY <1>0, <1>m, <2>1, <2>2, <2>3, MoveBystander DEF InLoop, Storing, Waiting
<1>5. CASE CallWait(c)
  <2>1. Moves(c) /\ pc[c] = "wait" /\ pc'[c] \in {"asleep", "returned"}
    BY <1>0, <1>5, GotoMoves DEF CallWait
  <2>2. /\ UNCHANGED <<m_current, m_end, m_body, m_userData>>
        /\ \A x \in Executors \ {c} : i'[x] = i[x]
        /\ \A x \in Workers : body'[x] = body[x] /\ arg'[x] = arg[x]
    BY <1>5, <1>0 DEF CallWait, poolVars, localVars, TypeOK
  <2>3. \A n \in Index : runs'[owner][n] = runs[owner][n]
    BY <1>5, <1>0, <1>m, <2>1 DEF CallWait, history, Storing, Waiting
  <2> QED
    BY <1>0, <1>m, <2>1, <2>2, <2>3, MoveBystander DEF InLoop, Storing, Waiting
<1>6. CASE Invoke(c)
  <2>1. Moves(c) /\ pc[c] = "unused" /\ pc'[c] = "probe"
    BY <1>0, <1>6, GotoMoves DEF Invoke
  <2>2. /\ UNCHANGED <<m_current, m_end, m_body, m_userData>>
        /\ \A x \in Executors \ {c} : i'[x] = i[x]
        /\ \A x \in Workers : body'[x] = body[x] /\ arg'[x] = arg[x]
    BY <1>6, <1>0 DEF Invoke, poolVars, localVars, TypeOK
  <2>3. \A n \in Index : runs'[owner][n] = runs[owner][n]
    BY <1>6, <1>0, <1>m, <2>1 DEF Invoke, history, Storing, Waiting
  <2> QED
    BY <1>0, <1>m, <2>1, <2>2, <2>3, MoveBystander DEF InLoop, Storing, Waiting
<1>7. CASE \E e \in Executors : InvokeNested(e, c)
  <2>1. Moves(c) /\ pc[c] = "unused" /\ pc'[c] = "probe"
    BY <1>0, <1>7, GotoMoves DEF InvokeNested
  <2>2. /\ UNCHANGED <<m_current, m_end, m_body, m_userData>>
        /\ \A x \in Executors \ {c} : i'[x] = i[x]
        /\ \A x \in Workers : body'[x] = body[x] /\ arg'[x] = arg[x]
    BY <1>7, <1>0 DEF InvokeNested, poolVars, localVars, TypeOK
  <2>3. \A n \in Index : runs'[owner][n] = runs[owner][n]
    BY <1>7, <1>0, <1>m, <2>1 DEF InvokeNested, history, Storing, Waiting
  <2> QED
    BY <1>0, <1>m, <2>1, <2>2, <2>3, MoveBystander DEF InLoop, Storing, Waiting
<1> QED
  BY <1>1, <1>2, <1>3, <1>4, <1>5, <1>6, <1>7

LEMMA OtherBystander ==
    ASSUME TypeOK, owner \in Calls, Stop \/ DtorStep \/ UNCHANGED vars
    PROVE  Bystander(owner)
<1>1. CASE StopNotify
  <2>1. \A x \in Executors : pc'[x] = pc[x] \/ (pc[x] = "asleep" /\ pc'[x] = "wait")
    BY <1>1 DEF StopNotify
  <2>2. UNCHANGED <<m_current, m_end, m_body, m_userData, i, body, arg, runs>>
    BY <1>1 DEF StopNotify, poolVars, localVars, history
  <2>3. owner \in Executors /\ Workers \subseteq Executors /\ Calls \subseteq Executors
    BY DEF Executors
  <2>4. Holding' = Holding
    BY <2>1 DEF Holding
  <2> QED
    BY <2>1, <2>2, <2>3, <2>4 DEF Bystander, InLoop, Storing
<1>2. CASE Stop \/ JoinWorkers \/ UNCHANGED vars
  <2>1. UNCHANGED <<m_current, m_end, m_body, m_userData, i, body, arg, runs, pc>>
    BY <1>2 DEF Stop, JoinWorkers, vars, poolVars, localVars, history
  <2> QED
    BY <2>1 DEF Bystander, Holding
<1> QED
  BY <1>1, <1>2 DEF DtorStep

\* Facts every case below starts from.
Typed(o) ==
    /\ o \in Calls /\ o \in Executors /\ o \notin Workers
    /\ Workers \subseteq Executors /\ Calls \subseteq Executors
    /\ m_current \in Nat /\ i \in [Executors -> Nat]
    /\ start[o] \in Nat /\ end[o] \in 0 .. MaxIndex /\ MaxIndex \in Nat
    /\ runs \in [Calls -> [Index -> Nat]]
    /\ body \in [Workers -> Calls \cup {None}] /\ arg \in [Workers -> Calls \cup {None}]
    /\ pc[o] \in Storing \cup Waiting \cup {"returned"}

LEMMA OwnerTyped == TypeOK /\ MutexInv /\ owner \in Calls => Typed(owner)
BY CallsAssumption, RangeAssumption DEF TypeOK, MutexInv, Typed, Executors

\* Nobody in the loop: o is not storing.
LEMMA NotStoring ==
    ASSUME NEW o, Typed(o), StoresAlone(o), LoopAlone(o),
           NEW e \in Executors, pc[e] \in InLoop
    PROVE  pc[o] \notin Storing /\ (e = o \/ e \in Workers)
BY DEF Typed, StoresAlone, LoopAlone, Quiet, Executors, InLoop, Storing

LEMMA ClaimOwned ==
    ASSUME TypeOK, NEW o, Typed(o), Owned(o), NEW e \in Executors, Claim(e) PROVE Owned(o)'
<1>1. /\ \A x \in Executors : pc'[x] = IF x = e THEN "check" ELSE pc[x]
      /\ pc[e] = "claim"
  BY GotoAt DEF Claim
<1>2. /\ i' = [i EXCEPT ![e] = m_current] /\ m_current' = m_current + 1
      /\ UNCHANGED <<m_end, m_body, m_userData, runs, body, arg>>
  BY DEF Claim, history
<1>3. pc[o] \notin Storing /\ (e = o \/ e \in Workers)
  BY <1>1, NotStoring DEF Owned, InLoop
<1>4. Holding' = Holding \cup {e} /\ e \notin Holding
  BY <1>1 DEF Holding
<1>5. i'[e] = m_current /\ \A x \in Executors \ {e} : i'[x] = i[x]
  BY <1>2 DEF Typed
<1>6. StoresAlone(o)' /\ FieldsStored(o)'
  BY <1>1, <1>2, <1>3 DEF Typed, Owned, StoresAlone, FieldsStored, Storing
<1>7. CounterPassed(o)'
  BY <1>1, <1>2 DEF Typed, Owned, CounterPassed
<1>8. LoopAlone(o)'
  BY <1>1, <1>3 DEF Typed, Owned, LoopAlone, InLoop
<1>9. HeldDistinct(o)'
  <2>1. ASSUME NEW f \in Holding
        PROVE  f # e /\ i'[f] = i[f] /\ i[f] < m_current /\ i[f] \in Nat
    BY <1>4, <1>5 DEF Owned, HeldDistinct, Holding, Typed
  <2>2. m_current \in Index => runs[o][m_current] = 0
    <3> SUFFICES ASSUME m_current \in Index PROVE runs[o][m_current] = 0
      OBVIOUS
    <3>1. runs[o][m_current] <= 0 /\ runs[o][m_current] \in Nat
      BY DEF Owned, RunsCounted, Typed
    <3> QED
      BY <3>1
  <2> QED
    BY <1>2, <1>4, <1>5, <2>1, <2>2 DEF Typed, Owned, HeldDistinct, CounterPassed
<1>10. WorkersMatch(o)'
  BY <1>1, <1>2, <1>5 DEF Typed, Owned, WorkersMatch
<1>11. RunsCounted(o)'
  <2> SUFFICES ASSUME NEW n \in Index
               PROVE  /\ runs[o][n] <= IF InRange(o, n) /\ n < m_current + 1 THEN 1 ELSE 0
                      /\ InRange(o, n) /\ n < m_current + 1 =>
                            runs[o][n] = 1 \/ \E f \in Holding' : i'[f] = n
    BY <1>2 DEF RunsCounted, InRange
  <2>1. n \in Nat /\ runs[o][n] \in Nat
    BY DEF Typed, Index
  <2>2. /\ runs[o][n] <= IF InRange(o, n) /\ n < m_current THEN 1 ELSE 0
        /\ InRange(o, n) /\ n < m_current => runs[o][n] = 1 \/ \E f \in Holding : i[f] = n
    BY DEF Owned, RunsCounted
  <2>3. (\E f \in Holding : i[f] = n) => \E f \in Holding' : i'[f] = n
    BY <1>4, <1>5 DEF Holding
  <2>4. n = m_current => \E f \in Holding' : i'[f] = n
    BY <1>4, <1>5
  <2>5. n < m_current + 1 <=> n < m_current \/ n = m_current
    BY <2>1 DEF Typed
  <2> QED
    BY <2>1, <2>2, <2>3, <2>4, <2>5
<1> QED
  BY <1>6, <1>7, <1>8, <1>9, <1>10, <1>11 DEF Owned

\* Giving up an index at or past the end, without having started its body.
LEMMA DropHeld ==
    ASSUME NEW o, Typed(o), Owned(o), NEW e \in Executors,
           UNCHANGED <<m_current, runs>>, Holding' = Holding \ {e},
           \A x \in Executors \ {e} : i'[x] = i[x], end[o] <= i[e]
    PROVE  HeldDistinct(o)' /\ RunsCounted(o)'
<1>1. HeldDistinct(o)'
  BY DEF Owned, HeldDistinct, Holding
<1>2. ASSUME NEW n \in Index, InRange(o, n), NEW f \in Holding, i[f] = n
      PROVE  f # e
  BY <1>2 DEF InRange, Typed, Index
<1>3. RunsCounted(o)'
  BY <1>2 DEF Owned, RunsCounted, InRange, Holding
<1> QED
  BY <1>1, <1>3

\* Starting the body of an index that is held and below the end.
LEMMA StartHeld ==
    ASSUME TypeOK, NEW o, Typed(o), Owned(o), NEW e \in Holding,
           m_current' = m_current, StartRun(o, i[e]), Holding' = Holding \ {e},
           i' = i, i[e] < end[o]
    PROVE  HeldDistinct(o)' /\ RunsCounted(o)'
<1>0. i[e] \in Index /\ i[e] \in Nat
  BY DEF Typed, Holding, Index
<1>1. \A n \in Index : runs'[o][n] = IF n = i[e] THEN 1 ELSE runs[o][n]
  <2>1. runs[o][i[e]] = 0
    BY <1>0 DEF Owned, HeldDistinct
  <2>2. \A n \in Index : runs'[o][n] = IF n = i[e] THEN runs[o][n] + 1 ELSE runs[o][n]
    BY StartAt DEF Typed
  <2> QED
    BY <2>1, <2>2
<1>2. start[o] <= i[e] /\ i[e] < m_current /\ \A f \in Holding \ {e} : i[f] # i[e]
  BY DEF Owned, HeldDistinct
<1>3. HeldDistinct(o)'
  BY <1>1, <1>2 DEF Owned, HeldDistinct
<1>4. RunsCounted(o)'
  BY <1>0, <1>1, <1>2 DEF Owned, RunsCounted, InRange
<1> QED
  BY <1>3, <1>4

LEMMA WorkerCheckOwned ==
    ASSUME TypeOK, NEW o, Typed(o), Owned(o), NEW w \in Workers, WorkerCheck(w) PROVE Owned(o)'
<1>1. /\ \A x \in Executors \ {w} : pc'[x] = pc[x] /\ i'[x] = i[x]
      /\ pc[w] = "check" /\ w \in Executors /\ w # o
  BY GotoAt DEF WorkerCheck, Typed
<1>2. UNCHANGED <<m_current, m_end, m_body, m_userData, runs, body, arg>>
  BY DEF WorkerCheck, poolVars, history
<1>3. pc[o] \notin Storing
  BY <1>1, NotStoring DEF Owned, InLoop
<1>4. m_end = end[o]
  BY <1>3 DEF Owned, FieldsStored, Storing
<1>5. \/ i[w] >= m_end /\ pc'[w] = "signal"
      \/ ~(i[w] >= m_end) /\ pc'[w] = "load" /\ i' = i
  BY <1>1, GotoAt DEF WorkerCheck
<1>6. StoresAlone(o)' /\ FieldsStored(o)' /\ CounterPassed(o)' /\ LoopAlone(o)'
  BY <1>1, <1>2, <1>3, CallsAssumption
     DEF Typed, Owned, StoresAlone, FieldsStored, CounterPassed, LoopAlone
<1>7. WorkersMatch(o)'
  BY <1>1, <1>2, <1>4, <1>5 DEF Typed, Owned, WorkersMatch
<1>8. HeldDistinct(o)' /\ RunsCounted(o)'
  <2>1. CASE i[w] >= m_end /\ pc'[w] = "signal"
    <3>1. Holding' = Holding \ {w}
      BY <1>1, <2>1 DEF Holding
    <3>2. end[o] <= i[w]
      BY <1>1, <1>4, <2>1 DEF Typed
    <3> QED
      BY <1>1, <1>2, <3>1, <3>2, DropHeld
  <2>2. CASE pc'[w] = "load" /\ i' = i
    <3>1. Holding' = Holding
      BY <1>1, <2>2 DEF Holding
    <3> QED
      BY <1>2, <2>2, <3>1 DEF Owned, HeldDistinct, RunsCounted, InRange
  <2> QED
    BY <1>5, <2>1, <2>2
<1> QED
  BY <1>6, <1>7, <1>8 DEF Owned

LEMMA WorkerLoadOwned ==
    ASSUME TypeOK, NEW o, Typed(o), Owned(o), NEW w \in Workers, WorkerLoad(w) PROVE Owned(o)'
<1>1. /\ \A x \in Executors : pc'[x] = IF x = w THEN "call" ELSE pc[x]
      /\ pc[w] = "load" /\ w \in Executors /\ w # o
  BY GotoAt DEF WorkerLoad, Typed
<1>2. UNCHANGED <<m_current, m_end, m_body, m_userData, runs, i, arg>> /\ body' = [body EXCEPT ![w] = m_body]
  BY DEF WorkerLoad, poolVars, history
<1>3. pc[o] \notin Storing
  BY <1>1, NotStoring DEF Owned, InLoop
<1>4. m_body = o
  BY <1>3 DEF Owned, FieldsStored, Storing
<1>5. Holding' = Holding
  BY <1>1 DEF Holding
<1>6. StoresAlone(o)' /\ FieldsStored(o)' /\ CounterPassed(o)' /\ LoopAlone(o)'
  BY <1>1, <1>2, <1>3, CallsAssumption
     DEF Typed, Owned, StoresAlone, FieldsStored, CounterPassed, LoopAlone
<1>7. WorkersMatch(o)'
  BY <1>1, <1>2, <1>4 DEF Typed, Owned, WorkersMatch
<1>8. HeldDistinct(o)' /\ RunsCounted(o)'
  BY <1>2, <1>5 DEF Owned, HeldDistinct, RunsCounted, InRange
<1> QED
  BY <1>6, <1>7, <1>8 DEF Owned

LEMMA WorkerCallOwned ==
    ASSUME TypeOK, NEW o, Typed(o), Owned(o), NEW w \in Workers, WorkerCall(w) PROVE Owned(o)'
<1>1. /\ \A x \in Executors : pc'[x] = IF x = w THEN "run" ELSE pc[x]
      /\ pc[w] = "call" /\ w \in Executors /\ w # o
  BY GotoAt DEF WorkerCall, Typed
<1>2. /\ UNCHANGED <<m_current, m_end, m_body, m_userData, i, body>>
      /\ arg' = [arg EXCEPT ![w] = m_userData] /\ StartRun(m_userData, i[w])
  BY DEF WorkerCall, poolVars
<1>3. pc[o] \notin Storing
  BY <1>1, NotStoring DEF Owned, InLoop
<1>4. m_userData = o
  BY <1>3 DEF Owned, FieldsStored, Storing
<1>5. Holding' = Holding \ {w} /\ w \in Holding
  BY <1>1 DEF Holding
<1>6. StoresAlone(o)' /\ FieldsStored(o)' /\ CounterPassed(o)' /\ LoopAlone(o)'
  BY <1>1, <1>2, <1>3, CallsAssumption
     DEF Typed, Owned, StoresAlone, FieldsStored, CounterPassed, LoopAlone
<1>7. WorkersMatch(o)'
  BY <1>1, <1>2, <1>4 DEF Typed, Owned, WorkersMatch
<1>8. i[w] < end[o]
  BY <1>1 DEF Owned, WorkersMatch
<1>9. HeldDistinct(o)' /\ RunsCounted(o)'
  BY <1>2, <1>4, <1>5, <1>8, StartHeld
<1> QED
  BY <1>6, <1>7, <1>9 DEF Owned

LEMMA CallCheckOwned ==
    ASSUME TypeOK, NEW o, Typed(o), Owned(o), NEW c \in Calls, CallCheck(c) PROVE Owned(o)'
<1>1. /\ \A x \in Executors \ {c} : pc'[x] = pc[x] /\ i'[x] = i[x]
      /\ pc[c] = "check" /\ c \in Executors /\ c \notin Workers
  BY GotoAt, CallsAssumption DEF CallCheck, Typed
<1>2. UNCHANGED <<m_current, m_end, m_body, m_userData, body, arg>>
  BY DEF CallCheck, poolVars
<1>3. pc[o] \notin Storing /\ c = o
  BY <1>1, NotStoring DEF Owned, InLoop
<1>4. \/ i[o] >= end[o] /\ pc'[o] = "wait" /\ runs' = runs
      \/ ~(i[o] >= end[o]) /\ pc'[o] = "run" /\ i' = i /\ StartRun(o, i[o])
  BY <1>1, <1>3, GotoAt DEF CallCheck
<1>5. o \in Holding
  BY <1>1, <1>3 DEF Holding
<1>6. Holding' = Holding \ {o}
  BY <1>1, <1>3, <1>4 DEF Holding
<1>7. StoresAlone(o)' /\ FieldsStored(o)'
  BY <1>1, <1>2, <1>3, <1>4 DEF Typed, Owned, StoresAlone, FieldsStored, Storing
<1>8. CounterPassed(o)'
  <2>1. i[o] < m_current
    BY <1>5 DEF Owned, HeldDistinct
  <2> QED
    BY <1>2, <1>4, <2>1 DEF Typed, Owned, CounterPassed
<1>9. LoopAlone(o)'
  BY <1>1, <1>3 DEF Typed, Owned, LoopAlone
<1>10. WorkersMatch(o)'
  BY <1>1, <1>2, <1>3 DEF Typed, Owned, WorkersMatch
<1>11. HeldDistinct(o)' /\ RunsCounted(o)'
  <2>1. CASE i[o] >= end[o] /\ runs' = runs
    <3>1. end[o] <= i[o]
      BY <2>1 DEF Typed
    <3> QED
      BY <1>1, <1>2, <1>3, <1>6, <2>1, <3>1, DropHeld
  <2>2. CASE ~(i[o] >= end[o]) /\ i' = i /\ StartRun(o, i[o])
    <3>1. i[o] < end[o]
      BY <2>2 DEF Typed
    <3> QED
      BY <1>2, <1>5, <1>6, <2>2, <3>1, StartHeld
  <2> QED
    BY <1>4, <2>1, <2>2
<1> QED
  BY <1>7, <1>8, <1>9, <1>10, <1>11 DEF Owned

\* The steps inside the critical section of dispatch, which nobody shares.
LEMMA StoreStepOwned ==
    ASSUME NEW o, Typed(o), Owned(o), pc[o] \in Storing,
           \A x \in Executors \ {o} : pc'[x] = pc[x],
           pc'[o] \in Storing \cup {"notify"},
           UNCHANGED <<m_current, runs, i, body, arg>>, FieldsStored(o)'
    PROVE  Owned(o)'
<1>1. Quiet(o) /\ m_current = start[o] /\ \A n \in Index : runs[o][n] = 0
  BY DEF Owned, StoresAlone
<1>2. \A x \in Executors : pc[x] \notin InLoop /\ pc'[x] \notin InLoop
  BY <1>1 DEF Quiet, Typed, Executors, InLoop, Storing
<1>3. Holding' = {}
  BY <1>2 DEF Holding, InLoop
<1>4. Quiet(o)'
  BY <1>1 DEF Quiet, Typed
<1>5. StoresAlone(o)' /\ CounterPassed(o)' /\ LoopAlone(o)'
  BY <1>1, <1>4 DEF Typed, Owned, StoresAlone, CounterPassed, LoopAlone, Storing
<1>6. HeldDistinct(o)' /\ WorkersMatch(o)'
  BY <1>2, <1>3 DEF HeldDistinct, WorkersMatch, Typed, InLoop
<1>7. RunsCounted(o)'
  BY <1>1 DEF Typed, RunsCounted, InRange, Index
<1> QED
  BY <1>5, <1>6, <1>7 DEF Owned

LEMMA StoreOwned ==
    ASSUME TypeOK, MutexInv, NEW o \in Calls, o = owner, Typed(o), Owned(o), NEW c \in Calls,
           StoreEnd(c) \/ StoreBody(c) \/ StoreUserData(c) \/ StoreWork(c)
    PROVE  Owned(o)'
<1>1. pc[c] \in Storing
  BY DEF StoreEnd, StoreBody, StoreUserData, StoreWork, Storing
<1>2. c = o
  BY <1>1, CallsAssumption DEF MutexInv, Executors
<1>3. UNCHANGED <<m_current, runs, i, body, arg>>
  BY DEF StoreEnd, StoreBody, StoreUserData, StoreWork, localVars, history
<1>4. \A x \in Executors \ {o} : pc'[x] = pc[x]
  BY <1>2, GotoAt DEF StoreEnd, StoreBody, StoreUserData, StoreWork, Typed
<1>5. CASE StoreEnd(c)
  <2>1. pc[o] = "storeEnd" /\ pc'[o] = "storeBody" /\ m_end' = end[o]
    BY <1>2, <1>5, GotoAt DEF StoreEnd, Typed
  <2>2. FieldsStored(o)'
    BY <2>1 DEF FieldsStored
  <2> QED
    BY <1>1, <1>2, <1>3, <1>4, <2>1, <2>2, StoreStepOwned DEF Storing
<1>6. CASE StoreBody(c)
  <2>1. /\ pc[o] = "storeBody" /\ pc'[o] = "storeUserData"
        /\ m_body' = o /\ m_end' = m_end
    BY <1>2, <1>6, GotoAt DEF StoreBody, Typed
  <2>2. FieldsStored(o)'
    BY <2>1 DEF Owned, FieldsStored
  <2> QED
    BY <1>1, <1>2, <1>3, <1>4, <2>1, <2>2, StoreStepOwned DEF Storing
<1>7. CASE StoreUserData(c)
  <2>1. /\ pc[o] = "storeUserData" /\ pc'[o] = "storeWork"
        /\ m_userData' = o /\ m_end' = m_end /\ m_body' = m_body
    BY <1>2, <1>7, GotoAt DEF StoreUserData, Typed
  <2>2. FieldsStored(o)'
    BY <2>1 DEF Owned, FieldsStored
  <2> QED
    BY <1>1, <1>2, <1>3, <1>4, <2>1, <2>2, StoreStepOwned DEF Storing
<1>8. CASE StoreWork(c)
  <2>1. /\ pc[o] = "storeWork" /\ pc'[o] = "notify"
        /\ UNCHANGED <<m_end, m_body, m_userData>>
    BY <1>2, <1>8, GotoAt DEF StoreWork, Typed
  <2>2. FieldsStored(o)'
    BY <2>1 DEF Owned, FieldsStored
  <2> QED
    BY <1>1, <1>2, <1>3, <1>4, <2>1, <2>2, StoreStepOwned DEF Storing
<1> QED
  BY <1>5, <1>6, <1>7, <1>8

LEMMA StoreCurrentOwned ==
    ASSUME TypeOK, FreshInv, NEW c \in Calls, StoreCurrent(c), Quiet(c) PROVE Owned(c)'
<1>1. /\ \A x \in Executors : pc'[x] = IF x = c THEN "storeEnd" ELSE pc[x]
      /\ pc[c] = "store" /\ c \in Executors /\ c \notin Workers
  BY GotoAt, CallsAssumption DEF StoreCurrent, Executors
<1>2. m_current' = start[c] /\ UNCHANGED <<runs, i, body, arg>>
  BY DEF StoreCurrent, localVars
<1>3. \A n \in Index : runs[c][n] = 0
  BY <1>1 DEF FreshInv
<1>4. \A x \in Executors : pc'[x] \notin InLoop
  BY <1>1 DEF Quiet, Executors, InLoop
<1>5. Holding' = {}
  BY <1>4 DEF Holding, InLoop
<1>6. Quiet(c)'
  BY <1>1 DEF Quiet, Executors
<1>7. start[c] \in Nat
  BY RangeAssumption
<1>8. StoresAlone(c)' /\ FieldsStored(c)' /\ CounterPassed(c)'
  BY <1>1, <1>2, <1>3, <1>6, <1>7 DEF StoresAlone, FieldsStored, CounterPassed
<1>9. LoopAlone(c)' /\ HeldDistinct(c)' /\ WorkersMatch(c)'
  BY <1>4, <1>5, <1>6 DEF LoopAlone, HeldDistinct, WorkersMatch, Quiet, InLoop, Executors
<1>10. RunsCounted(c)'
  BY <1>2, <1>3, <1>7 DEF RunsCounted, InRange, Index
<1> QED
  BY <1>8, <1>9, <1>10 DEF Owned

LEMMA InitOwner == Init => OwnerInv
BY DEF Init, OwnerInv

LEMMA OwnerNext == TypeOK /\ MutexInv /\ FreshInv /\ OwnerInv /\ [Next]_vars => OwnerInv'
<1> SUFFICES ASSUME TypeOK, MutexInv, FreshInv, OwnerInv, [Next]_vars, owner' \in exclusive'
             PROVE  Owned(owner)'
  BY DEF OwnerInv, Owned
<1>1. ASSUME NEW c \in Calls, StoreCurrent(c) PROVE Owned(owner)'
  <2>1. owner' = c /\ (Quiet(c) \/ c \in exclusive)
    BY <1>1 DEF StoreCurrent
  <2>2. c \notin exclusive
    BY <1>1 DEF FreshInv, StoreCurrent
  <2>3. Owned(c)'
    BY <1>1, <2>1, <2>2, StoreCurrentOwned
  <2> QED
    BY <2>1, <2>3 DEF Owned, StoresAlone, FieldsStored, CounterPassed, LoopAlone, HeldDistinct,
                      WorkersMatch, RunsCounted
<1>2. ASSUME ~ \E c \in Calls : StoreCurrent(c) PROVE Owned(owner)'
  <2>1. owner' = owner /\ exclusive' = exclusive
    BY <1>2 DEF Next, WorkerStep, CallStep, DtorStep, WorkerWait, Claim, WorkerCheck, WorkerLoad,
       WorkerCall, Signal, WorkerNotify, BodyReturn, Invoke, InvokeNested, Probe, SeqNext, StoreEnd,
       StoreBody, StoreUserData, StoreWork, CallNotify, CallCheck, CallWait, Stop, StopNotify,
       JoinWorkers, history, vars
  <2>2. PICK o \in Calls : o = owner
    BY <2>1 DEF TypeOK
  <2>3. Typed(o) /\ Owned(o)
    BY <2>1, <2>2, OwnerTyped DEF OwnerInv, Owned
  <2>4. ASSUME Bystander(o) PROVE Owned(o)'
    BY <2>3, <2>4, BystanderOwned
  <2>5. ASSUME NEW w \in Workers, WorkerStep(w) PROVE Owned(o)'
    <3>1. w \in Executors
      BY DEF Executors
    <3> QED
      BY <2>2, <2>3, <2>4, <2>5, <3>1, WorkerBystander, ClaimOwned, WorkerCheckOwned,
         WorkerLoadOwned, WorkerCallOwned DEF WorkerStep
  <2>6. ASSUME NEW c \in Calls,
               CallStep(c) \/ Invoke(c) \/ \E e \in Executors : InvokeNested(e, c)
        PROVE  Owned(o)'
    <3>1. c \in Executors
      BY DEF Executors
    <3> QED
      BY <1>2, <2>2, <2>3, <2>4, <2>6, <3>1, CallBystander, ClaimOwned, CallCheckOwned, StoreOwned
         DEF CallStep
  <2>7. ASSUME Stop \/ DtorStep \/ UNCHANGED vars PROVE Owned(o)'
    BY <2>2, <2>4, <2>7, OtherBystander
  <2>8. Owned(o)'
    BY <2>5, <2>6, <2>7 DEF Next
  <2> QED
    BY <2>1, <2>2, <2>8 DEF Owned, StoresAlone, FieldsStored, CounterPassed, LoopAlone,
                            HeldDistinct, WorkersMatch, RunsCounted
<1> QED
  BY <1>1, <1>2

----------------------------------------------------------------------------
(* PastInv *)

Past(d) ==
    /\ pc[d] \in {"wait", "asleep", "returned"}
    /\ \A n \in Index : runs[d][n] = IF InRange(d, n) THEN 1 ELSE 0
    /\ d \in {m_body, m_userData} => owner \in exclusive /\ pc[owner] \in Storing
    /\ \A w \in Workers : /\ pc[w] \in {"call", "run"} => body[w] # d
                          /\ pc[w] = "run" => arg[w] # d

\* When nobody is in the loop any more, all of the last call's range was started.
LEMMA OwnedComplete ==
    ASSUME NEW o, Typed(o), Owned(o), pc[o] \in {"wait", "asleep", "returned"}, Holding = {}
    PROVE  \A n \in Index : runs[o][n] = IF InRange(o, n) THEN 1 ELSE 0
<1> SUFFICES ASSUME NEW n \in Index PROVE runs[o][n] = IF InRange(o, n) THEN 1 ELSE 0
  OBVIOUS
<1>1. n \in Nat /\ runs[o][n] \in Nat
  BY DEF Typed, Index
<1>2. end[o] <= m_current
  BY DEF Owned, CounterPassed
<1>3. InRange(o, n) => n < m_current
  BY <1>1, <1>2 DEF InRange, Typed
<1>4. /\ runs[o][n] <= IF InRange(o, n) /\ n < m_current THEN 1 ELSE 0
      /\ InRange(o, n) /\ n < m_current => runs[o][n] = 1
  BY DEF Owned, RunsCounted
<1> QED
  BY <1>1, <1>3, <1>4

\* A worker in the loop sees no completed call in the shared fields.
LEMMA NotStale ==
    ASSUME OwnerInv, NEW d, Past(d), NEW w \in Workers, pc[w] \in InLoop
    PROVE  d # m_body /\ d # m_userData
BY DEF Past, OwnerInv, StoresAlone, Quiet

LEMMA WorkerPast ==
    ASSUME TypeOK, OwnerInv, NEW d \in Calls, Past(d), NEW w \in Workers, WorkerStep(w)
    PROVE  Past(d)'
<1>1. /\ \A c \in Calls : pc'[c] = pc[c] \/ (pc[c] = "asleep" /\ pc'[c] = "wait")
      /\ UNCHANGED <<owner, exclusive, m_body, m_userData>>
  BY WorkerEffect
<1>2. pc'[d] \in {"wait", "asleep", "returned"}
  BY <1>1 DEF Past
<1>3. \A n \in Index : runs'[d][n] = runs[d][n]
  <2>1. CASE pc[w] = "call" /\ StartRun(m_userData, i[w])
    <3>1. d # m_userData
      BY <2>1, NotStale DEF InLoop
    <3> QED
      BY <2>1, <3>1, StartAt
  <2> QED
    BY <2>1, WorkerRuns
<1>4. d \in {m_body', m_userData'} => owner' \in exclusive' /\ pc'[owner'] \in Storing
  BY <1>1 DEF Past, Storing, TypeOK
<1>5. ASSUME NEW v \in Workers
      PROVE  /\ pc'[v] \in {"call", "run"} => body'[v] # d
             /\ pc'[v] = "run" => arg'[v] # d
  <2>0. v \in Executors /\ w \in Executors
    BY DEF Executors
  <2>1. /\ pc[v] \in {"call", "run"} => body[v] # d
        /\ pc[v] = "run" => arg[v] # d
    BY DEF Past
  <2>2. CASE WorkerLoad(w)
    <3>1. d # m_body
      BY <2>2, NotStale DEF WorkerLoad, InLoop
    <3> QED
      BY <2>0, <2>1, <2>2, <3>1, GotoAt DEF WorkerLoad, TypeOK
  <2>3. CASE WorkerCall(w)
    <3>1. d # m_userData
      BY <2>3, NotStale DEF WorkerCall, InLoop
    <3> QED
      BY <2>0, <2>1, <2>3, <3>1, GotoAt DEF WorkerCall, TypeOK
  <2>4. CASE BodyReturn(w)
    <3>1. pc'[w] \in {"claim", "seq"} /\ (v # w => pc'[v] = pc[v])
      BY <2>0, <2>4, GotoAt DEF BodyReturn
    <3>2. v # w => body'[v] = body[v] /\ arg'[v] = arg[v]
      BY <2>4 DEF BodyReturn
    <3> QED
      BY <2>1, <3>1, <3>2
  <2>5. CASE WorkerNotify(w)
    BY <2>0, <2>1, <2>5, NotifyAt DEF WorkerNotify, localVars
  <2>6. CASE Claim(w) \/ WorkerCheck(w)
    BY <2>0, <2>1, <2>6, GotoAt DEF Claim, WorkerCheck
  <2>7. CASE WorkerWait(w) \/ Signal(w)
    BY <2>0, <2>1, <2>7, GotoAt DEF WorkerWait, Signal, localVars
  <2> QED
    BY <2>2, <2>3, <2>4, <2>5, <2>6, <2>7 DEF WorkerStep
<1> QED
  BY <1>2, <1>3, <1>4, <1>5 DEF Past, InRange

\* A call moves itself only, and never makes a completed call run again.
LEMMA CallPast ==
    ASSUME TypeOK, MutexInv, OwnerInv, NEW d \in Calls \ {owner}, Past(d), NEW c \in Calls,
           CallStep(c) \/ Invoke(c) \/ \E e \in Executors : InvokeNested(e, c),
           ~ StoreCurrent(c)
    PROVE  Past(d)'
<1>0. c \in Executors /\ d \in Executors /\ c \notin Workers /\ Workers \subseteq Executors
  BY CallsAssumption DEF Executors
<1>1. /\ \A x \in Executors \ {c} : pc'[x] = pc[x] \/ (pc[x] = "asleep" /\ pc'[x] = "wait")
      /\ pc[c] \in {"wait", "asleep", "returned"} => pc'[c] \in {"wait", "asleep", "returned"}
  <2>1. CASE CallNotify(c)
    BY <1>0, <2>1, NotifyAt DEF CallNotify
  <2>2. CASE Probe(c) \/ SeqNext(c) \/ StoreEnd(c) \/ StoreBody(c) \/ StoreUserData(c)
    BY <1>0, <2>2, GotoAt DEF Probe, SeqNext, StoreEnd, StoreBody, StoreUserData
  <2>3. CASE StoreWork(c) \/ Claim(c) \/ CallCheck(c) \/ BodyReturn(c) \/ CallWait(c)
    BY <1>0, <2>3, GotoAt DEF StoreWork, Claim, CallCheck, BodyReturn, CallWait
  <2>4. CASE Invoke(c) \/ \E e \in Executors : InvokeNested(e, c)
    BY <1>0, <2>4, GotoAt DEF Invoke, InvokeNested
  <2> QED
    BY <2>1, <2>2, <2>3, <2>4 DEF CallStep
<1>2. UNCHANGED <<owner, exclusive>>
  BY DEF CallStep, Probe, SeqNext, StoreEnd, StoreBody, StoreUserData, StoreWork, CallNotify, Claim,
         CallCheck, BodyReturn, CallWait, Invoke, InvokeNested, history
<1>3. \A w \in Workers : body'[w] = body[w] /\ arg'[w] = arg[w]
  BY <1>0 DEF CallStep, Probe, SeqNext, StoreEnd, StoreBody, StoreUserData, StoreWork, CallNotify,
         Claim, CallCheck, BodyReturn, CallWait, Invoke, InvokeNested, localVars
<1>4. pc'[d] \in {"wait", "asleep", "returned"}
  BY <1>0, <1>1 DEF Past
<1>5. \A n \in Index : runs'[d][n] = runs[d][n]
  <2>1. runs' = runs \/ (pc[c] \in {"seq", "check"} /\ StartRun(c, i[c]))
    BY DEF CallStep, Probe, SeqNext, StoreEnd, StoreBody, StoreUserData, StoreWork, CallNotify,
         Claim, CallCheck, BodyReturn, CallWait, Invoke, InvokeNested, history
  <2> QED
    BY <2>1, StartAt DEF Past
<1>6. d \in {m_body', m_userData'} => owner' \in exclusive' /\ pc'[owner'] \in Storing
  <2> SUFFICES ASSUME d \in {m_body', m_userData'}
               PROVE  owner \in exclusive /\ pc'[owner] \in Storing
    BY <1>2
  <2>1. pc[c] \in Storing => c = owner
    BY CallsAssumption DEF MutexInv, Executors
  <2>2. d \in {m_body, m_userData}
    <3>1. CASE StoreBody(c) \/ StoreUserData(c)
      <4>1. c = owner
        BY <2>1, <3>1 DEF StoreBody, StoreUserData, Storing
      <4> QED
        BY <3>1, <4>1 DEF StoreBody, StoreUserData
    <3>2. CASE ~ (StoreBody(c) \/ StoreUserData(c))
      <4>1. UNCHANGED <<m_body, m_userData>>
        BY <3>2 DEF CallStep, Probe, SeqNext, StoreEnd, StoreWork, CallNotify, Claim,
           CallCheck, BodyReturn, CallWait, Invoke, InvokeNested, poolVars
      <4> QED
        BY <4>1
    <3> QED
      BY <3>1, <3>2
  <2>3. owner \in exclusive /\ pc[owner] \in Storing
    BY <2>2 DEF Past
  <2>4. owner \in Executors
    BY <2>3 DEF TypeOK, Executors
  <2>5. CASE c # owner
    BY <1>1, <2>3, <2>4, <2>5 DEF Storing
  <2>6. CASE c = owner /\ StoreWork(c)
    <3>1. m_body = owner /\ m_userData = owner
      BY <2>3, <2>6 DEF OwnerInv, FieldsStored, StoreWork
    <3> QED
      BY <2>2, <3>1
  <2>7. CASE c = owner /\ (StoreEnd(c) \/ StoreBody(c) \/ StoreUserData(c))
    BY <2>3, <2>4, <2>7, GotoAt DEF StoreEnd, StoreBody, StoreUserData, Storing
  <2> QED
    BY <2>3, <2>5, <2>6, <2>7 DEF CallStep, Probe, SeqNext, CallNotify, Claim, CallCheck, BodyReturn,
       CallWait, Invoke, InvokeNested, Storing
<1>7. ASSUME NEW w \in Workers
      PROVE  /\ pc'[w] \in {"call", "run"} => body'[w] # d
             /\ pc'[w] = "run" => arg'[w] # d
  BY <1>0, <1>1, <1>3 DEF Past
<1> QED
  BY <1>4, <1>5, <1>6, <1>7 DEF Past, InRange

LEMMA OtherPast ==
    ASSUME TypeOK, NEW d \in Calls, Past(d), Stop \/ DtorStep \/ UNCHANGED vars
    PROVE  Past(d)'
<1>1. CASE StopNotify
  BY <1>1 DEF StopNotify, Past, InRange, Executors, TypeOK, poolVars, localVars, history, Storing
<1>2. CASE Stop \/ JoinWorkers \/ UNCHANGED vars
  BY <1>2 DEF Stop, JoinWorkers, vars, Past, InRange, poolVars, localVars, history
<1> QED
  BY <1>1, <1>2 DEF DtorStep

\* Publishing keeps completed calls completed, and completes the previous one if
\* nobody is in its loop; otherwise the previous one is no longer exclusive.
LEMMA StoreCurrentPast ==
    ASSUME TypeOK, MutexInv, FreshInv, OwnerInv, PastInv, NEW c \in Calls, StoreCurrent(c),
           NEW d \in exclusive' \ {c}
    PROVE  Past(d)'
<1>1. /\ \A x \in Executors : pc'[x] = IF x = c THEN "storeEnd" ELSE pc[x]
      /\ pc[c] = "store" /\ c \in Executors /\ c \notin Workers /\ mutex = None
  BY GotoAt, CallsAssumption DEF StoreCurrent, Executors
<1>2. UNCHANGED <<runs, body, arg, m_body, m_userData>> /\ owner' = c
  BY DEF StoreCurrent, localVars
<1>3. d \in exclusive /\ d \in Calls /\ d \in Executors
  BY DEF StoreCurrent, TypeOK, Executors
<1>4. owner \in Calls => pc[owner] \notin Storing
  BY <1>1, CallsAssumption DEF MutexInv, Executors
<1>5. CASE d # owner
  <2>1. Past(d)
    BY <1>3, <1>5 DEF PastInv, Past
  <2>2. d \notin {m_body, m_userData}
    BY <1>4, <2>1 DEF Past, TypeOK
  <2> QED
    BY <1>1, <1>2, <1>3, <2>1, <2>2 DEF Past, InRange, Executors
<1>6. CASE d = owner
  <2>1. Quiet(c) /\ exclusive' = exclusive \cup {c}
    BY <1>3, <1>6 DEF StoreCurrent
  <2>2. \A x \in Executors : pc[x] \notin InLoop /\ (x \in Calls => pc[x] # "notify")
    BY <1>1, <2>1 DEF Quiet, Executors, InLoop
  <2>3. Typed(d) /\ Owned(d)
    BY <1>3, <1>6, OwnerTyped DEF OwnerInv, Owned
  <2>4. pc[d] \in {"wait", "asleep", "returned"}
    BY <1>3, <1>4, <1>6, <2>2, <2>3 DEF Typed, Waiting, InLoop
  <2>5. Holding = {}
    BY <2>2 DEF Holding, InLoop
  <2>6. \A n \in Index : runs[d][n] = IF InRange(d, n) THEN 1 ELSE 0
    BY <2>3, <2>4, <2>5, OwnedComplete
  <2>7. owner' \in exclusive' /\ pc'[owner'] \in Storing
    BY <1>1, <1>2, <2>1 DEF Storing
  <2>8. \A w \in Workers : pc'[w] \notin {"call", "run"}
    BY <1>1, <2>2 DEF Executors, InLoop
  <2> QED
    BY <1>1, <1>2, <1>3, <2>4, <2>6, <2>7, <2>8 DEF Past, InRange
<1> QED
  BY <1>5, <1>6

LEMMA InitPast == Init => PastInv
BY DEF Init, PastInv

LEMMA PastNext ==
    TypeOK /\ MutexInv /\ FreshInv /\ OwnerInv /\ PastInv /\ [Next]_vars => PastInv'
<1> SUFFICES ASSUME TypeOK, MutexInv, FreshInv, OwnerInv, PastInv, [Next]_vars,
                    NEW d \in exclusive' \ {owner'}
             PROVE  Past(d)'
  BY DEF PastInv, Past
<1>1. ASSUME NEW c \in Calls, StoreCurrent(c) PROVE Past(d)'
  <2>1. owner' = c
    BY <1>1 DEF StoreCurrent
  <2> QED
    BY <1>1, <2>1, StoreCurrentPast
<1>2. ASSUME ~ \E c \in Calls : StoreCurrent(c) PROVE Past(d)'
  <2>1. owner' = owner /\ exclusive' = exclusive
    BY <1>2 DEF Next, WorkerStep, CallStep, DtorStep, WorkerWait, Claim, WorkerCheck, WorkerLoad,
       WorkerCall, Signal, WorkerNotify, BodyReturn, Invoke, InvokeNested, Probe, SeqNext, StoreEnd,
       StoreBody, StoreUserData, StoreWork, CallNotify, CallCheck, CallWait, Stop, StopNotify,
       JoinWorkers, history, vars
  <2>2. d \in Calls \ {owner} /\ Past(d)
    BY <2>1 DEF PastInv, Past, TypeOK
  <2>3. ASSUME NEW w \in Workers, WorkerStep(w) PROVE Past(d)'
    BY <2>2, <2>3, WorkerPast
  <2>4. ASSUME NEW c \in Calls,
               CallStep(c) \/ Invoke(c) \/ \E e \in Executors : InvokeNested(e, c)
        PROVE  Past(d)'
    BY <1>2, <2>2, <2>4, CallPast
  <2>5. CASE Stop \/ DtorStep \/ UNCHANGED vars
    BY <2>2, <2>5, OtherPast
  <2> QED
    BY <2>3, <2>4, <2>5 DEF Next
<1> QED
  BY <1>1, <1>2

----------------------------------------------------------------------------
LEMMA Inductive == Init /\ [][Next]_vars => []IInv
<1>1. Init => IInv
  BY InitType, InitMutex, InitFresh, InitOwner, InitPast DEF IInv
<1>2. IInv /\ [Next]_vars => IInv'
  <2> SUFFICES ASSUME IInv, [Next]_vars PROVE IInv'
    OBVIOUS
  <2>1. TypeOK' /\ MutexInv' /\ FreshInv' /\ OwnerInv' /\ PastInv'
    BY TypeNext, MutexNext, FreshNext, OwnerNext, PastNext DEF IInv
  <2> QED
    BY <2>1 DEF IInv
<1> QED
  BY <1>1, <1>2, PTL

(* However many workers, calls, nested calls and overlapping publishes there *)
(* are, a parallel for that no other one disturbed starts no iteration twice *)
(* and none outside its range.                                               *)
THEOREM StartsOnce == Spec => []IteratesOnce
<1>1. IInv => IteratesOnce
  <2> SUFFICES ASSUME IInv, NEW c \in exclusive, NEW n \in Index
               PROVE  runs[c][n] <= IF InRange(c, n) THEN 1 ELSE 0
    BY DEF IteratesOnce
  <2>1. c \in Calls /\ runs[c][n] \in Nat
    BY DEF IInv, TypeOK
  <2>2. CASE c = owner
    BY <2>1, <2>2 DEF IInv, OwnerInv, RunsCounted
  <2>3. CASE c # owner
    BY <2>1, <2>3 DEF IInv, PastInv
  <2> QED
    BY <2>2, <2>3
<1> QED
  BY <1>1, Inductive, PTL DEF Spec

(* And once it has returned and the loop is empty, or another call has taken *)
(* the pool, each iteration of its range has been started.                   *)
THEOREM StartsAll == Spec => []IteratesAll
<1>1. IInv => IteratesAll
  <2> SUFFICES ASSUME IInv, NEW c \in exclusive, NEW n \in Index, InRange(c, n),
                      (pc[c] = "returned" /\ Quiet(c)) \/ owner # c
               PROVE  runs[c][n] = 1
    BY DEF IteratesAll
  <2>1. CASE owner # c
    BY <2>1 DEF IInv, PastInv
  <2>2. CASE c = owner /\ pc[c] = "returned" /\ Quiet(c)
    <3>1. c \in Calls /\ Typed(c) /\ Owned(c)
      BY <2>2, OwnerTyped DEF IInv, OwnerInv, Owned, TypeOK
    <3>2. Holding = {}
      BY <2>2 DEF Quiet, Holding, Executors, InLoop
    <3> QED
      BY <2>2, <3>1, <3>2, OwnedComplete
  <2> QED
    BY <2>1, <2>2
<1> QED
  BY <1>1, Inductive, PTL DEF Spec

(* A worker that runs the body of an undisturbed parallel for runs it on that *)
(* call's captured variables.                                                 *)
THEOREM BodiesMatch == Spec => []PairsMatch
<1>1. IInv => PairsMatch
  <2> SUFFICES ASSUME IInv, NEW w \in Workers, pc[w] = "run",
                      {body[w], arg[w]} \cap exclusive # {}
               PROVE  body[w] = arg[w]
    BY DEF PairsMatch
  <2>1. body[w] \in exclusive => body[w] = owner
    BY DEF IInv, PastInv
  <2>2. arg[w] \in exclusive => arg[w] = owner
    BY DEF IInv, PastInv
  <2>3. owner \in exclusive => body[w] = owner /\ arg[w] = owner
    BY DEF IInv, OwnerInv, WorkersMatch
  <2> QED
    BY <2>1, <2>2, <2>3
<1> QED
  BY <1>1, Inductive, PTL DEF Spec

----------------------------------------------------------------------------
(* SomebodyGoesOn *)

\* What a step of executor e leaves to the others: it wakes sleepers, or nothing.
OthersStay(e) ==
    \A x \in Executors \ {e} : pc'[x] = pc[x] \/ (pc[x] = "asleep" /\ pc'[x] = "wait")

AllAwake(e) == \A x \in Executors \ {e} : pc'[x] # "asleep"

\* Where a call is that never waits for anybody.
Sequential == {"probe", "seq", "seqRun", "returned"}
\* Where a worker is that is out of the loop.
OutOfLoop == {"notify", "wait", "asleep", "exited"}

\* What a step of a worker does to the wait set, to m_hasWork and to its own
\* location.
LEMMA WorkerGoes ==
    ASSUME TypeOK, NEW w \in Workers, WorkerStep(w)
    PROVE  /\ OthersStay(w)
           /\ UNCHANGED <<caller, m_stop>>
           /\ m_hasWork' => m_hasWork
           /\ m_hasWork /\ ~m_hasWork' => pc'[w] = "notify"
           /\ pc'[w] = "asleep" => ~m_hasWork'
           /\ pc'[w] = "exited" => m_stop
           /\ pc[w] = "notify" => AllAwake(w)
           /\ pc[w] \in Running => ~BodyStandsStill(w)
           /\ ~m_hasWork /\ pc[w] \in OutOfLoop => pc'[w] \in OutOfLoop
<1>0. w \in Executors
  BY DEF Executors
<1>a. m_hasWork \in BOOLEAN
  BY DEF TypeOK
<1> USE DEF OthersStay, AllAwake, OutOfLoop, Running, poolVars, localVars, history
<1>1. CASE WorkerWait(w)
  BY <1>0, <1>1, GotoAt DEF WorkerWait
<1>2. CASE Claim(w)
  BY <1>0, <1>2, GotoAt DEF Claim
<1>3. CASE WorkerCheck(w)
  BY <1>0, <1>3, GotoAt DEF WorkerCheck
<1>4. CASE WorkerLoad(w)
  BY <1>0, <1>4, GotoAt DEF WorkerLoad
<1>5. CASE WorkerCall(w)
  BY <1>0, <1>5, GotoAt DEF WorkerCall
<1>6. CASE BodyReturn(w)
  <2>1. ~BodyStandsStill(w)
    BY <1>6 DEF BodyReturn, BodyStandsStill
  <2> HIDE DEF BodyStandsStill
  <2> QED
    BY <1>0, <1>6, <2>1, GotoAt DEF BodyReturn
<1>7. CASE Signal(w)
  <2>1. CASE m_doneCount' >= Cardinality(Workers)
    BY <1>0, <1>a, <1>7, <2>1, GotoAt DEF Signal
  <2>2. CASE ~(m_doneCount' >= Cardinality(Workers))
    BY <1>0, <1>a, <1>7, <2>2, GotoAt DEF Signal
  <2> QED
    BY <2>1, <2>2
<1>8. CASE WorkerNotify(w)
  BY <1>0, <1>8, NotifyAt DEF WorkerNotify
<1> QED
  BY <1>1, <1>2, <1>3, <1>4, <1>5, <1>6, <1>7, <1>8 DEF WorkerStep

\* The same of a step of dispatch().
LEMMA CallGoes ==
    ASSUME TypeOK, NEW c \in Calls, CallStep(c)
    PROVE  /\ OthersStay(c)
           /\ UNCHANGED <<caller, m_stop>>
           /\ m_hasWork => m_hasWork'
           /\ ~m_hasWork /\ m_hasWork' => pc'[c] = "notify"
           /\ pc'[c] = "asleep" => m_hasWork'
           /\ pc[c] = "notify" => AllAwake(c)
           /\ pc[c] \in Running => ~BodyStandsStill(c)
           /\ Open(c) /\ pc'[c] # "unused"
           /\ m_hasWork /\ pc[c] \in Sequential => pc'[c] \in Sequential
<1>0. c \in Executors
  BY DEF Executors
<1>a. m_hasWork \in BOOLEAN
  BY DEF TypeOK
<1> USE DEF OthersStay, AllAwake, Sequential, Running, Open, poolVars, localVars, history
<1>1. CASE Probe(c)
  BY <1>0, <1>1, GotoAt DEF Probe
<1>2. CASE SeqNext(c)
  BY <1>0, <1>2, GotoAt DEF SeqNext
<1>3. CASE StoreCurrent(c)
  BY <1>0, <1>3, GotoAt DEF StoreCurrent
<1>4. CASE StoreEnd(c)
  BY <1>0, <1>4, GotoAt DEF StoreEnd
<1>5. CASE StoreBody(c)
  BY <1>0, <1>5, GotoAt DEF StoreBody
<1>6. CASE StoreUserData(c)
  BY <1>0, <1>6, GotoAt DEF StoreUserData
<1>7. CASE StoreWork(c)
  BY <1>0, <1>a, <1>7, GotoAt DEF StoreWork
<1>8. CASE CallNotify(c)
  BY <1>0, <1>8, NotifyAt DEF CallNotify
<1>9. CASE Claim(c)
  BY <1>0, <1>9, GotoAt DEF Claim
<1>10. CASE CallCheck(c)
  BY <1>0, <1>10, GotoAt DEF CallCheck
<1>11. CASE BodyReturn(c)
  <2>1. ~BodyStandsStill(c)
    BY <1>11 DEF BodyReturn, BodyStandsStill
  <2> HIDE DEF BodyStandsStill
  <2> QED
    BY <1>0, <1>11, <2>1, GotoAt DEF BodyReturn
<1>12. CASE CallWait(c)
  BY <1>0, <1>12, GotoAt DEF CallWait
<1> QED
  BY <1>1, <1>2, <1>3, <1>4, <1>5, <1>6, <1>7, <1>8, <1>9, <1>10, <1>11, <1>12 DEF CallStep

\* A call begins, from outside the pool or in a running body.
Begins(c) ==
    /\ pc[c] = "unused" /\ pc'[c] = "probe"
    /\ \A x \in Executors \ {c} : pc'[x] = pc[x]
    /\ \A d \in Calls \ {c} : caller'[d] = caller[d]
    /\ caller'[c] = caller[c] \/ (caller'[c] \in Executors /\ pc[caller'[c]] \in Running)
    /\ UNCHANGED <<m_hasWork, m_stop>>

LEMMA InvokeBegins ==
    ASSUME TypeOK, NEW c \in Calls, Invoke(c) \/ \E e \in Executors : InvokeNested(e, c)
    PROVE  Begins(c)
<1>0. c \in Executors /\ caller \in [Calls -> Executors \cup {None}]
  BY DEF Executors, TypeOK
<1>1. CASE Invoke(c)
  BY <1>0, <1>1, GotoAt DEF Invoke, Begins, poolVars, localVars
<1>2. ASSUME NEW e \in Executors, InvokeNested(e, c) PROVE Begins(c)
  BY <1>0, <1>2, GotoAt DEF InvokeNested, Begins, poolVars
<1> QED
  BY <1>1, <1>2

\* The destructor wakes everybody or moves nobody, and it never takes back m_stop.
LEMMA DtorGoes ==
    ASSUME TypeOK, Stop \/ DtorStep \/ UNCHANGED vars
    PROVE  /\ \/ \A x \in Executors : pc'[x] = pc[x]
              \/ \A x \in Executors : pc'[x] = IF pc[x] = "asleep" THEN "wait" ELSE pc[x]
           /\ UNCHANGED <<caller, m_hasWork>>
           /\ m_stop => m_stop'
BY DEF Stop, DtorStep, StopNotify, JoinWorkers, vars, poolVars, localVars

LEMMA WakeUpNext ==
    ASSUME TypeOK, NoLostWakeUp, [Next]_vars PROVE NoLostWakeUp'
<1>0. /\ \A c \in Calls : c \in Executors /\ c \notin Workers
      /\ \A w \in Workers : w \in Executors /\ w \notin Calls
      /\ m_hasWork \in BOOLEAN
  BY CallsAssumption DEF Executors, TypeOK
<1> USE <1>0 DEF NoLostWakeUp, OthersStay, AllAwake
<1>1. ASSUME NEW w \in Workers, WorkerStep(w) PROVE NoLostWakeUp'
  <2> USE <1>1, WorkerGoes
  <2>1. ASSUME NEW x \in Workers, pc'[x] = "asleep", m_hasWork' PROVE \E c \in Calls : pc'[c] = "notify"
    <3>1. m_hasWork /\ pc[x] = "asleep"
      BY <2>1
    <3> QED
      BY <3>1
  <2>2. ASSUME NEW c \in Calls, pc'[c] = "asleep", ~m_hasWork' PROVE \E x \in Workers : pc'[x] = "notify"
    <3>1. pc[c] = "asleep"
      BY <2>2
    <3> QED
      BY <2>2, <3>1
  <2>3. ASSUME NEW x \in Workers, pc'[x] = "exited" PROVE m_stop'
    BY <2>3
  <2> QED
    BY <2>1, <2>2, <2>3
<1>2. ASSUME NEW c \in Calls, CallStep(c) PROVE NoLostWakeUp'
  <2> USE <1>2, CallGoes
  <2>1. ASSUME NEW x \in Workers, pc'[x] = "asleep", m_hasWork' PROVE \E d \in Calls : pc'[d] = "notify"
    <3>1. pc[x] = "asleep"
      BY <2>1
    <3> QED
      BY <2>1, <3>1
  <2>2. ASSUME NEW d \in Calls, pc'[d] = "asleep", ~m_hasWork' PROVE \E x \in Workers : pc'[x] = "notify"
    <3>1. ~m_hasWork /\ pc[d] = "asleep"
      BY <2>2
    <3> QED
      BY <3>1
  <2>3. ASSUME NEW x \in Workers, pc'[x] = "exited" PROVE m_stop'
    BY <2>3
  <2> QED
    BY <2>1, <2>2, <2>3
<1>3. ASSUME NEW c \in Calls, Invoke(c) \/ \E e \in Executors : InvokeNested(e, c) PROVE NoLostWakeUp'
  BY <1>3, InvokeBegins DEF Begins
<1>4. CASE Stop \/ DtorStep \/ UNCHANGED vars
  BY <1>4, DtorGoes
<1> QED
  BY <1>1, <1>2, <1>3, <1>4 DEF Next

\* Calls that are open neither begin, nor change what made them.
LEMMA NestStays ==
    ASSUME TypeOK, NestInv, UNCHANGED caller,
           \A c \in Calls : Open(c)' => Open(c),
           \A c \in Calls : pc'[c] = "unused" => pc[c] = "unused",
           \A e \in Executors : pc[e] \in Running /\ BodyStandsStill(e) => pc'[e] = pc[e]
    PROVE  NestInv'
<1>1. ASSUME NEW c \in Calls, Open(c)', caller[c] # None PROVE pc'[caller[c]] \in Running
  <2>1. Open(c) /\ pc[caller[c]] \in Running
    BY <1>1 DEF NestInv
  <2>2. caller[c] \in Executors
    BY <1>1 DEF TypeOK
  <2>3. BodyStandsStill(caller[c])
    BY <2>1 DEF BodyStandsStill
  <2> QED
    BY <2>1, <2>2, <2>3
<1>2. ASSUME NEW S \in SUBSET {c \in Calls : Open(c)'}, S # {}
      PROVE  \E c \in S : \A d \in S : caller[d] # c
  <2>1. S \in SUBSET {c \in Calls : Open(c)}
    OBVIOUS
  <2> QED
    BY <1>2, <2>1 DEF NestInv
<1>3. \A c \in Calls : pc'[c] = "unused" => caller[c] = None
  BY DEF NestInv
<1> QED
  BY <1>1, <1>2, <1>3 DEF NestInv

\* A new call is made from nobody's point of view a caller yet.
LEMMA NestBegins ==
    ASSUME TypeOK, NestInv, NEW c \in Calls, Begins(c) PROVE NestInv'
<1>0. c \in Executors /\ None \notin Executors /\ \A d \in Calls : d \in Executors
  BY CallsAssumption DEF Executors
<1>1. \A d \in Calls : Open(d)' <=> Open(d) \/ d = c
  BY <1>0 DEF Begins, Open
<1>2. ~Open(c) /\ caller[c] = None /\ pc[c] \notin Running
  BY DEF Begins, Open, NestInv, Running
<1>3. \A d \in Calls : Open(d)' => caller'[d] # c
  <2> SUFFICES ASSUME NEW d \in Calls, Open(d)', caller'[d] = c PROVE FALSE
    OBVIOUS
  <2>1. CASE d = c
    BY <1>0, <1>2, <2>1 DEF Begins
  <2>2. CASE d # c
    BY <1>0, <1>1, <1>2, <2>2 DEF Begins, NestInv
  <2> QED
    BY <2>1, <2>2
<1>4. ASSUME NEW d \in Calls, Open(d)', caller'[d] # None PROVE pc'[caller'[d]] \in Running
  <2>1. pc[caller'[d]] \in Running
    BY <1>1, <1>2, <1>4 DEF Begins, NestInv
  <2>2. caller'[d] \in Executors
    BY <1>2, <1>4 DEF Begins, TypeOK
  <2> QED
    BY <2>1, <2>2, <1>2 DEF Begins
<1>5. ASSUME NEW S \in SUBSET {d \in Calls : Open(d)'}, S # {}
      PROVE  \E x \in S : \A d \in S : caller'[d] # x
  <2>1. CASE c \in S
    BY <1>3, <2>1
  <2>2. CASE c \notin S
    <3>1. S \in SUBSET {d \in Calls : Open(d)}
      BY <1>1, <2>2
    <3>2. PICK x \in S : \A d \in S : caller[d] # x
      BY <1>5, <3>1 DEF NestInv
    <3> QED
      BY <2>2, <3>2 DEF Begins
  <2> QED
    BY <2>1, <2>2
<1>6. \A d \in Calls : pc'[d] = "unused" => caller'[d] = None
  BY <1>0 DEF Begins, NestInv
<1> QED
  BY <1>4, <1>5, <1>6 DEF NestInv

LEMMA NestNext ==
    ASSUME TypeOK, NestInv, [Next]_vars PROVE NestInv'
<1>0. /\ \A c \in Calls : c \in Executors /\ c \notin Workers
      /\ \A w \in Workers : w \in Executors /\ w \notin Calls
  BY CallsAssumption DEF Executors
<1>1. ASSUME NEW w \in Workers, WorkerStep(w) PROVE NestInv'
  <2>1. UNCHANGED caller /\ OthersStay(w) /\ (pc[w] \in Running => ~BodyStandsStill(w))
    BY <1>1, WorkerGoes
  <2>2. \A c \in Calls : (Open(c)' => Open(c)) /\ (pc'[c] = "unused" => pc[c] = "unused")
    BY <1>0, <2>1 DEF OthersStay, Open
  <2>3. \A e \in Executors : pc[e] \in Running /\ BodyStandsStill(e) => pc'[e] = pc[e]
    BY <2>1 DEF OthersStay, Running
  <2> QED
    BY <2>1, <2>2, <2>3, NestStays
<1>2. ASSUME NEW c \in Calls, CallStep(c) PROVE NestInv'
  <2>1. UNCHANGED caller /\ OthersStay(c) /\ (pc[c] \in Running => ~BodyStandsStill(c))
    BY <1>2, CallGoes
  <2>a. Open(c) /\ pc'[c] # "unused"
    BY <1>2, CallGoes
  <2>2. \A d \in Calls : (Open(d)' => Open(d)) /\ (pc'[d] = "unused" => pc[d] = "unused")
    BY <1>0, <2>1, <2>a DEF OthersStay, Open
  <2>3. \A e \in Executors : pc[e] \in Running /\ BodyStandsStill(e) => pc'[e] = pc[e]
    BY <2>1 DEF OthersStay, Running
  <2> QED
    BY <2>1, <2>2, <2>3, NestStays
<1>3. ASSUME NEW c \in Calls, Invoke(c) \/ \E e \in Executors : InvokeNested(e, c) PROVE NestInv'
  BY <1>3, InvokeBegins, NestBegins
<1>4. CASE Stop \/ DtorStep \/ UNCHANGED vars
  <2>1. UNCHANGED caller /\ \A x \in Executors : pc'[x] = pc[x] \/ (pc[x] = "asleep" /\ pc'[x] = "wait")
    BY <1>4, DtorGoes
  <2>2. \A c \in Calls : (Open(c)' => Open(c)) /\ (pc'[c] = "unused" => pc[c] = "unused")
    BY <1>0, <2>1 DEF Open
  <2>3. \A e \in Executors : pc[e] \in Running /\ BodyStandsStill(e) => pc'[e] = pc[e]
    BY <2>1 DEF Running
  <2> QED
    BY <2>1, <2>2, <2>3, NestStays
<1> QED
  BY <1>1, <1>2, <1>3, <1>4 DEF Next

\* The pool has work before and after a step that moves no call of S out of its
\* sequential part and opens none in a body of S or of u.
LEMMA FreeStays ==
    ASSUME TypeOK, NEW u \in Workers, NEW S \in SUBSET Calls, ClosedUnder(S, u),
           \A c \in S : pc[c] \in Sequential,
           m_hasWork', UNCHANGED caller,
           \A c \in Calls : Open(c)' => Open(c),
           \A c \in S : pc'[c] \in Sequential
    PROVE  FreeWorker'
<1>1. ClosedUnder(S, u)'
  BY DEF ClosedUnder
<1> QED
  BY <1>1 DEF FreeWorker, Sequential

LEMMA FreeNext ==
    ASSUME TypeOK, MutexInv, NestInv, FreeWorker, NestInv', [Next]_vars PROVE FreeWorker'
<1>0. /\ \A c \in Calls : c \in Executors /\ c \notin Workers
      /\ \A w \in Workers : w \in Executors /\ w \notin Calls
      /\ m_hasWork \in BOOLEAN /\ None \notin Executors
  BY CallsAssumption DEF Executors, TypeOK
<1>1. ASSUME NEW w \in Workers, WorkerStep(w) PROVE FreeWorker'
  <2>0. OthersStay(w) /\ UNCHANGED caller /\ (m_hasWork' => m_hasWork)
    BY <1>1, WorkerGoes
  <2>1. CASE m_hasWork'
    <3>1. PICK u \in Workers, S \in SUBSET Calls :
            ClosedUnder(S, u) /\ \A c \in S : pc[c] \in Sequential
      BY <2>0, <2>1 DEF FreeWorker, Sequential
    <3>2. \A c \in Calls : Open(c)' => Open(c)
      BY <1>0, <2>0 DEF OthersStay, Open
    <3>3. \A c \in S : pc'[c] \in Sequential
      BY <1>0, <2>0, <3>1 DEF OthersStay, Sequential
    <3> QED
      BY <2>0, <2>1, <3>1, <3>2, <3>3, FreeStays
  <2>2. CASE m_hasWork /\ ~m_hasWork'
    <3>1. pc'[w] = "notify"
      BY <1>1, <2>2, WorkerGoes
    <3> QED
      BY <2>2, <3>1 DEF FreeWorker
  <2>3. CASE ~m_hasWork /\ ~m_hasWork'
    <3>1. PICK u \in Workers : pc[u] \in OutOfLoop
      BY <2>3 DEF FreeWorker, OutOfLoop
    <3>2. pc'[u] \in OutOfLoop
      <4>1. CASE u = w
        BY <1>1, <2>3, <3>1, <4>1, WorkerGoes
      <4>2. CASE u # w
        BY <1>0, <2>0, <3>1, <4>2 DEF OthersStay, OutOfLoop
      <4> QED
        BY <4>1, <4>2
    <3> QED
      BY <2>3, <3>2 DEF FreeWorker, OutOfLoop
  <2> QED
    BY <1>0, <2>0, <2>1, <2>2, <2>3
<1>2. ASSUME NEW c \in Calls, CallStep(c) PROVE FreeWorker'
  <2>0. OthersStay(c) /\ UNCHANGED caller /\ (m_hasWork => m_hasWork')
    BY <1>2, CallGoes
  <2>1. CASE m_hasWork
    <3>1. PICK u \in Workers, S \in SUBSET Calls :
            ClosedUnder(S, u) /\ \A d \in S : pc[d] \in Sequential
      BY <2>1 DEF FreeWorker, Sequential
    <3>a. Open(c) /\ (pc[c] \in Sequential => pc'[c] \in Sequential)
      BY <1>2, <2>1, CallGoes
    <3>2. \A d \in Calls : Open(d)' => Open(d)
      BY <1>0, <2>0, <3>a DEF OthersStay, Open
    <3>3. \A d \in S : pc'[d] \in Sequential
      BY <1>0, <2>0, <3>1, <3>a DEF OthersStay, Sequential
    <3> QED
      BY <2>0, <2>1, <3>1, <3>2, <3>3, FreeStays
  <2>2. CASE ~m_hasWork
    <3>1. PICK u \in Workers : pc[u] \in OutOfLoop
      BY <2>2 DEF FreeWorker, OutOfLoop
    <3>2. pc'[u] \in OutOfLoop
      BY <1>0, <2>0, <3>1 DEF OthersStay, OutOfLoop
    <3>3. ClosedUnder({}, u)'
      <4> SUFFICES ASSUME NEW d \in Calls, Open(d)', caller'[d] = u PROVE FALSE
        BY DEF ClosedUnder
      <4>1. pc'[u] \in Running
        BY <1>0 DEF NestInv
      <4> QED
        BY <3>2, <4>1 DEF OutOfLoop, Running
    <3> QED
      BY <3>2, <3>3 DEF FreeWorker, OutOfLoop
  <2> QED
    BY <2>1, <2>2
<1>3. ASSUME NEW c \in Calls, Invoke(c) \/ \E e \in Executors : InvokeNested(e, c) PROVE FreeWorker'
  <2>0. Begins(c)
    BY <1>3, InvokeBegins
  <2>1. CASE m_hasWork
    <3>1. PICK u \in Workers, S \in SUBSET Calls :
            ClosedUnder(S, u) /\ \A d \in S : pc[d] \in Sequential
      BY <2>1 DEF FreeWorker, Sequential
    <3>5. PICK T : T = IF caller'[c] \in S \cup {u} THEN S \cup {c} ELSE S
      OBVIOUS
    <3>2. T \in SUBSET Calls /\ \A d \in T : pc'[d] \in Sequential
      BY <1>0, <2>0, <3>1, <3>5 DEF Begins, Sequential
    <3>3. ClosedUnder(T, u)'
      <4> SUFFICES ASSUME NEW d \in Calls, Open(d)', caller'[d] \in T \cup {u} PROVE d \in T
        BY DEF ClosedUnder
      <4>1. caller'[d] # c
        <5> SUFFICES ASSUME caller'[d] = c PROVE FALSE
          OBVIOUS
        <5>1. pc'[c] \in Running
          BY <1>0 DEF NestInv
        <5> QED
          BY <2>0, <5>1 DEF Begins, Running
      <4>2. caller'[d] \in S \cup {u}
        BY <3>5, <4>1
      <4>3. CASE d = c
        BY <3>5, <4>2, <4>3
      <4>4. CASE d # c
        <5>1. Open(d) /\ caller[d] = caller'[d]
          BY <1>0, <2>0, <4>4 DEF Begins, Open
        <5> QED
          BY <3>1, <3>5, <4>2, <5>1 DEF ClosedUnder
      <4> QED
        BY <4>3, <4>4
    <3>4. m_hasWork'
      BY <2>0, <2>1 DEF Begins
    <3> QED
      BY <3>2, <3>3, <3>4 DEF FreeWorker, Sequential
  <2>2. CASE ~m_hasWork
    BY <1>0, <2>0, <2>2 DEF FreeWorker, Begins
  <2> QED
    BY <2>1, <2>2
<1>4. CASE Stop \/ DtorStep \/ UNCHANGED vars
  <2>0. /\ UNCHANGED <<caller, m_hasWork>>
        /\ \A x \in Executors : pc'[x] = pc[x] \/ (pc[x] = "asleep" /\ pc'[x] = "wait")
    BY <1>4, DtorGoes
  <2>1. CASE m_hasWork
    <3>1. PICK u \in Workers, S \in SUBSET Calls :
            ClosedUnder(S, u) /\ \A d \in S : pc[d] \in Sequential
      BY <2>1 DEF FreeWorker, Sequential
    <3>2. \A d \in Calls : Open(d)' => Open(d)
      BY <1>0, <2>0 DEF Open
    <3>3. \A d \in S : pc'[d] \in Sequential
      BY <1>0, <2>0, <3>1 DEF Sequential
    <3> QED
      BY <2>0, <2>1, <3>1, <3>2, <3>3, FreeStays
  <2>2. CASE ~m_hasWork
    <3>1. PICK u \in Workers : pc[u] \in OutOfLoop
      BY <2>2 DEF FreeWorker, OutOfLoop
    <3>2. pc'[u] \in OutOfLoop
      BY <1>0, <2>0, <3>1 DEF OutOfLoop
    <3> QED
      BY <2>0, <2>2, <3>2 DEF FreeWorker, OutOfLoop
  <2> QED
    BY <2>1, <2>2
<1> QED
  BY <1>1, <1>2, <1>3, <1>4 DEF Next

LEMMA InitGoesOn == Init => GoesOnInv
<1> SUFFICES ASSUME Init PROVE GoesOnInv
  OBVIOUS
<1>0. \A c \in Calls : c \in Executors /\ c \notin Workers /\ pc[c] = "unused"
  BY CallsAssumption DEF Executors, Init
<1>1. \A w \in Workers : pc[w] = "wait"
  BY DEF Executors, Init
<1>2. NoLostWakeUp
  BY <1>0, <1>1 DEF NoLostWakeUp
<1>3. NestInv
  BY <1>0 DEF NestInv, Open, Init
<1>4. FreeWorker
  BY <1>1, WorkersAssumption DEF FreeWorker, Init
<1> QED
  BY <1>2, <1>3, <1>4, InitType, InitMutex DEF GoesOnInv

\* Nobody can go on: then everybody sleeps, has left, or stands still in a body.
LEMMA StuckShape ==
    ASSUME TypeOK, MutexInv, NoLostWakeUp, ~m_stop, ~SomebodyGoesOn
    PROVE  \A e \in Executors :
             pc[e] \in {"asleep", "unused", "returned"} \/ (pc[e] \in Running /\ BodyStandsStill(e))
<1>0. \A c \in Calls : c \in Executors
  BY DEF Executors
<1>1. \A e \in Executors : ~CanGo(e)
  BY DEF SomebodyGoesOn
<1>2. mutex = None
  <2> SUFFICES ASSUME mutex \in Calls PROVE FALSE
    BY DEF TypeOK
  <2>1. pc[mutex] \in Storing
    BY DEF MutexInv
  <2> QED
    BY <1>0, <1>1, <2>1 DEF CanGo
<1> TAKE e \in Executors
<1>3. pc[e] \in WorkerPc \cup CallPc
  BY DEF TypeOK
<1>4. pc[e] # "exited"
  <2>1. e \in Workers => pc[e] # "exited"
    BY DEF NoLostWakeUp
  <2>2. e \in Calls => pc[e] # "exited"
    <3>1. e \in Calls => pc[e] \in CallPc
      BY DEF TypeOK
    <3> QED
      BY <3>1 DEF CallPc, InLoop, Storing
  <2> QED
    BY <2>1, <2>2 DEF Executors
<1>5. ~CanGo(e)
  BY <1>1
<1> QED
  BY <1>2, <1>3, <1>4, <1>5 DEF CanGo, WorkerPc, CallPc, InLoop, Storing, Running

(* Loops within loops never lock the pool up, however deep they nest and     *)
(* however few workers there are: while m_hasWork is set, the worker that    *)
(* cleared it last is either outside the loop, and about to be woken, or it  *)
(* runs a body all of whose own loops run sequentially and can go on.        *)
THEOREM NestedLoopsGoOn == Spec => []SomebodyGoesOn
<1>1. GoesOnInv /\ [Next]_vars => GoesOnInv'
  <2> SUFFICES ASSUME GoesOnInv, [Next]_vars PROVE GoesOnInv'
    OBVIOUS
  <2>1. TypeOK' /\ MutexInv' /\ NoLostWakeUp' /\ NestInv'
    BY TypeNext, MutexNext, WakeUpNext, NestNext DEF GoesOnInv
  <2>2. FreeWorker'
    BY <2>1, FreeNext DEF GoesOnInv
  <2> QED
    BY <2>1, <2>2 DEF GoesOnInv
<1>2. GoesOnInv => SomebodyGoesOn
  <2> SUFFICES ASSUME GoesOnInv, ~SomebodyGoesOn PROVE FALSE
    OBVIOUS
  <2>0. ~m_stop /\ \E c \in Calls : Open(c)
    BY DEF SomebodyGoesOn
  <2>1. \A e \in Executors :
          pc[e] \in {"asleep", "unused", "returned"} \/ (pc[e] \in Running /\ BodyStandsStill(e))
    BY <2>0, StuckShape DEF GoesOnInv
  <2>2. /\ \A c \in Calls : c \in Executors /\ c # None
        /\ \A w \in Workers : w \in Executors
    BY CallsAssumption DEF Executors
  <2>3. \A e \in Executors : pc[e] # "notify"
    BY <2>1 DEF Running
  \* A set of open calls none of which sleeps, with every open call made from
  \* it: its last call made no other.
  <2>4. ASSUME NEW S \in SUBSET {c \in Calls : Open(c)}, S # {},
               \A c \in S : pc[c] # "asleep",
               \A d \in Calls : Open(d) /\ caller[d] \in S => d \in S
        PROVE  FALSE
    <3>1. PICK c \in S : \A d \in S : caller[d] # c
      BY <2>4 DEF GoesOnInv, NestInv
    <3>2. BodyStandsStill(c)
      BY <2>1, <2>2, <2>4 DEF Open
    <3> QED
      BY <2>4, <3>1, <3>2 DEF BodyStandsStill
  <2>5. CASE m_hasWork
    <3>1. PICK u \in Workers, S \in SUBSET Calls :
            ClosedUnder(S, u) /\ \A d \in S : pc[d] \in Sequential
      BY <2>5 DEF GoesOnInv, FreeWorker, Sequential
    <3>2. pc[u] # "asleep"
      BY <2>2, <2>3, <2>5 DEF GoesOnInv, NoLostWakeUp
    <3>3. pc[u] \in WorkerPc
      BY DEF GoesOnInv, TypeOK
    <3>4. BodyStandsStill(u)
      BY <2>1, <2>2, <3>2, <3>3 DEF WorkerPc, InLoop
    <3> DEFINE R == {c \in S : Open(c)}
    <3>5. R \in SUBSET {c \in Calls : Open(c)}
      OBVIOUS
    <3>6. R # {}
      BY <3>1, <3>4 DEF BodyStandsStill, ClosedUnder
    <3>7. \A c \in R : pc[c] # "asleep"
      BY <3>1 DEF Sequential
    <3>8. \A d \in Calls : Open(d) /\ caller[d] \in R => d \in R
      BY <3>1 DEF ClosedUnder
    <3> HIDE DEF R
    <3> QED
      BY <2>4, <3>5, <3>6, <3>7, <3>8
  <2>6. CASE ~m_hasWork
    <3>1. \A c \in Calls : pc[c] # "asleep"
      BY <2>2, <2>3, <2>6 DEF GoesOnInv, NoLostWakeUp
    <3> DEFINE R == {c \in Calls : Open(c)}
    <3>2. R \in SUBSET {c \in Calls : Open(c)} /\ R # {}
      BY <2>0
    <3>3. \A c \in R : pc[c] # "asleep"
      BY <3>1
    <3>4. \A d \in Calls : Open(d) /\ caller[d] \in R => d \in R
      OBVIOUS
    <3> HIDE DEF R
    <3> QED
      BY <2>4, <3>2, <3>3, <3>4
  <2> QED
    BY <2>5, <2>6
<1> QED
  BY <1>1, <1>2, InitGoesOn, PTL DEF Spec

=============================================================================
