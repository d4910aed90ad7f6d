----------------------------- MODULE WorkerPool -----------------------------
(***************************************************************************)
(* ParallelWorkerPool of src/runtime/threading/threading_runtime.cpp: the  *)
(* process-wide thread pool behind every `parallel for` of a FluxScript    *)
(* program.  An executor is a thread that can run loop bodies: a worker of *)
(* the pool, or one activation of dispatch() (a call), which takes part in *)
(* its own loop.  A call made from inside a body is a nested call; the     *)
(* body that made it stands still until the call returns.                  *)
(*                                                                         *)
(* Every section of the code that holds m_mutex and does not write fields  *)
(* the workers read without it is one action.  dispatch() writes such      *)
(* fields (lines 98-103), so its section is one action per field and       *)
(* `mutex' names the call inside it.  Reads made without the mutex         *)
(* (m_hasWork at line 90; m_current, m_end, m_body and m_userData in the   *)
(* loop) are an action each.                                               *)
(***************************************************************************)
EXTENDS Naturals, FiniteSets

CONSTANTS
    Workers,   \* the threads of m_workers
    Calls,     \* activations of dispatch(); each happens at most once
    None,      \* no call / no executor
    start,     \* start[c], end[c]: the iteration range call c is given
    end,
    MaxIndex,  \* bound of every end[c]
    MaxOpen,   \* how many threads outside the pool may be in dispatch() at once
    AllowNested \* whether loop bodies contain a parallel for of their own

Executors == Workers \cup Calls
Index == 0 .. (MaxIndex - 1)

ASSUME WorkersAssumption == IsFiniteSet(Workers) /\ Workers # {}
ASSUME CallsAssumption == Calls \cap Workers = {} /\ None \notin Executors
ASSUME RangeAssumption == /\ MaxIndex \in Nat
                          /\ start \in [Calls -> Nat]
                          /\ end \in [Calls -> 0 .. MaxIndex]

VARIABLES
    m_current, m_end, m_body, m_userData, m_doneCount, m_hasWork, m_stop,
    mutex,     \* the call inside its critical section, or None
    pc,        \* where each executor is
    i,         \* the local index of each executor (0 once it is dead)
    body,      \* the body pointer a worker has read, while it uses it
    arg,       \* the userData it has read, while it uses it
    caller,    \* the executor whose body made a nested call, else None
    dtor,      \* progress of ~ParallelWorkerPool
    runs,      \* history: how often body and index have been started
    owner,     \* history: the call that last stored m_current
    exclusive  \* history: calls no other call has disturbed

poolVars == <<m_current, m_end, m_body, m_userData, m_doneCount, m_hasWork>>
localVars == <<i, body, arg, caller>>
history == <<runs, owner, exclusive>>
vars == <<poolVars, m_stop, mutex, pc, localVars, dtor, history>>

\* Where an executor holds, or is about to take, an index of the shared counter.
InLoop == {"claim", "check", "load", "call", "run"}
\* Where a call writes the shared fields.
Storing == {"storeEnd", "storeBody", "storeUserData", "storeWork"}
\* Where a published call has not yet seen its work done.
Waiting == {"notify", "claim", "check", "run", "wait", "asleep"}
Running == {"run", "seqRun"}
Open(c) == pc[c] \notin {"unused", "returned"}

WorkerPc == InLoop \cup {"wait", "asleep", "signal", "notify", "exited"}
CallPc == (InLoop \ {"load", "call"}) \cup Storing \cup
          {"unused", "probe", "seq", "seqRun", "store", "notify", "wait", "asleep", "returned"}

Init ==
    /\ m_current = 0 /\ m_end = 0 /\ m_body = None /\ m_userData = None
    /\ m_doneCount = 0 /\ m_hasWork = FALSE /\ m_stop = FALSE
    /\ mutex = None
    /\ pc = [e \in Executors |-> IF e \in Workers THEN "wait" ELSE "unused"]
    /\ i = [e \in Executors |-> 0]
    /\ body = [w \in Workers |-> None]
    /\ arg = [w \in Workers |-> None]
    /\ caller = [c \in Calls |-> None]
    /\ dtor = "no"
    /\ runs = [c \in Calls |-> [n \in Index |-> 0]]
    /\ owner = None
    /\ exclusive = {}

Goto(e, l) == pc' = [pc EXCEPT ![e] = l]

\* std::condition_variable::notify_all: every sleeper re-evaluates its predicate.
NotifyAll(e, l) ==
    pc' = [x \in Executors |-> IF x = e THEN l
                               ELSE IF pc[x] = "asleep" THEN "wait" ELSE pc[x]]

StartRun(c, n) == runs' = [runs EXCEPT ![c][n] = @ + 1]

----------------------------------------------------------------------------
(* workerLoop() *)

\* Mutant: the predicate forgets m_stop.
WorkerWaitNoStop(w) ==
    /\ pc[w] = "wait"
    /\ mutex = None
    /\ Goto(w, IF m_hasWork THEN IF m_stop THEN "exited" ELSE "claim" ELSE "asleep")
    /\ UNCHANGED <<poolVars, m_stop, mutex, localVars, dtor, history>>

\* m_cv.wait(lock, m_hasWork || m_stop), then the stop test.
WorkerWait(w) ==
    /\ pc[w] = "wait"
    /\ mutex = None
    /\ Goto(w, IF m_stop THEN "exited" ELSE IF m_hasWork THEN "claim" ELSE "asleep")
    /\ UNCHANGED <<poolVars, m_stop, mutex, localVars, dtor, history>>

\* Mutant: workers load the counter without advancing it.
ClaimReadOnly(e) ==
    /\ pc[e] = "claim"
    /\ i' = [i EXCEPT ![e] = m_current]
    /\ m_current' = IF e \in Workers THEN m_current ELSE m_current + 1
    /\ Goto(e, "check")
    /\ UNCHANGED <<m_end, m_body, m_userData, m_doneCount, m_hasWork, m_stop,
                   mutex, body, arg, caller, dtor, history>>

\* m_current.fetch_add(1), in a worker's loop or in dispatch's own loop.
Claim(e) ==
    /\ pc[e] = "claim"
    /\ i' = [i EXCEPT ![e] = m_current]
    /\ m_current' = m_current + 1
    /\ Goto(e, "check")
    /\ UNCHANGED <<m_end, m_body, m_userData, m_doneCount, m_hasWork, m_stop,
                   mutex, body, arg, caller, dtor, history>>

\* Mutant: the last index is taken for the end.
WorkerCheckOffByOne(w) ==
    /\ pc[w] = "check"
    /\ IF i[w] + 1 >= m_end
         THEN Goto(w, "signal") /\ i' = [i EXCEPT ![w] = 0]
         ELSE Goto(w, "load") /\ UNCHANGED i
    /\ UNCHANGED <<poolVars, m_stop, mutex, body, arg, caller, dtor, history>>

\* The worker compares its index with the shared m_end.
WorkerCheck(w) ==
    /\ pc[w] = "check"
    /\ IF i[w] >= m_end
         THEN Goto(w, "signal") /\ i' = [i EXCEPT ![w] = 0]
         ELSE Goto(w, "load") /\ UNCHANGED i
    /\ UNCHANGED <<poolVars, m_stop, mutex, body, arg, caller, dtor, history>>

WorkerLoad(w) ==
    /\ pc[w] = "load"
    /\ body' = [body EXCEPT ![w] = m_body]
    /\ Goto(w, "call")
    /\ UNCHANGED <<poolVars, m_stop, mutex, i, arg, caller, dtor, history>>

\* m_userData is read and the body entered: from here captured variables are used.
WorkerCall(w) ==
    /\ pc[w] = "call"
    /\ arg' = [arg EXCEPT ![w] = m_userData]
    /\ StartRun(m_userData, i[w])
    /\ Goto(w, "run")
    /\ UNCHANGED <<poolVars, m_stop, mutex, i, body, caller, dtor, owner, exclusive>>

\* The count, and the clearing of m_hasWork, under the mutex.
Signal(w) ==
    /\ pc[w] = "signal"
    /\ mutex = None
    /\ m_doneCount' = m_doneCount + 1
    /\ IF m_doneCount' >= Cardinality(Workers)
         THEN m_hasWork' = FALSE /\ Goto(w, "notify")
         ELSE UNCHANGED m_hasWork /\ Goto(w, "wait")
    /\ UNCHANGED <<m_current, m_end, m_body, m_userData, m_stop, mutex, localVars,
                   dtor, history>>

\* Mutant: nobody is notified that the work is done.
WorkerNotifyNobody(w) ==
    /\ pc[w] = "notify"
    /\ Goto(w, "wait")
    /\ UNCHANGED <<poolVars, m_stop, mutex, localVars, dtor, history>>

WorkerNotify(w) ==
    /\ pc[w] = "notify"
    /\ NotifyAll(w, "wait")
    /\ UNCHANGED <<poolVars, m_stop, mutex, localVars, dtor, history>>

----------------------------------------------------------------------------
(* dispatch() *)

\* flux_parallel_for called by a thread outside the pool.
Invoke(c) ==
    /\ pc[c] = "unused"
    /\ dtor = "no"
    /\ Cardinality({d \in Calls : Open(d) /\ caller[d] = None}) < MaxOpen
    /\ Goto(c, "probe")
    /\ UNCHANGED <<poolVars, m_stop, mutex, localVars, dtor, history>>

\* A running body reaches a parallel for of its own.
InvokeNested(e, c) ==
    /\ AllowNested
    /\ pc[c] = "unused"
    /\ pc[e] \in Running
    /\ \A d \in Calls : caller[d] # e \/ ~Open(d)
    /\ caller' = [caller EXCEPT ![c] = e]
    /\ Goto(c, "probe")
    /\ UNCHANGED <<poolVars, m_stop, mutex, i, body, arg, dtor, history>>

\* The empty-range return, then the read of m_hasWork without the mutex.
Probe(c) ==
    /\ pc[c] = "probe"
    /\ IF start[c] >= end[c]
         THEN Goto(c, "returned") /\ UNCHANGED i
         ELSE IF m_hasWork
           THEN Goto(c, "seq") /\ i' = [i EXCEPT ![c] = start[c]]
           ELSE Goto(c, "store") /\ UNCHANGED i
    /\ UNCHANGED <<poolVars, m_stop, mutex, body, arg, caller, dtor, history>>

\* The sequential loop of a call that found the pool busy.
SeqNext(c) ==
    /\ pc[c] = "seq"
    /\ IF i[c] < end[c]
         THEN StartRun(c, i[c]) /\ Goto(c, "seqRun")
         ELSE UNCHANGED runs /\ Goto(c, "returned")
    /\ UNCHANGED <<poolVars, m_stop, mutex, localVars, dtor, owner, exclusive>>

\* Nobody but c takes, holds or is about to take an index of the shared counter.
Quiet(c) ==
    /\ \A w \in Workers : pc[w] \notin InLoop
    /\ \A d \in Calls \ {c} : pc[d] \notin InLoop \cup {"notify"}

\* Lock m_mutex and store m_current.  The history records whether anyone else
\* is still in the loop: then neither this call nor the previous one is exclusive.
StoreCurrent(c) ==
    /\ pc[c] = "store"
    /\ mutex = None
    /\ mutex' = c
    /\ m_current' = start[c]
    /\ owner' = c
    /\ exclusive' = IF Quiet(c) THEN exclusive \cup {c} ELSE exclusive \ {owner}
    /\ Goto(c, "storeEnd")
    /\ UNCHANGED <<m_end, m_body, m_userData, m_doneCount, m_hasWork, m_stop,
                   localVars, dtor, runs>>

\* Mutant: an inclusive end.
StoreEndInclusive(c) ==
    /\ pc[c] = "storeEnd"
    /\ m_end' = end[c] + 1
    /\ Goto(c, "storeBody")
    /\ UNCHANGED <<m_current, m_body, m_userData, m_doneCount, m_hasWork, m_stop,
                   mutex, localVars, dtor, history>>

StoreEnd(c) ==
    /\ pc[c] = "storeEnd"
    /\ m_end' = end[c]
    /\ Goto(c, "storeBody")
    /\ UNCHANGED <<m_current, m_body, m_userData, m_doneCount, m_hasWork, m_stop,
                   mutex, localVars, dtor, history>>

\* Mutant: the body is stored by the first call only.
StoreBodyOnce(c) ==
    /\ pc[c] = "storeBody"
    /\ m_body' = IF m_body = None THEN c ELSE m_body
    /\ Goto(c, "storeUserData")
    /\ UNCHANGED <<m_current, m_end, m_userData, m_doneCount, m_hasWork, m_stop,
                   mutex, localVars, dtor, history>>

StoreBody(c) ==
    /\ pc[c] = "storeBody"
    /\ m_body' = c
    /\ Goto(c, "storeUserData")
    /\ UNCHANGED <<m_current, m_end, m_userData, m_doneCount, m_hasWork, m_stop,
                   mutex, localVars, dtor, history>>

StoreUserData(c) ==
    /\ pc[c] = "storeUserData"
    /\ m_userData' = c
    /\ Goto(c, "storeWork")
    /\ UNCHANGED <<m_current, m_end, m_body, m_doneCount, m_hasWork, m_stop,
                   mutex, localVars, dtor, history>>

\* m_doneCount is only touched under the mutex; m_hasWork is stored last.
StoreWork(c) ==
    /\ pc[c] = "storeWork"
    /\ m_doneCount' = 0
    /\ m_hasWork' = TRUE
    /\ mutex' = None
    /\ Goto(c, "notify")
    /\ UNCHANGED <<m_current, m_end, m_body, m_userData, m_stop, localVars, dtor,
                   history>>

CallNotify(c) ==
    /\ pc[c] = "notify"
    /\ NotifyAll(c, "claim")
    /\ UNCHANGED <<poolVars, m_stop, mutex, localVars, dtor, history>>

\* dispatch compares with its own `end' and passes its own body and userData.
CallCheck(c) ==
    /\ pc[c] = "check"
    /\ IF i[c] >= end[c]
         THEN Goto(c, "wait") /\ i' = [i EXCEPT ![c] = 0] /\ UNCHANGED runs
         ELSE Goto(c, "run") /\ StartRun(c, i[c]) /\ UNCHANGED i
    /\ UNCHANGED <<poolVars, m_stop, mutex, body, arg, caller, dtor, owner, exclusive>>

\* Mutant: dispatch returns as soon as its own loop ends.
CallWaitNot(c) ==
    /\ pc[c] = "wait"
    /\ mutex = None
    /\ Goto(c, "returned")
    /\ UNCHANGED <<poolVars, m_stop, mutex, localVars, dtor, history>>

\* m_cv.wait(lock, !m_hasWork)
CallWait(c) ==
    /\ pc[c] = "wait"
    /\ mutex = None
    /\ Goto(c, IF m_hasWork THEN "asleep" ELSE "returned")
    /\ UNCHANGED <<poolVars, m_stop, mutex, localVars, dtor, history>>

----------------------------------------------------------------------------
\* A body returns, once any call it made has.
BodyReturn(e) ==
    /\ \A d \in Calls : caller[d] # e \/ ~Open(d)
    /\ \/ pc[e] = "run" /\ Goto(e, "claim") /\ i' = [i EXCEPT ![e] = 0]
       \/ pc[e] = "seqRun" /\ Goto(e, "seq") /\ i' = [i EXCEPT ![e] = @ + 1]
    /\ body' = [w \in Workers |-> IF w = e THEN None ELSE body[w]]
    /\ arg' = [w \in Workers |-> IF w = e THEN None ELSE arg[w]]
    /\ UNCHANGED <<poolVars, m_stop, mutex, caller, dtor, history>>

(* ~ParallelWorkerPool: it runs at exit(), when no thread outside the pool  *)
(* is in dispatch().                                                        *)
Stop ==
    /\ dtor = "no"
    /\ mutex = None
    /\ \A c \in Calls : Open(c) => caller[c] # None
    /\ m_stop' = TRUE
    /\ dtor' = "stopped"
    /\ UNCHANGED <<poolVars, mutex, pc, localVars, history>>

StopNotify ==
    /\ dtor = "stopped"
    /\ pc' = [x \in Executors |-> IF pc[x] = "asleep" THEN "wait" ELSE pc[x]]
    /\ dtor' = "notified"
    /\ UNCHANGED <<poolVars, m_stop, mutex, localVars, history>>

JoinWorkers ==
    /\ dtor = "notified"
    /\ \A w \in Workers : pc[w] = "exited"
    /\ dtor' = "joined"
    /\ UNCHANGED <<poolVars, m_stop, mutex, pc, localVars, history>>

WorkerStep(w) ==
    \/ WorkerWait(w) \/ Claim(w) \/ WorkerCheck(w) \/ WorkerLoad(w)
    \/ WorkerCall(w) \/ BodyReturn(w) \/ Signal(w) \/ WorkerNotify(w)

CallStep(c) ==
    \/ Probe(c) \/ SeqNext(c) \/ StoreCurrent(c) \/ StoreEnd(c) \/ StoreBody(c)
    \/ StoreUserData(c) \/ StoreWork(c) \/ CallNotify(c) \/ Claim(c)
    \/ CallCheck(c) \/ BodyReturn(c) \/ CallWait(c)

DtorStep == StopNotify \/ JoinWorkers

Next ==
    \/ \E w \in Workers : WorkerStep(w)
    \/ \E c \in Calls : CallStep(c) \/ Invoke(c) \/ \E e \in Executors : InvokeNested(e, c)
    \/ Stop
    \/ DtorStep

(* Threads are scheduled and bodies end; nobody has to call dispatch() or   *)
(* to end the process.                                                      *)
Fairness ==
    /\ \A w \in Workers : WF_vars(WorkerStep(w))
    /\ \A c \in Calls : WF_vars(CallStep(c))
    /\ WF_vars(DtorStep)

Spec == Init /\ [][Next]_vars /\ Fairness
----------------------------------------------------------------------------
TypeOK ==
    /\ m_current \in Nat /\ m_end \in 0 .. MaxIndex /\ m_doneCount \in Nat
    /\ m_body \in Calls \cup {None} /\ m_userData \in Calls \cup {None}
    /\ m_hasWork \in BOOLEAN /\ m_stop \in BOOLEAN
    /\ mutex \in Calls \cup {None}
    /\ pc \in [Executors -> WorkerPc \cup CallPc]
    /\ \A w \in Workers : pc[w] \in WorkerPc
    /\ \A c \in Calls : pc[c] \in CallPc
    /\ i \in [Executors -> Nat]
    /\ body \in [Workers -> Calls \cup {None}]
    /\ arg \in [Workers -> Calls \cup {None}]
    /\ caller \in [Calls -> Executors \cup {None}]
    /\ dtor \in {"no", "stopped", "notified", "joined"}
    /\ runs \in [Calls -> [Index -> Nat]]
    /\ owner \in Calls \cup {None}
    /\ exclusive \in SUBSET Calls

InRange(c, n) == start[c] <= n /\ n < end[c]

(* No iteration of an undisturbed parallel for is started twice, and none   *)
(* outside its range is started at all, however the workers interleave.     *)
IteratesOnce ==
    \A c \in exclusive, n \in Index : runs[c][n] <= IF InRange(c, n) THEN 1 ELSE 0

(* When an undisturbed parallel for has returned and the workers have left  *)
(* the loop, or the pool has been given to another call, every iteration of *)
(* its range has been started.                                              *)
IteratesAll ==
    \A c \in exclusive :
        \/ pc[c] = "returned" /\ Quiet(c)
        \/ owner # c
        => \A n \in Index : InRange(c, n) => runs[c][n] = 1

(* A worker never runs the body of an undisturbed parallel for with the     *)
(* captured variables of another one.                                       *)
PairsMatch ==
    \A w \in Workers :
        pc[w] = "run" /\ {body[w], arg[w]} \cap exclusive # {} => body[w] = arg[w]

(* m_hasWork is set only while the call that published last still waits for *)
(* it: it cannot be left set with nobody to notice, which would send every  *)
(* later call down the sequential path.                                     *)
WorkHasOwner == m_hasWork => owner \in Calls /\ pc[owner] \in Waiting \cup Storing

(* Every parallel for returns (unless the process ends): no wake-up is lost *)
(* between the count, the clearing of m_hasWork and notify_all, whatever    *)
(* late workers and concurrent calls do to the count.                       *)
EveryCallReturns == \A c \in Calls : pc[c] = "probe" ~> pc[c] = "returned" \/ dtor # "no"

(* The destructor wakes every sleeping worker and joins it, provided that    *)
(* no call is left open in a body that a call which returned early has      *)
(* abandoned.                                                               *)
ShutdownCompletes ==
    dtor = "stopped" ~> dtor = "joined" \/ \E c \in Calls : Open(c)

(* Deadlock freedom of parallel loops that contain parallel loops, before    *)
(* the process ends: while some parallel for is under way, some thread can   *)
(* take a step.  Threads asleep on the condition variable, bodies standing   *)
(* still for a loop of their own and threads waiting for m_mutex are never   *)
(* all there is, however deep the loops nest and however few the workers.    *)
BodyStandsStill(e) == \E d \in Calls : caller[d] = e /\ Open(d)

CanGo(e) ==
    \/ pc[e] \in {"probe", "seq", "notify", "claim", "check", "load", "call"} \cup Storing
    \/ pc[e] \in {"wait", "signal", "store"} /\ mutex = None
    \/ pc[e] \in Running /\ ~BodyStandsStill(e)

SomebodyGoesOn ==
    ~m_stop /\ (\E c \in Calls : Open(c)) => \E e \in Executors : CanGo(e)

(* Line 115, "Wait for all workers": when a parallel for has returned, no   *)
(* worker is still running its body.                                        *)
WaitsForAllWorkers ==
    \A c \in Calls, w \in Workers :
        pc[c] = "returned" /\ pc[w] = "run" => arg[w] # c
----------------------------------------------------------------------------
(* The inductive invariant behind IteratesOnce, IteratesAll, PairsMatch and  *)
(* WorkHasOwner.                                                             *)

\* Executors that hold an index of the counter whose body they have not started.
Holding == {e \in Executors : pc[e] \in {"check", "load", "call"}}

\* m_mutex excludes: the call between StoreCurrent and StoreWork is unique and
\* is the last to have published; a published call goes on to wait.
MutexInv ==
    /\ \A c \in Calls : pc[c] \in Storing <=> mutex = c
    /\ mutex # None => owner = mutex
    /\ owner # None => pc[owner] \in Storing \cup Waiting \cup {"returned"}
    /\ m_hasWork => owner \in Calls /\ pc[owner] \in Waiting \cup Storing

\* A call that has not published leaves no trace in the pool.
FreshInv ==
    \A c \in Calls :
        /\ pc[c] \in {"unused", "probe", "seq", "seqRun", "store"} =>
             c \notin exclusive \cup {m_body, m_userData, owner}
        /\ pc[c] \in {"unused", "probe", "store"} => \A n \in Index : runs[c][n] = 0

\* The parts of OwnerInv, for the call o that published last.
StoresAlone(o) ==
    pc[o] \in Storing => /\ Quiet(o)
                         /\ m_current = start[o]
                         /\ \A n \in Index : runs[o][n] = 0

FieldsStored(o) ==
    /\ pc[o] # "storeEnd" => m_end = end[o]
    /\ pc[o] \notin {"storeEnd", "storeBody"} => m_body = o
    /\ pc[o] \notin {"storeEnd", "storeBody", "storeUserData"} => m_userData = o

CounterPassed(o) ==
    /\ start[o] <= m_current
    /\ pc[o] \in {"wait", "asleep", "returned"} => end[o] <= m_current

LoopAlone(o) == \A d \in Calls \ {o} : pc[d] \notin InLoop \cup {"notify"}

HeldDistinct(o) ==
    \A e \in Holding :
        /\ start[o] <= i[e] /\ i[e] < m_current
        /\ i[e] \in Index => runs[o][i[e]] = 0
        /\ \A f \in Holding \ {e} : i[f] # i[e]

WorkersMatch(o) ==
    \A w \in Workers :
        /\ pc[w] \in {"load", "call"} => i[w] < end[o]
        /\ pc[w] \in {"call", "run"} => body[w] = o
        /\ pc[w] = "run" => arg[w] = o

RunsCounted(o) ==
    \A n \in Index :
        /\ runs[o][n] <= IF InRange(o, n) /\ n < m_current THEN 1 ELSE 0
        /\ InRange(o, n) /\ n < m_current =>
             runs[o][n] = 1 \/ \E e \in Holding : i[e] = n

\* While the last publisher is undisturbed, everyone in the loop is in its loop:
\* indices held are distinct and below the counter, and each index below it has
\* been started once or is held.
OwnerInv ==
    owner \in exclusive =>
        /\ StoresAlone(owner) /\ FieldsStored(owner) /\ CounterPassed(owner)
        /\ LoopAlone(owner) /\ HeldDistinct(owner) /\ WorkersMatch(owner)
        /\ RunsCounted(owner)

\* The work of an undisturbed call that published earlier is complete, and no
\* worker can come to run its body again.
PastInv ==
    \A c \in exclusive \ {owner} :
        /\ pc[c] \in {"wait", "asleep", "returned"}
        /\ \A n \in Index : runs[c][n] = IF InRange(c, n) THEN 1 ELSE 0
        /\ c \in {m_body, m_userData} => owner \in exclusive /\ pc[owner] \in Storing
        /\ \A w \in Workers : /\ pc[w] \in {"call", "run"} => body[w] # c
                              /\ pc[w] = "run" => arg[w] # c

(* The conjunction is inductive: an undisturbed call shares the pool's      *)
(* fields with nobody from its first store until its last iteration.        *)
IInv == TypeOK /\ MutexInv /\ FreshInv /\ OwnerInv /\ PastInv

(* The inductive invariant behind SomebodyGoesOn.                            *)

\* A thread sleeps on a condition only while it does not hold, or while the
\* thread that made it hold has still to notify.
NoLostWakeUp ==
    /\ \A w \in Workers : pc[w] = "asleep" /\ m_hasWork => \E c \in Calls : pc[c] = "notify"
    /\ \A c \in Calls : pc[c] = "asleep" /\ ~m_hasWork => \E w \in Workers : pc[w] = "notify"
    /\ \A w \in Workers : pc[w] = "exited" => m_stop

\* An open nested call belongs to a body that runs and stands still for it; in
\* every set of open calls there is one that no other of them was made from.
NestInv ==
    /\ \A c \in Calls : pc[c] = "unused" => caller[c] = None
    /\ \A c \in Calls : Open(c) /\ caller[c] # None => pc[caller[c]] \in Running
    /\ \A S \in SUBSET {c \in Calls : Open(c)} :
          S # {} => \E c \in S : \A d \in S : caller[d] # c

\* The calls of S and the body of worker u make no call that is not in S.
ClosedUnder(S, u) == \A c \in Calls : Open(c) /\ caller[c] \in S \cup {u} => c \in S

\* The worker that cleared m_hasWork last is out of the loop; when the pool has
\* work again, whatever that worker runs it finds the pool busy, so that every
\* loop within is sequential and none of them ever waits.
FreeWorker ==
    \E u \in Workers :
        IF m_hasWork
          THEN \E S \in SUBSET Calls :
                 ClosedUnder(S, u) /\ \A c \in S : pc[c] \in {"probe", "seq", "seqRun", "returned"}
          ELSE pc[u] \in {"notify", "wait", "asleep", "exited"}

GoesOnInv == TypeOK /\ MutexInv /\ NoLostWakeUp /\ NestInv /\ FreeWorker

============================================================================
