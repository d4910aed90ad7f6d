----------------------------- MODULE HotReload -----------------------------
(***************************************************************************)
(* HotReloadManager of src/jit/scaling_security.cpp on top of JITManager:  *)
(* a new version of a component is compiled apart (prepare), put in place  *)
(* (execute) and then kept (commit) or taken back (rollback).  Its methods *)
(* hold a mutex of their own, so they exclude each other and not the       *)
(* methods of JITManager: they get a pointer to the component and use it   *)
(* without JITManager's mutex, though a comment in executeReload says that *)
(* it holds it.  prepare and execute are therefore two and three actions,  *)
(* with `hot' saying which of them is under way, and JITManager's methods  *)
(* may come in between.                                                    *)
(***************************************************************************)
EXTENDS JITManager

VARIABLES
    m_transactions,  \* name -> transaction or None
    hot,             \* the method under way: its step and its transaction
    swapped,         \* history: names whose instance was put there by executeReload
    crossed          \* history: names whose instance JITManager replaced between
                     \* the assignments of executeReload

hotVars == <<m_transactions, hot>>
swaps == <<swapped, crossed>>
allVars == <<vars, hotVars, swaps>>

Transaction == [name : Names, old_source : Sources, new_source : Sources,
                new_jit : Jits \cup {0}, saved_state : State,
                state : {"READY", "SWAPPING", "SWAPPED", "FAILED", "IDLE"}]
ASSUME TransactionAssumption == None \notin Transaction
Idle == [step |-> "idle", txn |-> None]

HotInit ==
    /\ Init
    /\ m_transactions = [n \in Names |-> None]
    /\ hot = Idle
    /\ swapped = {} /\ crossed = {}

\* Unless Concurrent, hosts call one manager at a time.
MayReload == hot = Idle /\ MayChange
InState(n, st) == m_transactions[n] # None /\ m_transactions[n].state = st

----------------------------------------------------------------------------
\* prepareReload copies the component's source and state, then compiles.  When
\* that fails (fate[s] # "ok") nothing is stored.
PrepareRead(n, s) ==
    /\ MayReload
    /\ n \in Registered
    /\ fate[s] = "ok"
    /\ nextJit <= MaxJits
    /\ nextJit' = nextJit + 1
    /\ codeOf' = [codeOf EXCEPT ![nextJit] = s]
    /\ hot' = [step |-> "prepared",
               txn |-> [name |-> n, old_source |-> m_components[n].source_code,
                        new_source |-> s, new_jit |-> nextJit,
                        saved_state |-> m_components[n].state, state |-> "READY"]]
    /\ UNCHANGED <<flags, m_components, tables, stats, host, running, m_transactions,
                   swaps>>

PrepareStore ==
    /\ hot.step = "prepared"
    /\ m_transactions' = [m_transactions EXCEPT ![hot.txn.name] = hot.txn]
    /\ hot' = Idle
    /\ UNCHANGED <<vars, swaps>>

\* executeReload takes a READY transaction and looks its component up.
ExecuteFind(n) ==
    /\ MayReload
    /\ InState(n, "READY")
    /\ IF n \in Registered
         THEN /\ m_transactions' = [m_transactions EXCEPT ![n].state = "SWAPPING"]
              /\ hot' = [step |-> "found", txn |-> m_transactions[n]]
         ELSE /\ m_transactions' = [m_transactions EXCEPT ![n].state = "FAILED"]
              /\ UNCHANGED hot
    /\ UNCHANGED <<vars, swaps>>

\* comp->jit = std::move(new_jit): the old instance is destroyed here, and
\* eval_func, which no line of executeReload touches, is left pointing into it.
ExecuteMoveJit ==
    /\ hot.step = "found"
    /\ m_components' = [m_components EXCEPT ![hot.txn.name].jit = hot.txn.new_jit]
    /\ m_transactions' = [m_transactions EXCEPT ![hot.txn.name].new_jit = 0]
    /\ hot' = [hot EXCEPT !.step = "moved"]
    /\ swapped' = swapped \cup {hot.txn.name}
    /\ UNCHANGED <<flags, tables, stats, jitVars, host, running, crossed>>

\* The function is about to be set: does the instance it is in still belong to
\* the component?
SwapEnds ==
    crossed' = IF m_components[hot.txn.name].jit = hot.txn.new_jit
                 THEN crossed \ {hot.txn.name} ELSE crossed \cup {hot.txn.name}

\* Mutant: update_func is not replaced.
ExecuteSetFieldsOldFunc ==
    /\ hot.step = "moved"
    /\ m_components' = [m_components EXCEPT ![hot.txn.name].source_code = hot.txn.new_source,
                                            ![hot.txn.name].state = hot.txn.saved_state]
    /\ m_transactions' = [m_transactions EXCEPT ![hot.txn.name].state = "SWAPPED"]
    /\ hot' = Idle
    /\ SwapEnds
    /\ UNCHANGED <<flags, tables, stats, jitVars, host, running, swapped>>

\* Mutant: the transaction stays READY.
ExecuteSetFieldsStillReady ==
    /\ hot.step = "moved"
    /\ m_components' = [m_components EXCEPT ![hot.txn.name].update_func = hot.txn.new_jit,
                                            ![hot.txn.name].source_code = hot.txn.new_source,
                                            ![hot.txn.name].state = hot.txn.saved_state]
    /\ m_transactions' = [m_transactions EXCEPT ![hot.txn.name].state = "READY"]
    /\ hot' = Idle
    /\ SwapEnds
    /\ UNCHANGED <<flags, tables, stats, jitVars, host, running, swapped>>

\* The fields after it; eval_func is not among them.
ExecuteSetFields ==
    /\ hot.step = "moved"
    /\ m_components' = [m_components EXCEPT ![hot.txn.name].update_func = hot.txn.new_jit,
                                            ![hot.txn.name].source_code = hot.txn.new_source,
                                            ![hot.txn.name].state = hot.txn.saved_state]
    /\ m_transactions' = [m_transactions EXCEPT ![hot.txn.name].state = "SWAPPED"]
    /\ hot' = Idle
    /\ SwapEnds
    /\ UNCHANGED <<flags, tables, stats, jitVars, host, running, swapped>>

----------------------------------------------------------------------------
AbortReload ==
    /\ MayReload
    /\ m_transactions' =
         [n \in Names |-> IF InState(n, "SWAPPED") \/ InState(n, "IDLE")
                            THEN m_transactions[n] ELSE None]
    /\ UNCHANGED <<vars, hot, swaps>>

CommitReload ==
    /\ MayReload
    /\ m_transactions' =
         [n \in Names |-> IF InState(n, "SWAPPED") THEN None ELSE m_transactions[n]]
    /\ UNCHANGED <<vars, hot, swaps>>

\* The old source and the state are put back; the old instance is gone.
RollbackReload ==
    /\ MayReload
    /\ m_components' =
         [n \in Registered |->
            IF InState(n, "SWAPPED")
              THEN [m_components[n] EXCEPT !.source_code = m_transactions[n].old_source,
                                           !.state = m_transactions[n].saved_state]
              ELSE m_components[n]]
    /\ m_transactions' =
         [n \in Names |-> IF InState(n, "SWAPPED")
                            THEN [m_transactions[n] EXCEPT !.state = "IDLE"]
                            ELSE m_transactions[n]]
    /\ UNCHANGED <<flags, tables, stats, jitVars, host, running, hot, swaps>>

FinalizeReloads ==
    /\ MayReload
    /\ m_transactions' = [n \in Names |-> None]
    /\ UNCHANGED <<vars, hot, swaps>>

ReloadStep ==
    \/ \E n \in Names, s \in Sources : PrepareRead(n, s)
    \/ \E n \in Names : ExecuteFind(n)
    \/ PrepareStore \/ ExecuteMoveJit \/ ExecuteSetFields
    \/ AbortReload \/ CommitReload \/ RollbackReload \/ FinalizeReloads

\* A method of JITManager.  If it erases the component that executeReload has in
\* hand, comp dangles and that call has no outcome to model: it goes no further.
Replaced == {n \in Names : n \in Registered /\ n \in Registered'
                            => m_components'[n].jit # m_components[n].jit}
ManagerStep ==
    /\ Concurrent \/ hot = Idle
    /\ Next
    /\ hot' = IF hot.step \in {"found", "moved"} /\ hot.txn.name \notin Registered'
                THEN [hot EXCEPT !.step = "lost"] ELSE hot
    /\ swapped' = swapped \ Replaced
    /\ crossed' = crossed \ Replaced
    /\ UNCHANGED m_transactions

HotNext == ManagerStep \/ ReloadStep

HotSpec == HotInit /\ [][HotNext]_allVars
----------------------------------------------------------------------------
HotTypeOK ==
    /\ TypeOK
    /\ m_transactions \in [Names -> Transaction \cup {None}]
    /\ hot \in [step : {"idle", "prepared", "found", "moved", "lost"}, txn : Transaction \cup {None}]
    /\ swapped \in SUBSET Names /\ crossed \in SUBSET Names

(* A transaction that is ready holds an instance with the code of its new   *)
(* source, which no component and no other transaction holds: executing it  *)
(* cannot destroy or share code that is in use, whatever aborts, rollbacks  *)
(* and registrations came in between.                                       *)
ReadyHoldsNewCode ==
    \A n \in Names :
        InState(n, "READY") =>
            LET t == m_transactions[n] IN
            /\ t.name = n
            /\ t.new_jit # 0 /\ codeOf[t.new_jit] = t.new_source
            /\ \A c \in Registered : m_components[c].jit # t.new_jit
            /\ \A m \in Names \ {n} :
                 m_transactions[m] # None => m_transactions[m].new_jit # t.new_jit

(* Both functions of a component, update_func, which evaluateComponent      *)
(* calls, and eval_func, which generateWaveform and evaluateSignal call,    *)
(* are null or lie in the instance the component owns, any other having     *)
(* been destroyed, whatever reloads, rollbacks and compilations overlap,    *)
(* but for what executeReload does not see to (scaling_security.cpp         *)
(* 165-169): update_func lags behind the instance between two of its        *)
(* assignments, and for longer if JITManager compiles the component there;  *)
(* eval_func is left in the instance that the swap destroyed until the      *)
(* component is compiled again.  A compilation that yields no module leaves *)
(* both behind, as UpdateFuncLive says.                                     *)
NoCode(c) == c.jit # 0 /\ codeOf[c.jit] = None
Swapping(n) == hot.step = "moved" /\ hot.txn.name = n
FunctionsLive ==
    \A n \in Registered :
        LET c == m_components[n] IN
        NoCode(c) \/ /\ c.update_func \in {0, c.jit} \/ Swapping(n) \/ n \in crossed
                     /\ c.eval_func \in {0, c.jit} \/ n \in swapped
=============================================================================
