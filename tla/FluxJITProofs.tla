--------------------------- MODULE FluxJITProofs ---------------------------
(***************************************************************************)
(* Proofs about the tiers of FluxJIT, for any modules, functions and       *)
(* threads.                                                                *)
(*                                                                         *)
(* AllCallersRedirected (TierInv): the first thread to promote a function  *)
(* read the plain code's address before, and is going to redirect it,      *)
(* unless nothing was cached (Pending).                                    *)
(*                                                                         *)
(* HostCodeIntact (ReservedInv): while each module that defines a name     *)
(* keeps it private or has yet to compare it (Reserved), no module is      *)
(* linked or saved under it, so nothing of it can be promoted; and a       *)
(* reserved name stays so once it is in m_moduleSymbols.                   *)
(*                                                                         *)
(* PromotedFromDefinition (SavedInv) follows from the order of addModule's *)
(* steps: the IR of a name is saved by the module that is then linked      *)
(* under it, and a module that was not linked never will be.               *)
(***************************************************************************)
EXTENDS FluxJIT, TLAPS

\* addModule compares names while it has a module and has saved none of its IR.
Flight ==
    /\ adding # None => adding \in added
    /\ unchecked # {} => adding # None /\ addPc = "check"

LEMMA InitFlight == Init => Flight
  BY ConstantsAssumption DEF Init, Flight

LEMMA NextFlight == TypeOK /\ Flight /\ [Next]_vars => Flight'
<1> SUFFICES ASSUME TypeOK, Flight, [Next]_vars PROVE Flight'
  OBVIOUS
<1>1. ASSUME NEW m \in Modules, AddModule(m) PROVE Flight'
  BY <1>1, ConstantsAssumption DEF AddModule, Flight
<1>2. ASSUME NEW n \in unchecked, AddCheck(n) PROVE Flight'
  BY <1>2 DEF AddCheck, Flight
<1>3. CASE AddSave \/ AddLink \/ AddSymbols \/ AddCounts
  BY <1>3 DEF AddSave, AddLink, AddSymbols, AddCounts, Flight
<1>4. ASSUME UNCHANGED moduleVars PROVE Flight'
  BY <1>4 DEF moduleVars, Flight
<1>5. ASSUME NEW th \in Threads, CallStep(th) PROVE UNCHANGED moduleVars
  BY <1>5 DEF CallStep, RegisterDefine, RegisterSymbol, Resolve, Fallback, Store, Count,
     PromoteCheck, PromoteOriginal, PromoteSaved, PromoteLink, Redirect
<1>6. ASSUME NEW th \in Threads, NEW n \in Names, Call(th, n) PROVE UNCHANGED moduleVars
  BY <1>6 DEF Call, RegisterPointer, Lookup, PromoteCall
<1>7. ResetCallCounts \/ UNCHANGED vars => UNCHANGED moduleVars
  BY DEF ResetCallCounts, vars
<1> QED
  BY <1>1, <1>2, <1>3, <1>4, <1>5, <1>6, <1>7 DEF Next, AddStep

----------------------------------------------------------------------------
\* The host's address is cached only where native code was found.
NameOK(n) ==
    /\ m_functionPtrs[n] = "promoted" => n \in m_promotedPtrs
    /\ m_functionPtrs[n] = "host" \/ home[n] = Host => n \in native

ThreadOK(th) ==
    /\ pc[th] # "idle" \/ ptr[th] # None \/ original[th] # None => name[th] \in Names
    /\ pc[th] = "redirect" => original[th] \notin {None, "promoted"}
    /\ pc[th] \in {"define", "symbol"} => name[th] \in native
    /\ ptr[th] = "promoted" \/ original[th] = "promoted" => name[th] \in m_promotedPtrs
    /\ ptr[th] = "host" \/ original[th] = "host" => name[th] \in native

\* The jump is written, or a thread is about to write it.
Pending(n) ==
    n \in m_promotedPtrs \ (native \cup unseen) /\ "plain" \in Redirectable =>
        \/ <<"plain", n>> \in patched
        \/ \E th \in Threads : name[th] = n /\ pc[th] = "redirect" /\ original[th] = "plain"

TierInv ==
    /\ TypeOK
    /\ \A n \in Names : NameOK(n) /\ Pending(n)
    /\ \A th \in Threads : ThreadOK(th)

----------------------------------------------------------------------------
LEMMA InitTier == Init => TierInv
<1> SUFFICES ASSUME Init PROVE TierInv
  OBVIOUS
<1>1. TypeOK
  BY DEF Init, TypeOK, Pcs
<1>2. \A n \in Names : NameOK(n) /\ Pending(n)
  BY ConstantsAssumption DEF Init, NameOK, Pending, Kinds, Host
<1>3. \A th \in Threads : ThreadOK(th)
  BY ConstantsAssumption DEF Init, ThreadOK, Kinds
<1> QED
  BY <1>1, <1>2, <1>3 DEF TierInv

\* A step of one thread, or of none: the rest keep what they know.
LEMMA TierStep ==
    ASSUME TierInv, TypeOK', m_promotedPtrs \subseteq m_promotedPtrs', native \subseteq native',
           \A n \in Names : NameOK(n)' /\ Pending(n)',
           \A q \in Threads :
               \/ pc'[q] = pc[q] /\ name'[q] = name[q] /\ ptr'[q] = ptr[q] /\ original'[q] = original[q]
               \/ ThreadOK(q)'
    PROVE  TierInv'
<1>1. ASSUME NEW q \in Threads PROVE ThreadOK(q)'
  <2>1. ThreadOK(q)
    BY DEF TierInv
  <2> QED
    BY <2>1 DEF ThreadOK
<1> QED
  BY <1>1 DEF TierInv

LEMMA PendingKept ==
    ASSUME TierInv, UNCHANGED <<m_promotedPtrs, patched, unseen>>, native \subseteq native',
           \A q \in Threads : pc[q] = "redirect" =>
               pc'[q] = pc[q] /\ name'[q] = name[q] /\ original'[q] = original[q]
    PROVE  \A n \in Names : Pending(n)'
  BY DEF TierInv, Pending

\* An action of a thread on its own variables alone.
LEMMA ThreadStep ==
    ASSUME TierInv, NEW th \in Threads, UNCHANGED <<symbolVars, tierVars, cacheVars>>, TypeOK',
           pc[th] # "redirect",
           \A q \in Threads \ {th} :
               pc'[q] = pc[q] /\ name'[q] = name[q] /\ ptr'[q] = ptr[q] /\ original'[q] = original[q],
           ThreadOK(th)'
    PROVE  TierInv'
<1>1. \A n \in Names : NameOK(n)'
  BY DEF TierInv, NameOK, symbolVars, tierVars, cacheVars
<1>2. \A n \in Names : Pending(n)'
  BY PendingKept DEF tierVars, cacheVars
<1> QED
  BY <1>1, <1>2, TierStep DEF tierVars, cacheVars

\* An action that is no thread's.
LEMMA ModuleStep ==
    ASSUME TierInv, TypeOK', UNCHANGED <<tierVars, native, threadVars>>,
           \A n \in Names : NameOK(n)'
    PROVE  TierInv'
<1>1. \A n \in Names : Pending(n)'
  BY PendingKept DEF tierVars, threadVars
<1> QED
  BY <1>1, TierStep DEF tierVars, threadVars

----------------------------------------------------------------------------
\* addModule.
LEMMA AddTier ==
    ASSUME TierInv, Flight, AddStep
    PROVE  TierInv'
<1> USE ModulesAssumption DEF TierInv, TypeOK
<1>1. ASSUME UNCHANGED <<symbolVars, tierVars, cacheVars, threadVars>>,
             added' \in SUBSET Modules, adding' \in Modules \cup {None},
             addPc' \in {"check", "link", "symbols", "counts"}, unchecked' \in SUBSET Names,
             private' \in [Modules -> SUBSET Names], m_savedModules' \in [Names -> Modules \cup {None}]
      PROVE  TierInv'
  <2>1. TypeOK'
    BY <1>1 DEF symbolVars, tierVars, cacheVars, threadVars
  <2>2. \A n \in Names : NameOK(n)'
    BY <1>1 DEF NameOK, symbolVars, tierVars, cacheVars
  <2> QED
    BY <1>1, <2>1, <2>2, ModuleStep DEF cacheVars
<1>2. ASSUME NEW m \in Modules, AddModule(m) PROVE TierInv'
  BY <1>1, <1>2 DEF AddModule
<1>3. ASSUME NEW n \in unchecked, AddCheck(n) PROVE TierInv'
  <2>1. private' \in [Modules -> SUBSET Names]
    BY <1>3 DEF AddCheck, Flight
  <2> QED
    BY <1>1, <1>3, <2>1 DEF AddCheck
<1>4. CASE AddSave
  <2>1. m_savedModules' \in [Names -> Modules \cup {None}]
    BY <1>4 DEF AddSave
  <2> QED
    BY <1>1, <1>4, <2>1 DEF AddSave
<1>5. CASE AddLink
  <2>1. home' \in [Names -> Modules \cup {Host, None}]
    BY <1>5 DEF AddLink
  <2>2. TypeOK'
    BY <1>5, <2>1 DEF AddLink, tierVars, cacheVars, threadVars
  <2>3. \A n \in Names : home'[n] = Host => home[n] = Host
    BY <1>5, ConstantsAssumption DEF AddLink
  <2>4. \A n \in Names : NameOK(n)'
    BY <1>5, <2>3 DEF AddLink, NameOK, tierVars, cacheVars
  <2> QED
    BY <1>5, <2>2, <2>4, ModuleStep DEF AddLink, cacheVars
<1>6. CASE AddSymbols
  <2>1. m_moduleSymbols' \in SUBSET Names
    BY <1>6 DEF AddSymbols, Exported
  <2>2. TypeOK'
    BY <1>6, <2>1 DEF AddSymbols, tierVars, cacheVars, threadVars
  <2>3. \A n \in Names : NameOK(n)'
    BY <1>6 DEF AddSymbols, NameOK, tierVars, cacheVars
  <2> QED
    BY <1>6, <2>2, <2>3, ModuleStep DEF AddSymbols, cacheVars
<1>7. CASE AddCounts
  <2>1. m_callCounts' \in [Names -> 0 .. Threshold \cup {None}]
    <3>1. 0 \in 0 .. Threshold
      BY ConstantsAssumption
    <3> QED
      BY <1>7, <3>1 DEF AddCounts
  <2>2. TypeOK'
    BY <1>7, <2>1 DEF AddCounts, symbolVars, tierVars, threadVars
  <2>3. \A n \in Names : NameOK(n)'
    BY <1>7 DEF AddCounts, NameOK, symbolVars, tierVars
  <2> QED
    BY <1>7, <2>2, <2>3, ModuleStep DEF AddCounts
<1> QED
  BY <1>2, <1>3, <1>4, <1>5, <1>6, <1>7 DEF AddStep

----------------------------------------------------------------------------
\* registerFunction.
LEMMA RegisterPointerTier ==
    ASSUME TierInv, NEW th \in Threads, NEW n \in Names, RegisterPointer(th, n)
    PROVE  TierInv'
<1>1. /\ pc[th] = "idle" /\ pc' = [pc EXCEPT ![th] = "define"]
      /\ name' = [name EXCEPT ![th] = n]
      /\ ptr' = [ptr EXCEPT ![th] = None] /\ original' = [original EXCEPT ![th] = None]
      /\ m_functionPtrs' = [m_functionPtrs EXCEPT ![n] = "host"]
      /\ native' = native \cup {n}
      /\ UNCHANGED <<moduleVars, symbolVars, tierVars, m_callCounts>>
  BY DEF RegisterPointer, Goto
<1>2. TypeOK'
  BY <1>1 DEF TierInv, TypeOK, Pcs, Kinds, moduleVars, symbolVars, tierVars
<1>3. /\ pc'[th] = "define" /\ name'[th] = n /\ ptr'[th] = None /\ original'[th] = None
      /\ \A q \in Threads \ {th} :
           pc'[q] = pc[q] /\ name'[q] = name[q] /\ ptr'[q] = ptr[q] /\ original'[q] = original[q]
      /\ m_functionPtrs'[n] = "host"
      /\ \A m \in Names \ {n} : m_functionPtrs'[m] = m_functionPtrs[m]
  BY <1>1 DEF TierInv, TypeOK
<1>4. ThreadOK(th)'
  BY <1>1, <1>3, ConstantsAssumption DEF ThreadOK, Kinds
<1>5. \A m \in Names : NameOK(m)'
  BY <1>1, <1>3 DEF TierInv, NameOK, symbolVars, tierVars
<1>6. \A m \in Names : Pending(m)'
  BY <1>1, <1>3, PendingKept DEF tierVars
<1> QED
  BY <1>1, <1>2, <1>3, <1>4, <1>5, <1>6, TierStep DEF tierVars

LEMMA RegisterDefineTier ==
    ASSUME TierInv, NEW th \in Threads, RegisterDefine(th) \/ RegisterSymbol(th)
    PROVE  TierInv'
<1>1. PICK l \in {"idle", "symbol"} :
        pc[th] \in {"define", "symbol"} /\ pc' = [pc EXCEPT ![th] = l]
  BY DEF RegisterDefine, RegisterSymbol, Return, Goto
<1>2. UNCHANGED <<moduleVars, tierVars, cacheVars, name, ptr, original>>
  BY DEF RegisterDefine, RegisterSymbol
<1>3. ThreadOK(th) /\ name[th] \in Names
  BY <1>1 DEF TierInv, ThreadOK
<1>4. /\ home' \in [Names -> Modules \cup {Host, None}]
      /\ \A m \in Names : home'[m] = home[m] \/ (m = name[th] /\ home'[m] = Host)
  BY <1>3 DEF RegisterDefine, RegisterSymbol, TierInv, TypeOK
<1>5. /\ processSymbols' \in SUBSET Names /\ m_moduleSymbols' \in SUBSET Names
      /\ first' \in SUBSET Names
  BY <1>3 DEF RegisterDefine, RegisterSymbol, TierInv, TypeOK
<1>6. TypeOK'
  BY <1>1, <1>2, <1>4, <1>5 DEF TierInv, TypeOK, Pcs, moduleVars, tierVars, cacheVars
<1>7. pc'[th] = l /\ \A q \in Threads \ {th} : pc'[q] = pc[q]
  BY <1>1 DEF TierInv, TypeOK
<1>8. ThreadOK(th)'
  BY <1>1, <1>2, <1>3, <1>7 DEF ThreadOK, tierVars, cacheVars
<1>9. ASSUME NEW m \in Names PROVE NameOK(m)'
  <2>1. NameOK(m)
    BY DEF TierInv
  <2>2. m = name[th] => m \in native
    BY <1>1, <1>3 DEF ThreadOK
  <2> QED
    BY <1>2, <1>4, <2>1, <2>2 DEF NameOK, tierVars, cacheVars
<1>10. \A m \in Names : Pending(m)'
  BY <1>1, <1>2, <1>7, PendingKept DEF tierVars, cacheVars
<1> QED
  BY <1>2, <1>6, <1>7, <1>8, <1>9, <1>10, TierStep DEF tierVars, cacheVars

----------------------------------------------------------------------------
\* getPointerToFunction, and the call of promoteFunction.
LEMMA CallTier ==
    ASSUME TierInv, NEW th \in Threads, NEW n \in Names, Lookup(th, n) \/ PromoteCall(th, n)
    PROVE  TierInv'
<1>1. PICK l \in {"resolve", "count", "promote"}, p \in {m_functionPtrs[n], None} :
        /\ pc[th] = "idle" /\ name' = [name EXCEPT ![th] = n]
        /\ original' = [original EXCEPT ![th] = None] /\ ptr' = [ptr EXCEPT ![th] = p]
        /\ pc' = [pc EXCEPT ![th] = l]
        /\ UNCHANGED <<moduleVars, symbolVars, tierVars, cacheVars>>
  BY DEF Lookup, PromoteCall, Goto
<1>2. p \in Kinds \cup {None}
  BY DEF TierInv, TypeOK
<1>3. TypeOK'
  BY <1>1, <1>2 DEF TierInv, TypeOK, Pcs, moduleVars, symbolVars, tierVars, cacheVars
<1>4. /\ name'[th] = n /\ original'[th] = None /\ ptr'[th] = p /\ pc'[th] = l
      /\ \A q \in Threads \ {th} :
           pc'[q] = pc[q] /\ name'[q] = name[q] /\ ptr'[q] = ptr[q] /\ original'[q] = original[q]
  BY <1>1 DEF TierInv, TypeOK
<1>5. NameOK(n) /\ UNCHANGED <<m_promotedPtrs, native>>
  BY <1>1 DEF TierInv, tierVars, cacheVars
<1>6. ThreadOK(th)'
  BY <1>1, <1>4, <1>5, ConstantsAssumption DEF ThreadOK, NameOK, Kinds
<1> QED
  BY <1>1, <1>3, <1>4, <1>6, ThreadStep

LEMMA ResolveTier ==
    ASSUME TierInv, NEW th \in Threads, Resolve(th)
    PROVE  TierInv'
<1>1. PICK l \in {"fallback", "store"}, p \in {ptr[th], "plain", "host"} :
        /\ pc[th] = "resolve" /\ pc' = [pc EXCEPT ![th] = l] /\ ptr' = [ptr EXCEPT ![th] = p]
        /\ p = "host" => ptr[th] = "host" \/ home[name[th]] = Host
        /\ p = "promoted" => ptr[th] = "promoted"
  <2>1. ptr = [ptr EXCEPT ![th] = ptr[th]]
    BY DEF TierInv, TypeOK
  <2> QED
    BY <2>1 DEF Resolve, Goto
<1>2. UNCHANGED <<moduleVars, symbolVars, tierVars, cacheVars, name, original>>
  BY DEF Resolve
<1>3. TypeOK'
  BY <1>1, <1>2 DEF TierInv, TypeOK, Pcs, Kinds, moduleVars, symbolVars, tierVars, cacheVars
<1>4. /\ pc'[th] = l /\ ptr'[th] = p
      /\ \A q \in Threads \ {th} : pc'[q] = pc[q] /\ ptr'[q] = ptr[q]
  BY <1>1 DEF TierInv, TypeOK
<1>5. ThreadOK(th) /\ NameOK(name[th])
  BY <1>1 DEF TierInv, ThreadOK
<1>6. ThreadOK(th)'
  BY <1>1, <1>2, <1>4, <1>5 DEF ThreadOK, NameOK, tierVars, cacheVars
<1> QED
  BY <1>1, <1>2, <1>3, <1>4, <1>6, ThreadStep

LEMMA FallbackTier ==
    ASSUME TierInv, NEW th \in Threads, Fallback(th)
    PROVE  TierInv'
<1>1. PICK l \in {"idle", "store"}, p \in {ptr[th], "host"} :
        /\ pc[th] = "fallback" /\ pc' = [pc EXCEPT ![th] = l] /\ ptr' = [ptr EXCEPT ![th] = p]
        /\ p = "host" => ptr[th] = "host" \/ name[th] \in native'
  <2>1. ptr = [ptr EXCEPT ![th] = ptr[th]]
    BY DEF TierInv, TypeOK
  <2> QED
    BY <2>1 DEF Fallback, Return, Goto
<1>2. /\ UNCHANGED <<moduleVars, symbolVars, tierVars, m_functionPtrs, m_callCounts, name, original>>
      /\ native' \in {native, native \cup {name[th]}}
  BY DEF Fallback
<1>3. ThreadOK(th) /\ name[th] \in Names
  BY <1>1 DEF TierInv, ThreadOK
<1>4. TypeOK'
  BY <1>1, <1>2, <1>3 DEF TierInv, TypeOK, Pcs, Kinds, moduleVars, symbolVars, tierVars
<1>5. /\ pc'[th] = l /\ ptr'[th] = p
      /\ \A q \in Threads \ {th} : pc'[q] = pc[q] /\ ptr'[q] = ptr[q]
  BY <1>1 DEF TierInv, TypeOK
<1>6. ThreadOK(th)'
  BY <1>1, <1>2, <1>3, <1>5 DEF ThreadOK, tierVars
<1>7. \A m \in Names : NameOK(m)'
  BY <1>2 DEF TierInv, NameOK, symbolVars, tierVars
<1>8. \A m \in Names : Pending(m)'
  BY <1>1, <1>2, <1>5, PendingKept DEF tierVars
<1> QED
  BY <1>2, <1>4, <1>5, <1>6, <1>7, <1>8, TierStep DEF tierVars

LEMMA StoreTier ==
    ASSUME TierInv, NEW th \in Threads, Store(th)
    PROVE  TierInv'
<1> DEFINE n == name[th]
<1>1. /\ pc[th] = "store" /\ pc' = [pc EXCEPT ![th] = "count"]
      /\ m_functionPtrs' = [m_functionPtrs EXCEPT ![n] = ptr[th]]
      /\ UNCHANGED <<moduleVars, symbolVars, tierVars, m_callCounts, native, name, ptr, original>>
  BY DEF Store, Goto
<1>2. ThreadOK(th) /\ n \in Names
  BY <1>1 DEF TierInv, ThreadOK
<1>3. TypeOK'
  BY <1>1, <1>2 DEF TierInv, TypeOK, Pcs, moduleVars, symbolVars, tierVars
<1>4. /\ m_functionPtrs'[n] = ptr[th]
      /\ \A m \in Names \ {n} : m_functionPtrs'[m] = m_functionPtrs[m]
      /\ pc'[th] = "count" /\ \A q \in Threads \ {th} : pc'[q] = pc[q]
  BY <1>1, <1>2 DEF TierInv, TypeOK
<1>5. ThreadOK(th)'
  BY <1>1, <1>2, <1>4 DEF ThreadOK, tierVars
<1>6. ASSUME NEW m \in Names PROVE NameOK(m)'
  <2>1. NameOK(m)
    BY DEF TierInv
  <2>2. CASE m = n
    BY <1>1, <1>2, <1>4, <2>1, <2>2 DEF NameOK, ThreadOK, symbolVars, tierVars
  <2>3. CASE m # n
    BY <1>1, <1>4, <2>1, <2>3 DEF NameOK, symbolVars, tierVars
  <2> QED
    BY <2>2, <2>3
<1>7. \A m \in Names : Pending(m)'
  BY <1>1, <1>4, PendingKept DEF tierVars
<1> QED
  BY <1>1, <1>3, <1>4, <1>5, <1>6, <1>7, TierStep DEF tierVars

\* The counters change, and at most one thread counted.
LEMMA CountersTier ==
    ASSUME TierInv, NEW th \in Threads,
           UNCHANGED <<moduleVars, symbolVars, tierVars, m_functionPtrs, native, name, ptr, original>>,
           m_callCounts' \in [Names -> 0 .. Threshold \cup {None}],
           NEW l \in Pcs, pc' = [pc EXCEPT ![th] = l],
           l = pc[th] \/ (pc[th] = "count" /\ l \in {"idle", "promote"})
    PROVE  TierInv'
<1>1. TypeOK'
  BY DEF TierInv, TypeOK, moduleVars, symbolVars, tierVars
<1>2. \A m \in Names : NameOK(m)'
  BY DEF TierInv, NameOK, symbolVars, tierVars
<1>3. pc'[th] = l /\ \A q \in Threads \ {th} : pc'[q] = pc[q]
  BY DEF TierInv, TypeOK
<1>4. \A m \in Names : Pending(m)'
  BY <1>3, PendingKept DEF tierVars
<1>5. ThreadOK(th)'
  <2>1. ThreadOK(th)
    BY DEF TierInv
  <2> QED
    BY <1>3, <2>1 DEF ThreadOK, tierVars
<1> QED
  BY <1>1, <1>2, <1>3, <1>4, <1>5, TierStep DEF tierVars

LEMMA CountTier ==
    ASSUME TierInv, NEW th \in Threads, Count(th)
    PROVE  TierInv'
<1>1. /\ pc[th] = "count"
      /\ UNCHANGED <<moduleVars, symbolVars, tierVars, m_functionPtrs, native, name, ptr, original>>
  BY DEF Count
<1>2. PICK l \in {"idle", "promote"} : pc' = [pc EXCEPT ![th] = l]
  BY DEF Count, Return, Goto
<1>3. m_callCounts' \in [Names -> 0 .. Threshold \cup {None}]
  <2> DEFINE v == m_callCounts[name[th]]
  <2>1. m_callCounts \in [Names -> 0 .. Threshold \cup {None}] /\ name[th] \in Names
    BY <1>1 DEF TierInv, TypeOK, ThreadOK
  <2>2. CASE v = None
    BY <2>1, <2>2 DEF Count
  <2>3. CASE v # None
    <3>1. v \in 0 .. Threshold
      BY <2>1, <2>3
    <3>2. (IF v < Threshold THEN v + 1 ELSE v) \in 0 .. Threshold
      BY <3>1, ConstantsAssumption
    <3>3. m_callCounts' = [m_callCounts EXCEPT ![name[th]] = IF v < Threshold THEN v + 1 ELSE v]
      BY <2>1, <2>3 DEF Count
    <3> QED
      BY <2>1, <3>2, <3>3
  <2> QED
    BY <2>2, <2>3
<1>4. l \in Pcs
  BY DEF Pcs
<1> QED
  BY <1>1, <1>2, <1>3, <1>4, CountersTier

LEMMA ResetTier ==
    ASSUME TierInv, ResetCallCounts
    PROVE  TierInv'
<1>1. m_callCounts' \in [Names -> 0 .. Threshold \cup {None}]
  BY ConstantsAssumption DEF ResetCallCounts
<1>2. TypeOK'
  BY <1>1 DEF ResetCallCounts, TierInv, TypeOK, moduleVars, symbolVars, tierVars, threadVars
<1>3. \A n \in Names : NameOK(n)'
  BY DEF ResetCallCounts, TierInv, NameOK, symbolVars, tierVars
<1> QED
  BY <1>2, <1>3, ModuleStep DEF ResetCallCounts

----------------------------------------------------------------------------
\* promoteFunction.
LEMMA PromoteCheckTier ==
    ASSUME TierInv, NEW th \in Threads, PromoteCheck(th)
    PROVE  TierInv'
<1>1. /\ pc[th] = "promote"
      /\ UNCHANGED <<moduleVars, symbolVars, tierVars, cacheVars, name, original>>
      /\ \/ /\ name[th] \in m_promotedPtrs /\ pc' = [pc EXCEPT ![th] = "idle"]
            /\ ptr' = [ptr EXCEPT ![th] = "promoted"]
         \/ pc' = [pc EXCEPT ![th] = "original"] /\ ptr' = ptr
  BY DEF PromoteCheck, Return, Goto
<1>2. TypeOK'
  BY <1>1 DEF TierInv, TypeOK, Pcs, Kinds, moduleVars, symbolVars, tierVars, cacheVars
<1>3. /\ \A q \in Threads \ {th} : pc'[q] = pc[q] /\ ptr'[q] = ptr[q]
      /\ \/ name[th] \in m_promotedPtrs /\ pc'[th] = "idle" /\ ptr'[th] = "promoted"
         \/ pc'[th] = "original" /\ ptr'[th] = ptr[th]
  BY <1>1 DEF TierInv, TypeOK
<1>4. ThreadOK(th)
  BY DEF TierInv
<1>5. ThreadOK(th)'
  BY <1>1, <1>3, <1>4 DEF ThreadOK, tierVars, cacheVars
<1> QED
  BY <1>1, <1>2, <1>3, <1>5, ThreadStep

LEMMA PromoteOriginalTier ==
    ASSUME TierInv, NEW th \in Threads, PromoteOriginal(th)
    PROVE  TierInv'
<1>1. /\ pc[th] = "original" /\ pc' = [pc EXCEPT ![th] = "saved"]
      /\ original' = [original EXCEPT ![th] = m_functionPtrs[name[th]]]
      /\ UNCHANGED <<moduleVars, symbolVars, tierVars, cacheVars, name, ptr>>
  BY DEF PromoteOriginal, Goto
<1>2. ThreadOK(th) /\ name[th] \in Names /\ NameOK(name[th])
  BY <1>1 DEF TierInv, ThreadOK
<1>3. TypeOK'
  BY <1>1, <1>2 DEF TierInv, TypeOK, Pcs, moduleVars, symbolVars, tierVars, cacheVars
<1>4. /\ \A q \in Threads \ {th} : pc'[q] = pc[q] /\ original'[q] = original[q]
      /\ original'[th] = m_functionPtrs[name[th]] /\ pc'[th] = "saved"
  BY <1>1 DEF TierInv, TypeOK
<1>5. ThreadOK(th)'
  BY <1>1, <1>2, <1>4 DEF ThreadOK, NameOK, tierVars, cacheVars
<1> QED
  BY <1>1, <1>3, <1>4, <1>5, ThreadStep

LEMMA PromoteSavedTier ==
    ASSUME TierInv, NEW th \in Threads, PromoteSaved(th)
    PROVE  TierInv'
<1>1. /\ pc[th] = "saved" /\ \E l \in {"idle", "link"} : pc' = [pc EXCEPT ![th] = l]
      /\ UNCHANGED <<moduleVars, symbolVars, tierVars, cacheVars, name, ptr, original>>
  BY DEF PromoteSaved, Return, Goto
<1>2. TypeOK'
  BY <1>1 DEF TierInv, TypeOK, Pcs, moduleVars, symbolVars, tierVars, cacheVars
<1>3. pc'[th] \in {"idle", "link"} /\ \A q \in Threads \ {th} : pc'[q] = pc[q]
  BY <1>1 DEF TierInv, TypeOK
<1>4. ThreadOK(th)
  BY DEF TierInv
<1>5. ThreadOK(th)'
  BY <1>1, <1>3, <1>4 DEF ThreadOK, tierVars, cacheVars
<1> QED
  BY <1>1, <1>2, <1>3, <1>5, ThreadStep

LEMMA PromoteLinkTier ==
    ASSUME TierInv, NEW th \in Threads, PromoteLink(th)
    PROVE  TierInv'
<1> DEFINE n == name[th]
<1>1. pc[th] = "link" /\ UNCHANGED <<moduleVars, symbolVars, m_callCounts, native, name, original>>
  BY DEF PromoteLink
<1>2. ThreadOK(th) /\ n \in Names
  BY <1>1 DEF TierInv, ThreadOK
<1>3. CASE pc' = [pc EXCEPT ![th] = "idle"] /\ UNCHANGED <<tierVars, m_functionPtrs, ptr>>
  <2>1. UNCHANGED cacheVars
    BY <1>1, <1>3 DEF cacheVars
  <2>2. TypeOK'
    BY <1>1, <1>3 DEF TierInv, TypeOK, Pcs, moduleVars, symbolVars, tierVars
  <2>3. pc'[th] = "idle" /\ \A q \in Threads \ {th} : pc'[q] = pc[q]
    BY <1>3 DEF TierInv, TypeOK
  <2>4. ThreadOK(th)'
    BY <1>1, <1>2, <1>3, <2>3 DEF ThreadOK, tierVars
  <2> QED
    BY <1>1, <1>3, <2>1, <2>2, <2>3, <2>4, ThreadStep
<1>4. CASE /\ promotedFrom' = [promotedFrom EXCEPT ![n] = IF @ = None THEN m_savedModules[n] ELSE @]
           /\ m_promotedPtrs' = m_promotedPtrs \cup {n}
           /\ m_functionPtrs' = [m_functionPtrs EXCEPT ![n] = "promoted"]
           /\ ptr' = [ptr EXCEPT ![th] = "promoted"]
           /\ unseen' = IF original[th] = None /\ n \notin m_promotedPtrs
                          THEN unseen \cup {n} ELSE unseen
           /\ pc' = [pc EXCEPT ![th] = IF original[th] \in {None, "promoted"} THEN "idle" ELSE "redirect"]
           /\ UNCHANGED patched
  <2>1. TypeOK'
    BY <1>1, <1>2, <1>4 DEF TierInv, TypeOK, Pcs, Kinds, moduleVars, symbolVars
  <2>2. /\ \A q \in Threads \ {th} : pc'[q] = pc[q] /\ ptr'[q] = ptr[q]
        /\ ptr'[th] = "promoted"
        /\ pc'[th] = IF original[th] \in {None, "promoted"} THEN "idle" ELSE "redirect"
        /\ m_functionPtrs'[n] = "promoted"
        /\ \A m \in Names \ {n} : m_functionPtrs'[m] = m_functionPtrs[m]
        /\ home' = home
    BY <1>1, <1>2, <1>4 DEF TierInv, TypeOK, symbolVars
  <2>3. ASSUME NEW m \in Names PROVE NameOK(m)'
    <3>1. NameOK(m)
      BY DEF TierInv
    <3> QED
      BY <1>1, <1>4, <2>2, <3>1 DEF NameOK
  <2>4. ThreadOK(th)'
    BY <1>1, <1>2, <1>4, <2>2 DEF ThreadOK
  <2>5. ASSUME NEW m \in Names PROVE Pending(m)'
    <3>1. Pending(m)
      BY DEF TierInv
    <3>2. CASE m \in m_promotedPtrs
      <4>1. \A q \in Threads : pc[q] = "redirect" => pc'[q] = pc[q]
        BY <1>1, <2>2
      <4> QED
        BY <1>1, <1>4, <3>1, <3>2, <4>1 DEF Pending
    <3>3. CASE m = n /\ m \notin m_promotedPtrs
      <4> SUFFICES ASSUME n \notin native, original[th] # None PROVE Pending(n)'
        BY <1>1, <1>4, <3>3 DEF Pending
      <4>1. original[th] \in Kinds /\ original[th] \notin {"promoted", "host"}
        BY <1>2, <3>3 DEF ThreadOK, TierInv, TypeOK
      <4>2. pc'[th] = "redirect" /\ name'[th] = n /\ original'[th] = "plain"
        BY <1>1, <2>2, <4>1 DEF Kinds
      <4> QED
        BY <4>2 DEF Pending
    <3>4. CASE m # n /\ m \notin m_promotedPtrs
      BY <1>4, <3>4 DEF Pending
    <3> QED
      BY <3>2, <3>3, <3>4
  <2> QED
    BY <1>1, <1>4, <2>1, <2>2, <2>3, <2>4, <2>5, TierStep
<1> QED
  BY <1>3, <1>4 DEF PromoteLink, Promoted, Return, Goto

LEMMA RedirectTier ==
    ASSUME TierInv, NEW th \in Threads, Redirect(th)
    PROVE  TierInv'
<1> DEFINE n == name[th]
<1>1. /\ pc[th] = "redirect" /\ pc' = [pc EXCEPT ![th] = "idle"]
      /\ patched' = IF original[th] \in Redirectable \cup {"promoted"}
                      THEN patched \cup {<<original[th], n>>} ELSE patched
      /\ UNCHANGED <<moduleVars, symbolVars, m_promotedPtrs, promotedFrom, unseen, cacheVars,
                     name, ptr, original>>
  BY DEF Redirect, Return, Goto
<1>2. ThreadOK(th) /\ n \in Names /\ original[th] \in {"plain", "host"}
  BY <1>1 DEF TierInv, ThreadOK, TypeOK, Kinds
<1>3. patched \subseteq patched' /\ patched' \subseteq patched \cup {<<original[th], n>>}
  BY <1>1
<1>4. TypeOK'
  BY <1>1, <1>2, <1>3 DEF TierInv, TypeOK, Pcs, moduleVars, symbolVars, cacheVars
<1>5. \A m \in Names : NameOK(m)'
  BY <1>1 DEF TierInv, NameOK, symbolVars, cacheVars
<1>6. pc'[th] = "idle" /\ \A q \in Threads \ {th} : pc'[q] = pc[q]
  BY <1>1 DEF TierInv, TypeOK
<1>7. ThreadOK(th)'
  BY <1>1, <1>2, <1>6 DEF ThreadOK, cacheVars
<1>8. ASSUME NEW m \in Names PROVE Pending(m)'
  <2>1. Pending(m) /\ UNCHANGED <<m_promotedPtrs, native, unseen, name, original>>
    BY <1>1 DEF TierInv, cacheVars
  <2>2. CASE m = n /\ original[th] = "plain"
    BY <1>1, <2>1, <2>2 DEF Pending
  <2>3. CASE ~(m = n /\ original[th] = "plain")
    BY <1>3, <1>6, <2>1, <2>3 DEF Pending
  <2> QED
    BY <2>2, <2>3
<1> QED
  BY <1>1, <1>4, <1>5, <1>6, <1>7, <1>8, TierStep DEF cacheVars

----------------------------------------------------------------------------
LEMMA NextTier == TierInv /\ Flight /\ [Next]_vars => TierInv'
<1> SUFFICES ASSUME TierInv, Flight, [Next]_vars PROVE TierInv'
  OBVIOUS
<1>1. CASE AddStep \/ ResetCallCounts
  BY <1>1, AddTier, ResetTier
<1>2. ASSUME NEW th \in Threads, CallStep(th) PROVE TierInv'
  BY <1>2, RegisterDefineTier, ResolveTier, FallbackTier, StoreTier, CountTier, PromoteCheckTier,
     PromoteOriginalTier, PromoteSavedTier, PromoteLinkTier, RedirectTier DEF CallStep
<1>3. ASSUME NEW th \in Threads, NEW n \in Names, Call(th, n) PROVE TierInv'
  BY <1>3, RegisterPointerTier, CallTier DEF Call
<1>4. CASE UNCHANGED vars
  <2>1. UNCHANGED <<moduleVars, symbolVars, tierVars, cacheVars, threadVars>>
    BY <1>4 DEF vars
  <2>2. TypeOK' /\ \A n \in Names : NameOK(n)'
    BY <2>1 DEF TierInv, TypeOK, NameOK, moduleVars, symbolVars, tierVars, cacheVars, threadVars
  <2> QED
    BY <2>1, <2>2, ModuleStep DEF cacheVars
<1> QED
  BY <1>1, <1>2, <1>3, <1>4 DEF Next

LEMMA Tiers == Spec => [](TierInv /\ Flight)
<1>1. TierInv => TypeOK
  BY DEF TierInv
<1> QED
  BY <1>1, InitTier, InitFlight, NextTier, NextFlight, PTL DEF Spec

\* Every variable has its type; in particular no jump is written over promoted
\* code (redirectFunction of flux_jit.cpp).
THEOREM TypeCorrect == Spec => []TypeOK
<1>1. TierInv => TypeOK
  BY DEF TierInv
<1> QED
  BY <1>1, Tiers, PTL

\* Every pointer to a promoted function leads to the promoted code: one that is
\* embedded in a module, and one that another thread looked up before and
\* cached after; unless promoteFunction was called before any was cached, or
\* native code was found under the name (promoteFunction of flux_jit.cpp).
THEOREM Redirected == Spec => []AllCallersRedirected
<1>1. TierInv => AllCallersRedirected
  <2> SUFFICES ASSUME TierInv, NEW n \in m_promotedPtrs \ (native \cup unseen),
                      "plain" \in Redirectable,
                      \A th \in Threads : name[th] = n => pc[th] # "redirect",
                      NEW p \in Pointers(n) \ {None, "promoted"}
               PROVE  <<p, n>> \in patched
    BY DEF AllCallersRedirected
  <2>1. n \in Names /\ NameOK(n) /\ Pending(n)
    BY DEF TierInv, TypeOK
  <2>2. <<"plain", n>> \in patched
    BY <2>1 DEF Pending
  <2>3. p \in Kinds
    BY <2>1 DEF Pointers, TierInv, TypeOK, Kinds
  <2>4. p # "host"
    BY <2>1 DEF Pointers, NameOK, TierInv, ThreadOK
  <2> QED
    BY <2>2, <2>3, <2>4 DEF Kinds
<1> QED
  BY <1>1, Tiers, PTL

----------------------------------------------------------------------------
\* Nothing of a module is found, or is going to be promoted, under a reserved
\* name.
ReservedOK(n) ==
    Reserved(n) =>
        /\ home[n] \notin Modules /\ m_savedModules[n] = None
        /\ m_functionPtrs[n] \in {None, "host"} /\ <<"host", n>> \notin patched
        /\ \A th \in Threads : name[th] = n =>
               pc[th] \notin {"link", "redirect"} /\ (pc[th] = "store" => ptr[th] = "host")

\* In m_moduleSymbols a reserved name stays reserved.
FirstOK(n) ==
    n \in first =>
        Reserved(n) /\ n \in m_moduleSymbols /\ home[n] = Host /\ m_functionPtrs[n] = "host"

\* registerFunction has cached, then defined what it is going to reserve.
RegisterOK(th) ==
    /\ pc[th] # "idle" => name[th] \in Names
    /\ pc[th] \in {"define", "symbol"} /\ Reserved(name[th]) => m_functionPtrs[name[th]] = "host"
    /\ pc[th] = "symbol" => home[name[th]] # None

ReservedInv ==
    /\ \A n \in Names : ReservedOK(n) /\ FirstOK(n)
    /\ \A th \in Threads : RegisterOK(th)

LEMMA InitReserved == Init => ReservedInv
  BY ConstantsAssumption DEF Init, ReservedInv, ReservedOK, FirstOK, RegisterOK, Kinds, Host

\* addModule: a name that is reserved was so, and stays so if it is recorded.
LEMMA AddReserved ==
    ASSUME TypeOK, Flight, ReservedInv, AddStep
    PROVE  ReservedInv'
<1>1. ASSUME UNCHANGED <<first, m_functionPtrs, patched, threadVars>>,
             m_moduleSymbols \subseteq m_moduleSymbols',
             \A n \in Names : Reserved(n)' => Reserved(n),
             \A n \in Names : Reserved(n) /\ n \in m_moduleSymbols => Reserved(n)',
             \A n \in Names : home[n] # None => home'[n] = home[n],
             \A n \in Names : Reserved(n)' =>
                 home'[n] = home[n] /\ m_savedModules'[n] = m_savedModules[n]
      PROVE  ReservedInv'
  <2>1. ASSUME NEW n \in Names PROVE ReservedOK(n)'
    <3>1. ReservedOK(n)
      BY DEF ReservedInv
    <3> QED
      BY <1>1, <3>1 DEF ReservedOK, threadVars
  <2>2. ASSUME NEW n \in Names PROVE FirstOK(n)'
    <3>1. FirstOK(n) /\ Host # None
      BY ConstantsAssumption DEF ReservedInv, Host, Kinds
    <3> QED
      BY <1>1, <3>1 DEF FirstOK
  <2>3. ASSUME NEW th \in Threads PROVE RegisterOK(th)'
    <3>1. RegisterOK(th)
      BY DEF ReservedInv
    <3>2. /\ pc'[th] # "idle" => name[th] \in Names
          /\ UNCHANGED <<pc, name, m_functionPtrs>>
      BY <1>1, <3>1 DEF RegisterOK, threadVars
    <3>3. CASE name[th] \in Names
      BY <1>1, <3>1, <3>2, <3>3 DEF RegisterOK
    <3>4. CASE name[th] \notin Names
      BY <3>2, <3>4 DEF RegisterOK
    <3> QED
      BY <3>3, <3>4
  <2> QED
    BY <2>1, <2>2, <2>3 DEF ReservedInv
<1>2. ASSUME NEW m \in Modules, AddModule(m) PROVE ReservedInv'
  <2>1. /\ adding = None /\ None \notin Modules /\ m \notin added
        /\ added' = added \cup {m} /\ adding' = m /\ unchecked' = defines[m]
        /\ UNCHANGED <<private, m_savedModules, symbolVars, tierVars, cacheVars, threadVars>>
    BY <1>2, ConstantsAssumption DEF AddModule
  <2>2. ASSUME NEW n \in Names PROVE Reserved(n)' <=> Reserved(n)
    BY <2>1 DEF Reserved, TypeOK
  <2> QED
    BY <1>1, <2>1, <2>2 DEF symbolVars, tierVars, cacheVars
<1>3. ASSUME NEW k \in unchecked, AddCheck(k) PROVE ReservedInv'
  <2>1. /\ adding \in Modules /\ unchecked' = unchecked \ {k}
        /\ private' = IF k \in m_moduleSymbols
                        THEN [private EXCEPT ![adding] = @ \cup {k}] ELSE private
        /\ UNCHANGED <<added, adding, m_savedModules, symbolVars, tierVars, cacheVars, threadVars>>
    BY <1>3, ConstantsAssumption DEF AddCheck, Flight, TypeOK
  <2>2. /\ \A m \in Modules \ {adding} : private'[m] = private[m]
        /\ private'[adding] = IF k \in m_moduleSymbols THEN private[adding] \cup {k}
                                                       ELSE private[adding]
    BY <2>1 DEF TypeOK
  <2>3. added \subseteq Modules
    BY DEF TypeOK
  <2>4. ASSUME NEW n \in Names PROVE Reserved(n)' => Reserved(n)
    BY <2>1, <2>2, <2>3 DEF Reserved
  <2>5. ASSUME NEW n \in Names, n \in m_moduleSymbols, Reserved(n) PROVE Reserved(n)'
    BY <2>1, <2>2, <2>3, <2>5 DEF Reserved
  <2> QED
    BY <1>1, <2>1, <2>4, <2>5 DEF symbolVars, tierVars, cacheVars
<1>4. CASE AddSave
  <2>1. /\ adding \in added /\ unchecked = {} /\ unchecked' = {}
        /\ UNCHANGED <<added, private, symbolVars, tierVars, cacheVars, threadVars>>
    BY <1>4 DEF AddSave, Flight
  <2>2. ASSUME NEW n \in Names PROVE Reserved(n)' <=> Reserved(n)
    BY <2>1 DEF Reserved
  <2>3. ASSUME NEW n \in Names, Reserved(n) PROVE m_savedModules'[n] = m_savedModules[n]
    BY <1>4, <2>1, <2>3 DEF AddSave, Reserved, Exported, TypeOK
  <2> QED
    BY <1>1, <2>1, <2>2, <2>3 DEF symbolVars, tierVars, cacheVars
<1>5. CASE AddLink
  <2>1. /\ adding \in added /\ unchecked = {} /\ unchecked' = {}
        /\ UNCHANGED <<added, private, m_savedModules, m_moduleSymbols, first, tierVars,
                       cacheVars, threadVars>>
    BY <1>5 DEF AddLink, Flight
  <2>2. ASSUME NEW n \in Names PROVE Reserved(n)' <=> Reserved(n)
    BY <2>1 DEF Reserved
  <2>3. ASSUME NEW n \in Names, Reserved(n) PROVE home'[n] = home[n]
    BY <1>5, <2>1, <2>3 DEF AddLink, Reserved, Exported, TypeOK
  <2>4. \A n \in Names : home[n] # None => home'[n] = home[n]
    BY <1>5 DEF AddLink
  <2> QED
    BY <1>1, <2>1, <2>2, <2>3, <2>4 DEF tierVars, cacheVars
<1>6. CASE AddSymbols \/ AddCounts
  <2>1. /\ unchecked = {} /\ unchecked' = {} /\ m_moduleSymbols \subseteq m_moduleSymbols'
        /\ UNCHANGED <<added, private, m_savedModules, home, first, m_functionPtrs, patched,
                       threadVars>>
    BY <1>6 DEF AddSymbols, AddCounts, Flight, symbolVars, tierVars, cacheVars
  <2>2. ASSUME NEW n \in Names PROVE Reserved(n)' <=> Reserved(n)
    BY <2>1 DEF Reserved
  <2> QED
    BY <1>1, <2>1, <2>2
<1> QED
  BY <1>2, <1>3, <1>4, <1>5, <1>6 DEF AddStep

\* A step of one thread, of which only those that write the registry matter.
LEMMA ReservedStep ==
    ASSUME TypeOK, ReservedInv, UNCHANGED moduleVars, NEW th \in Threads,
           \A q \in Threads \ {th} : pc'[q] = pc[q] /\ name'[q] = name[q] /\ ptr'[q] = ptr[q],
           \A n \in Names : ReservedOK(n) /\ Reserved(n) =>
                  /\ home'[n] = home[n] \/ home'[n] = Host
                  /\ m_functionPtrs'[n] = m_functionPtrs[n] \/ m_functionPtrs'[n] = "host"
                  /\ <<"host", n>> \in patched' => <<"host", n>> \in patched
                  /\ name'[th] = n => pc'[th] \notin {"link", "redirect"}
                                      /\ (pc'[th] = "store" => ptr'[th] = "host"),
           \A n \in Names : home[n] # None => home'[n] = home[n],
           m_moduleSymbols \subseteq m_moduleSymbols',
           \A n \in first' \ first : FirstOK(n)',
           first' \subseteq Names,
           RegisterOK(th)'
    PROVE  ReservedInv'
<1>1. \A n \in Names : Reserved(n)' <=> Reserved(n)
  BY DEF Reserved, moduleVars
<1>2. Host \notin Modules /\ Host # None
  BY ConstantsAssumption DEF Host, Kinds
<1>3. ASSUME NEW n \in Names PROVE ReservedOK(n)'
  <2>1. ReservedOK(n) /\ m_savedModules' = m_savedModules
    BY DEF ReservedInv, moduleVars
  <2>2. CASE Reserved(n)
    <3>1. ASSUME NEW q \in Threads, name'[q] = n
          PROVE  pc'[q] \notin {"link", "redirect"} /\ (pc'[q] = "store" => ptr'[q] = "host")
      BY <2>1, <2>2, <3>1 DEF ReservedOK
    <3> QED
      BY <1>2, <2>1, <2>2, <3>1 DEF ReservedOK
  <2>3. CASE ~Reserved(n)
    BY <1>1, <2>3 DEF ReservedOK
  <2> QED
    BY <2>2, <2>3
<1>4. ASSUME NEW n \in Names PROVE FirstOK(n)'
  <2>1. FirstOK(n) /\ ReservedOK(n)
    BY DEF ReservedInv
  <2> QED
    BY <1>1, <1>2, <2>1 DEF FirstOK
<1>5. ASSUME NEW q \in Threads \ {th} PROVE RegisterOK(q)'
  <2>1. RegisterOK(q) /\ pc'[q] = pc[q] /\ name'[q] = name[q]
    BY DEF ReservedInv
  <2>2. CASE name[q] \in Names
    <3>1. ReservedOK(name[q])
      BY <2>2 DEF ReservedInv
    <3> QED
      BY <1>1, <2>1, <2>2, <3>1 DEF RegisterOK
  <2>3. CASE name[q] \notin Names
    BY <2>1, <2>3 DEF RegisterOK
  <2> QED
    BY <2>2, <2>3
<1> QED
  BY <1>3, <1>4, <1>5 DEF ReservedInv

\* The steps of registerFunction.
LEMMA RegisterReserved ==
    ASSUME TypeOK, ReservedInv, NEW th \in Threads,
           RegisterDefine(th) \/ RegisterSymbol(th) \/ \E n \in Names : RegisterPointer(th, n)
    PROVE  ReservedInv'
<1>1. Host \notin Modules /\ Host # None
  BY ConstantsAssumption DEF Host, Kinds
<1>2. ASSUME NEW n \in Names, RegisterPointer(th, n) PROVE ReservedInv'
  <2>1. /\ pc'[th] = "define" /\ name'[th] = n
        /\ \A q \in Threads \ {th} : pc'[q] = pc[q] /\ name'[q] = name[q] /\ ptr'[q] = ptr[q]
        /\ m_functionPtrs'[n] = "host"
        /\ \A m \in Names \ {n} : m_functionPtrs'[m] = m_functionPtrs[m]
        /\ UNCHANGED <<moduleVars, symbolVars, patched>>
    BY <1>2 DEF RegisterPointer, Goto, TypeOK, tierVars
  <2>2. RegisterOK(th)'
    BY <2>1 DEF RegisterOK
  <2>3. UNCHANGED <<home, m_moduleSymbols, first>> /\ first \subseteq Names
    BY <2>1 DEF symbolVars, TypeOK
  <2> QED
    BY <2>1, <2>2, <2>3, ReservedStep
<1>3. CASE RegisterDefine(th)
  <2>1. RegisterOK(th) /\ pc[th] = "define" /\ name[th] \in Names
    BY <1>3 DEF ReservedInv, RegisterDefine, RegisterOK
  <2>2. /\ pc'[th] = "symbol" /\ \A q \in Threads \ {th} : pc'[q] = pc[q]
        /\ home'[name[th]] = IF home[name[th]] = None THEN Host ELSE home[name[th]]
        /\ \A m \in Names \ {name[th]} : home'[m] = home[m]
        /\ UNCHANGED <<moduleVars, m_moduleSymbols, first, m_functionPtrs, patched, name, ptr>>
    BY <1>3, <2>1 DEF RegisterDefine, Goto, TypeOK, tierVars, cacheVars
  <2>3. Reserved(name[th])' <=> Reserved(name[th])
    BY <2>2 DEF Reserved, moduleVars
  <2>4. RegisterOK(th)' /\ first \subseteq Names
    BY <1>1, <2>1, <2>2, <2>3 DEF RegisterOK, TypeOK
  <2> QED
    BY <2>2, <2>4, ReservedStep
<1>4. CASE RegisterSymbol(th)
  <2>1. RegisterOK(th) /\ pc[th] = "symbol" /\ name[th] \in Names
    BY <1>4 DEF ReservedInv, RegisterSymbol, RegisterOK
  <2>2. /\ pc'[th] = "idle" /\ \A q \in Threads \ {th} : pc'[q] = pc[q]
        /\ m_moduleSymbols' = m_moduleSymbols \cup {name[th]}
        /\ first' = IF Reserved(name[th]) THEN first \cup {name[th]} ELSE first
        /\ UNCHANGED <<moduleVars, home, m_functionPtrs, patched, name, ptr>>
    BY <1>4, <2>1 DEF RegisterSymbol, Return, Goto, TypeOK, tierVars, cacheVars
  <2>3. RegisterOK(th)' /\ first' \subseteq Names
    BY <2>1, <2>2 DEF RegisterOK, TypeOK
  <2>4. ASSUME NEW n \in first' \ first PROVE FirstOK(n)'
    <3>1. n = name[th] /\ Reserved(n)
      BY <2>2, <2>4
    <3>2. ReservedOK(n) /\ home[n] \in Modules \cup {Host, None}
      BY <2>1, <3>1 DEF ReservedInv, TypeOK
    <3>3. home[n] = Host /\ m_functionPtrs[n] = "host"
      BY <2>1, <3>1, <3>2 DEF RegisterOK, ReservedOK
    <3>4. Reserved(n)'
      BY <2>2, <3>1 DEF Reserved, moduleVars
    <3> QED
      BY <2>2, <3>1, <3>3, <3>4 DEF FirstOK
  <2> QED
    BY <2>2, <2>3, <2>4, ReservedStep
<1> QED
  BY <1>2, <1>3, <1>4

\* The other steps of a thread write the pointers and the jumps alone.
LEMMA CallReserved ==
    ASSUME TypeOK, ReservedInv, NEW th \in Threads, CallStep(th),
           ~RegisterDefine(th), ~RegisterSymbol(th)
    PROVE  ReservedInv'
<1>1. /\ UNCHANGED <<moduleVars, home, m_moduleSymbols, first, name>>
      /\ pc[th] \notin {"idle", "define", "symbol"}
      /\ \A q \in Threads \ {th} : pc'[q] = pc[q] /\ ptr'[q] = ptr[q]
      /\ pc'[th] \notin {"define", "symbol"}
  BY DEF CallStep, Resolve, Fallback, Store, Count, PromoteCheck, PromoteOriginal, PromoteSaved,
     PromoteLink, Promoted, Redirect, Return, Goto, TypeOK, symbolVars
<1>2. RegisterOK(th) /\ name[th] \in Names /\ ReservedOK(name[th])
  BY <1>1 DEF ReservedInv, RegisterOK
<1>3. RegisterOK(th)' /\ first' \subseteq Names
  BY <1>1, <1>2 DEF RegisterOK, TypeOK
<1>4. ASSUME Reserved(name[th])
      PROVE  /\ m_functionPtrs'[name[th]] = m_functionPtrs[name[th]] \/ m_functionPtrs'[name[th]] = "host"
             /\ pc'[th] \notin {"link", "redirect"} /\ (pc'[th] = "store" => ptr'[th] = "host")
             /\ patched' = patched
  <2>1. /\ home[name[th]] \notin Modules /\ m_savedModules[name[th]] = None
        /\ pc[th] \notin {"link", "redirect"} /\ (pc[th] = "store" => ptr[th] = "host")
    BY <1>2, <1>4 DEF ReservedOK
  <2>2. home[name[th]] \in {Host, None}
    BY <1>2, <2>1 DEF TypeOK
  <2>3. CASE Resolve(th) \/ Fallback(th)
    BY <1>2, <2>2, <2>3 DEF Resolve, Fallback, Return, Goto, TypeOK, tierVars, cacheVars
  <2>4. CASE Store(th)
    BY <1>2, <2>1, <2>4 DEF Store, Goto, TypeOK, tierVars
  <2>5. CASE Count(th) \/ PromoteCheck(th) \/ PromoteOriginal(th)
    BY <2>5 DEF Count, PromoteCheck, PromoteOriginal, Return, Goto, TypeOK, tierVars, cacheVars
  <2>6. CASE PromoteSaved(th)
    BY <2>1, <2>6 DEF PromoteSaved, Return, Goto, TypeOK, tierVars, cacheVars
  <2>7. CASE PromoteLink(th) \/ Redirect(th)
    BY <2>1, <2>7 DEF PromoteLink, Redirect
  <2> QED
    BY <2>3, <2>4, <2>5, <2>6, <2>7 DEF CallStep
<1>5. ASSUME NEW n \in Names, n # name[th]
      PROVE  m_functionPtrs'[n] = m_functionPtrs[n] /\ (<<"host", n>> \in patched' => <<"host", n>> \in patched)
  <2>1. CASE Store(th) \/ PromoteLink(th)
    BY <1>5, <2>1 DEF Store, PromoteLink, Promoted, TypeOK, tierVars
  <2>2. CASE Redirect(th)
    BY <1>5, <2>2 DEF Redirect, cacheVars
  <2>3. CASE Resolve(th) \/ Fallback(th) \/ Count(th) \/ PromoteCheck(th) \/ PromoteOriginal(th)
             \/ PromoteSaved(th)
    BY <2>3 DEF Resolve, Fallback, Count, PromoteCheck, PromoteOriginal, PromoteSaved,
       tierVars, cacheVars
  <2> QED
    BY <2>1, <2>2, <2>3 DEF CallStep
<1>6. ASSUME NEW n \in Names, Reserved(n)
      PROVE  /\ home'[n] = home[n] \/ home'[n] = Host
             /\ m_functionPtrs'[n] = m_functionPtrs[n] \/ m_functionPtrs'[n] = "host"
             /\ <<"host", n>> \in patched' => <<"host", n>> \in patched
             /\ name'[th] = n => pc'[th] \notin {"link", "redirect"}
                                 /\ (pc'[th] = "store" => ptr'[th] = "host")
  BY <1>1, <1>4, <1>5, <1>6
<1> QED
  BY <1>1, <1>3, <1>6, ReservedStep

LEMMA NextReserved == TypeOK /\ Flight /\ ReservedInv /\ [Next]_vars => ReservedInv'
<1> SUFFICES ASSUME TypeOK, Flight, ReservedInv, [Next]_vars PROVE ReservedInv'
  OBVIOUS
<1>1. ASSUME NEW th \in Threads, CallStep(th) PROVE ReservedInv'
  BY <1>1, CallReserved, RegisterReserved
<1>2. ASSUME NEW th \in Threads, NEW n \in Names, Lookup(th, n) \/ PromoteCall(th, n)
      PROVE  ReservedInv'
  <2>1. /\ pc'[th] \in {"resolve", "count", "promote"} /\ name'[th] = n
        /\ \A q \in Threads \ {th} : pc'[q] = pc[q] /\ name'[q] = name[q] /\ ptr'[q] = ptr[q]
        /\ UNCHANGED <<moduleVars, symbolVars, m_functionPtrs, patched>>
    BY <1>2 DEF Lookup, PromoteCall, Goto, TypeOK, tierVars, cacheVars
  <2>2. RegisterOK(th)' /\ UNCHANGED <<home, m_moduleSymbols, first>> /\ first \subseteq Names
    BY <2>1 DEF RegisterOK, symbolVars, TypeOK
  <2> QED
    BY <2>1, <2>2, ReservedStep
<1>3. CASE ResetCallCounts \/ UNCHANGED vars
  <2>1. UNCHANGED <<moduleVars, symbolVars, m_functionPtrs, patched, threadVars>>
    BY <1>3 DEF ResetCallCounts, vars, tierVars, cacheVars
  <2> QED
    BY <2>1 DEF ReservedInv, ReservedOK, FirstOK, RegisterOK, Reserved, moduleVars, symbolVars,
       threadVars
<1> QED
  BY <1>1, <1>2, <1>3, AddReserved, RegisterReserved DEF Next, Call

\* What the host registered before any module had the name past its check is
\* what ORC and the cache keep, and its code is never overwritten by a jump,
\* whatever is looked up, promoted or added meanwhile (registerFunction,
\* addModule and promoteFunction of flux_jit.cpp).
THEOREM HostIntact == Spec => []HostCodeIntact
<1>1. TypeOK /\ ReservedInv => HostCodeIntact
  BY DEF ReservedInv, FirstOK, ReservedOK, HostCodeIntact, TypeOK
<1> QED
  BY <1>1, InitReserved, NextReserved, TypeCorrect, Tiers, PTL DEF Spec

----------------------------------------------------------------------------
\* What was exported and what was saved stays: a module is added once, its IR
\* is saved before it is linked, and one that was not linked then never is.
SavedOK(n) ==
    /\ m_savedModules[n] # None =>
           /\ m_savedModules[n] \in added /\ n \in Exported(m_savedModules[n])
           /\ \/ m_savedModules[n] \in {adding, home[n]}
              \/ \A k \in Names : home[k] # m_savedModules[n]
    /\ home[n] \in Modules => home[n] \in added /\ m_savedModules[n] # None
    /\ m_callCounts[n] # None => home[n] \in Modules
    /\ promotedFrom[n] \in {None, m_savedModules[n]}
    /\ adding # None /\ addPc = "check" => adding # m_savedModules[n]
    /\ adding # None /\ addPc \in {"check", "link"} => adding # home[n]
    /\ adding # None /\ addPc # "check" /\ n \in Exported(adding) => m_savedModules[n] # None
    /\ adding # None /\ addPc \in {"symbols", "counts"} /\ n \in Exported(adding) => home[n] = adding

SavedInv == \A n \in Names : SavedOK(n)
LEMMA InitSaved == Init => SavedInv
  BY ConstantsAssumption DEF Init, SavedInv, SavedOK

LEMMA AddModuleSaved ==
    ASSUME TypeOK, SavedInv, NEW m \in Modules, AddModule(m)
    PROVE  SavedInv'
<1>1. /\ adding = None /\ m \notin added /\ added' = added \cup {m} /\ adding' = m
      /\ addPc' = "check" /\ None \notin Modules
      /\ UNCHANGED <<private, m_savedModules, home, promotedFrom, m_callCounts>>
  BY ConstantsAssumption DEF AddModule, symbolVars, tierVars, cacheVars
<1>2. ASSUME NEW n \in Names PROVE SavedOK(n)'
  <2>1. SavedOK(n) /\ m_savedModules[n] \in Modules \cup {None}
        /\ home[n] \in Modules \cup {Host, None}
    BY DEF SavedInv, TypeOK
  <2>2. m_savedModules[n] # m /\ home[n] # m
    BY <1>1, <2>1 DEF SavedOK
  <2> QED
    BY <1>1, <2>1, <2>2 DEF SavedOK, Exported
<1> QED
  BY <1>2 DEF SavedInv

LEMMA AddCheckSaved ==
    ASSUME TypeOK, Flight, SavedInv, NEW k \in unchecked, AddCheck(k)
    PROVE  SavedInv'
<1>1. /\ adding \in Modules /\ addPc = "check" /\ addPc' = "check" /\ adding # None
      /\ \A m \in Modules \ {adding} : private'[m] = private[m]
      /\ UNCHANGED <<added, adding, m_savedModules, home, promotedFrom, m_callCounts>>
  BY ConstantsAssumption DEF AddCheck, Flight, TypeOK, symbolVars, tierVars, cacheVars
<1>2. ASSUME NEW n \in Names PROVE SavedOK(n)'
  <2>1. SavedOK(n) /\ m_savedModules[n] \in Modules \cup {None}
    BY DEF SavedInv, TypeOK
  <2>2. m_savedModules[n] # adding
    BY <1>1, <2>1 DEF SavedOK
  <2> QED
    BY <1>1, <2>1, <2>2 DEF SavedOK, Exported
<1> QED
  BY <1>2 DEF SavedInv

LEMMA AddSaveSaved ==
    ASSUME TypeOK, Flight, SavedInv, AddSave
    PROVE  SavedInv'
<1>1. /\ adding \in added /\ adding # None /\ addPc = "check" /\ added \subseteq Modules
      /\ adding' \in {None, adding} /\ (adding' # None => addPc' = "link")
      /\ \A n \in Names : m_savedModules'[n] = IF n \in Exported(adding) /\ m_savedModules[n] = None
                                                 THEN adding ELSE m_savedModules[n]
      /\ UNCHANGED <<added, private, home, promotedFrom, m_callCounts>>
      /\ None \notin Modules
  BY ConstantsAssumption DEF AddSave, Flight, TypeOK, symbolVars, tierVars, cacheVars
<1>2. \A k \in Names : home[k] # adding
  BY <1>1 DEF SavedInv, SavedOK
<1>3. ASSUME NEW n \in Names PROVE SavedOK(n)'
  <2>1. SavedOK(n)
    BY DEF SavedInv
  <2>2. CASE n \in Exported(adding) /\ m_savedModules[n] = None
    BY <1>1, <1>2, <2>1, <2>2 DEF SavedOK, Exported
  <2>3. CASE ~(n \in Exported(adding) /\ m_savedModules[n] = None)
    <3>1. m_savedModules'[n] = m_savedModules[n] /\ m_savedModules[n] # adding
      BY <1>1, <2>1, <2>3 DEF SavedOK
    <3> QED
      BY <1>1, <1>2, <2>1, <2>3, <3>1 DEF SavedOK, Exported
  <2> QED
    BY <2>2, <2>3
<1> QED
  BY <1>3 DEF SavedInv

LEMMA AddLinkSaved ==
    ASSUME TypeOK, Flight, SavedInv, AddLink
    PROVE  SavedInv'
<1>1. /\ adding \in added /\ adding # None /\ addPc = "link" /\ adding \in Modules
      /\ None \notin Modules /\ Host \notin Modules
      /\ UNCHANGED <<added, private, m_savedModules, promotedFrom, m_callCounts>>
  BY ConstantsAssumption DEF AddLink, Flight, TypeOK, tierVars, cacheVars
<1>2. \A k \in Names : home[k] # adding
  BY <1>1 DEF SavedInv, SavedOK
<1>3. CASE adding' = None /\ UNCHANGED home
  <2>1. ASSUME NEW n \in Names PROVE SavedOK(n)'
    <3>1. SavedOK(n)
      BY DEF SavedInv
    <3> QED
      BY <1>1, <1>2, <1>3, <3>1 DEF SavedOK, Exported
  <2> QED
    BY <2>1 DEF SavedInv
<1>4. CASE /\ \A n \in Exported(adding) : home[n] = None
           /\ home' = [n \in Names |-> IF n \in Exported(adding) THEN adding ELSE home[n]]
           /\ addPc' = "symbols" /\ adding' = adding
  <2>1. ASSUME NEW n \in Names PROVE SavedOK(n)'
    <3>1. PICK s \in Modules \cup {None} : s = m_savedModules[n] /\ s = m_savedModules'[n]
      BY <1>1 DEF TypeOK
    <3>2. SavedOK(n)
      BY DEF SavedInv
    <3>3. s # None => s \in added /\ n \in Exported(s) /\ n \in Exported(s)'
      BY <1>1, <3>1, <3>2 DEF SavedOK, Exported
    <3>4. s # None => s \in {adding, home'[n]} \/ \A k \in Names : home'[k] # s
      <4> SUFFICES ASSUME s # None, s # adding
                   PROVE  s = home'[n] \/ \A k \in Names : home'[k] # s
        OBVIOUS
      <4>1. s = home[n] \/ \A k \in Names : home[k] # s
        BY <3>1, <3>2 DEF SavedOK
      <4>2. s = home[n] => home'[n] = s
        BY <1>4
      <4>3. ASSUME NEW k \in Names, home[k] # s PROVE home'[k] # s
        BY <1>4, <4>3
      <4> QED
        BY <4>1, <4>2, <4>3
    <3>5. home'[n] \in Modules => home'[n] \in added /\ s # None
      BY <1>1, <1>4, <3>1, <3>2 DEF SavedOK
    <3>6. m_callCounts[n] # None => home'[n] \in Modules
      BY <1>1, <1>4, <3>2 DEF SavedOK
    <3>7. n \in Exported(adding)' => home'[n] = adding /\ s # None
      BY <1>1, <1>4, <3>1, <3>2 DEF SavedOK, Exported
    <3> QED
      BY <1>1, <1>4, <3>1, <3>2, <3>3, <3>4, <3>5, <3>6, <3>7 DEF SavedOK
  <2> QED
    BY <2>1 DEF SavedInv
<1> QED
  BY <1>3, <1>4 DEF AddLink

LEMMA AddEndSaved ==
    ASSUME TypeOK, Flight, SavedInv, AddSymbols \/ AddCounts
    PROVE  SavedInv'
<1>1. /\ adding \in Modules /\ adding # None /\ addPc \in {"symbols", "counts"} /\ 0 # None
      /\ None \notin Modules
      /\ \/ adding' = adding /\ addPc' = "counts" /\ UNCHANGED m_callCounts
         \/ /\ adding' = None
            /\ \A n \in Names : m_callCounts'[n] = IF n \in Exported(adding) THEN 0 ELSE m_callCounts[n]
      /\ UNCHANGED <<added, private, m_savedModules, home, promotedFrom>>
  BY ConstantsAssumption DEF AddSymbols, AddCounts, Flight, TypeOK, symbolVars, tierVars, cacheVars
<1>2. ASSUME NEW n \in Names PROVE SavedOK(n)'
  <2>1. SavedOK(n)
    BY DEF SavedInv
  <2>2. m_savedModules[n] = adding => home[n] = adding
    BY <1>1, <2>1 DEF SavedOK
  <2>3. n \in Exported(adding) => home[n] \in Modules
    BY <1>1, <2>1 DEF SavedOK
  <2> QED
    BY <1>1, <2>1, <2>2, <2>3 DEF SavedOK, Exported
<1> QED
  BY <1>2 DEF SavedInv

\* The steps of the threads: the host's definitions apart, ORC has what it had.
LEMMA CallSaved ==
    ASSUME TypeOK, SavedInv, UNCHANGED moduleVars,
           \A n \in Names : home'[n] = home[n] \/ (home[n] = None /\ home'[n] = Host),
           \A n \in Names : m_callCounts'[n] # None => m_callCounts[n] # None,
           \A n \in Names : promotedFrom'[n] \in {promotedFrom[n], m_savedModules[n]}
    PROVE  SavedInv'
<1>1. /\ UNCHANGED <<added, adding, addPc, private, m_savedModules>>
      /\ None \notin Modules /\ Host \notin Modules
  BY ConstantsAssumption DEF moduleVars
<1>2. ASSUME NEW n \in Names PROVE SavedOK(n)'
  <2>1. SavedOK(n) /\ m_savedModules[n] \in Modules \cup {None} /\ adding \in Modules \cup {None}
    BY DEF SavedInv, TypeOK
  <2>2. m_savedModules[n] # None /\ (\A k \in Names : home[k] # m_savedModules[n])
          => \A k \in Names : home'[k] # m_savedModules[n]
    BY <1>1, <2>1
  <2> QED
    BY <1>1, <2>1, <2>2 DEF SavedOK, Exported
<1> QED
  BY <1>2 DEF SavedInv

LEMMA NextSaved == TypeOK /\ Flight /\ SavedInv /\ [Next]_vars => SavedInv'
<1> SUFFICES ASSUME TypeOK, Flight, SavedInv, [Next]_vars PROVE SavedInv'
  OBVIOUS
<1>1. CASE AddStep
  BY <1>1, AddModuleSaved, AddCheckSaved, AddSaveSaved, AddLinkSaved, AddEndSaved DEF AddStep
<1>2. ASSUME NEW th \in Threads, CallStep(th) PROVE SavedInv'
  <2>1. CASE Resolve(th) \/ Fallback(th) \/ Store(th) \/ PromoteCheck(th) \/ PromoteOriginal(th)
             \/ PromoteSaved(th) \/ Redirect(th) \/ RegisterSymbol(th)
    BY <2>1, CallSaved DEF Resolve, Fallback, Store, PromoteCheck, PromoteOriginal, PromoteSaved,
       Redirect, RegisterSymbol, symbolVars, tierVars, cacheVars
  <2>2. CASE RegisterDefine(th)
    <3>1. \A n \in Names : home'[n] = home[n] \/ (home[n] = None /\ home'[n] = Host)
      BY <2>2 DEF RegisterDefine, TypeOK
    <3> QED
      BY <2>2, <3>1, CallSaved DEF RegisterDefine, tierVars, cacheVars
  <2>3. CASE Count(th)
    <3>1. \A n \in Names : m_callCounts'[n] # None => m_callCounts[n] # None
      BY <2>3 DEF Count, TypeOK
    <3> QED
      BY <2>3, <3>1, CallSaved DEF Count, symbolVars, tierVars
  <2>4. CASE PromoteLink(th)
    <3>1. \A n \in Names : promotedFrom'[n] \in {promotedFrom[n], m_savedModules[n]}
      BY <2>4 DEF PromoteLink, Promoted, TypeOK, tierVars
    <3> QED
      BY <2>4, <3>1, CallSaved DEF PromoteLink, symbolVars
  <2> QED
    BY <1>2, <2>1, <2>2, <2>3, <2>4 DEF CallStep
<1>3. ASSUME NEW th \in Threads, NEW n \in Names, Call(th, n) PROVE SavedInv'
  BY <1>3, CallSaved DEF Call, RegisterPointer, Lookup, PromoteCall, symbolVars, tierVars, cacheVars
<1>4. CASE ResetCallCounts
  BY <1>4, CallSaved DEF ResetCallCounts, symbolVars, tierVars
<1>5. CASE UNCHANGED vars
  BY <1>5, CallSaved DEF vars, symbolVars, tierVars, cacheVars
<1> QED
  BY <1>1, <1>2, <1>3, <1>4, <1>5 DEF Next

\* A function that is counted has its IR saved, and what promoteFunction
\* compiles is never a private duplicate: it is the definition the plain code
\* is of, or one of a module that was refused before (addModule and
\* promoteFunction of flux_jit.cpp).
THEOREM PromotesDefinitions == Spec => []PromotedFromDefinition
<1>1. TypeOK /\ SavedInv => PromotedFromDefinition
  <2> SUFFICES ASSUME TypeOK, SavedInv, NEW n \in Names
               PROVE  /\ m_callCounts[n] # None => m_savedModules[n] # None
                      /\ promotedFrom[n] # None /\ home[n] \in Modules =>
                           /\ n \in Exported(promotedFrom[n])
                           /\ promotedFrom[n] = home[n] \/ \A k \in Names : home[k] # promotedFrom[n]
    BY DEF PromotedFromDefinition
  <2>1. SavedOK(n)
    BY DEF SavedInv
  <2>2. m_savedModules[n] = adding /\ adding # None =>
           home[n] = adding \/ \A k \in Names : home[k] # adding
    BY <2>1 DEF SavedInv, SavedOK, TypeOK
  <2> QED
    BY <2>1, <2>2 DEF SavedOK
<1> QED
  BY <1>1, InitSaved, NextSaved, TypeCorrect, Tiers, PTL DEF Spec

=============================================================================
