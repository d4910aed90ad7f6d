--------------------------- MODULE JITEngineProofs ---------------------------
(***************************************************************************)
(* Proofs about JITEngine, for any scripts, any number of processes and    *)
(* any number of edits and deaths.                                         *)
(*                                                                         *)
(* EntryFitsKey needs that what a call has made or loaded is of the call's *)
(* script and at least as new as its key (CallInv).  RunsWhatItCompiled    *)
(* needs in addition that a process never gives two artifacts one number   *)
(* (NumberInv), wherever they have been stored since.                      *)
(***************************************************************************)
EXTENDS JITEngine, TLAPS

HasArt == {"types", "open", "write", "openTypes", "writeTypes"}

\* The locals of a call are those of its script and its key.
CallOK(p) ==
    pc[p] # "idle" =>
        /\ script[p] \in Scripts /\ key[p] \in Keys /\ key[p][1] = script[p]
        /\ begun[p] \in 0 .. MaxEvents /\ begun[p] <= library
        /\ leads[script[p]] => key[p][2] = begun[p]

ArtOK(p) ==
    pc[p] \in HasArt =>
        /\ art[p] \in Artifacts /\ art[p].script = script[p]
        /\ leads[script[p]] => art[p].library >= begun[p]

CountersOK == \A p \in Procs : anonCounter[p] <= compilations

CallInv == /\ TypeOK /\ CountersOK /\ EntryFitsKey
           /\ \A p \in Procs : CallOK(p) /\ ArtOK(p)

----------------------------------------------------------------------------
LEMMA InitCall == Init => CallInv
<1> SUFFICES ASSUME Init PROVE CallInv
  OBVIOUS
<1> USE ConstantsAssumption
<1>1. TypeOK
  <2>1. /\ library \in 0 .. MaxEvents
        /\ bc \in [Keys -> Artifacts \cup {None, Torn}]
        /\ meta \in [Keys -> Artifacts \cup {None, Empty}]
    BY DEF Init
  <2>2. /\ life \in [Procs -> Lives] /\ compilations \in 0 .. MaxCompilations
        /\ anonCounter \in [Procs -> 0 .. MaxCompilations]
    BY DEF Init, Lives
  <2>3. /\ linked \in [Procs -> [Anons -> Artifacts \cup {None}]]
        /\ m_lastAnonExprName \in [Procs -> Anons \cup {None}]
        /\ m_functionReturnTypes \in [Procs -> Artifacts \cup {Empty}]
    BY DEF Init, Fresh
  <2>4. /\ script \in [Procs -> Scripts \cup {None}]
        /\ key \in [Procs -> Keys \cup {None}]
        /\ begun \in [Procs -> 0 .. MaxEvents \cup {None}]
        /\ art \in [Procs -> Artifacts \cup {None}]
        /\ compiled \in [Procs -> [script : Scripts, begun : 0 .. MaxEvents] \cup {None}]
    BY DEF Init
  <2> QED
    BY <2>1, <2>2, <2>3, <2>4 DEF Init, TypeOK
<1>2. CountersOK /\ EntryFitsKey
  BY DEF Init, CountersOK, EntryFitsKey
<1>3. \A p \in Procs : CallOK(p) /\ ArtOK(p)
  BY DEF Init, CallOK, ArtOK, HasArt
<1> QED
  BY <1>1, <1>2, <1>3 DEF CallInv

\* What the locals of the other processes' calls are not touched by.
Other(p) == \A q \in Procs \ {p} :
                /\ pc'[q] = pc[q] /\ script'[q] = script[q] /\ key'[q] = key[q]
                /\ begun'[q] = begun[q] /\ art'[q] = art[q]

LEMMA OtherCalls ==
    ASSUME CallInv, NEW p \in Procs, Other(p), library' = library, CallOK(p)', ArtOK(p)'
    PROVE  \A q \in Procs : CallOK(q)' /\ ArtOK(q)'
<1>1. ASSUME NEW q \in Procs \ {p} PROVE CallOK(q)' /\ ArtOK(q)'
  BY DEF CallInv, CallOK, ArtOK, Other
<1> QED
  BY <1>1

\* The end of a call.
LEMMA DoneCall ==
    ASSUME CallInv, NEW p \in Procs, Done(p)
    PROVE  /\ pc' \in [Procs -> {"idle", "load", "types", "compile", "open", "write",
                                 "openTypes", "writeTypes"}]
           /\ script' \in [Procs -> Scripts \cup {None}]
           /\ key' \in [Procs -> Keys \cup {None}]
           /\ begun' \in [Procs -> 0 .. MaxEvents \cup {None}]
           /\ art' \in [Procs -> Artifacts \cup {None}]
           /\ pc'[p] = "idle" /\ Other(p) /\ CallOK(p)' /\ ArtOK(p)'
<1> USE DEF Done, Goto, CallInv, TypeOK
<1>1. /\ pc' \in [Procs -> {"idle", "load", "types", "compile", "open", "write",
                            "openTypes", "writeTypes"}]
      /\ script' \in [Procs -> Scripts \cup {None}]
      /\ key' \in [Procs -> Keys \cup {None}]
      /\ begun' \in [Procs -> 0 .. MaxEvents \cup {None}]
      /\ art' \in [Procs -> Artifacts \cup {None}]
  OBVIOUS
<1>2. pc'[p] = "idle" /\ Other(p)
  BY DEF Other
<1>3. CallOK(p)' /\ ArtOK(p)'
  BY <1>2 DEF CallOK, ArtOK, HasArt
<1> QED
  BY <1>1, <1>2, <1>3

LEMMA LinkCall ==
    ASSUME CallInv, NEW p \in Procs, NEW a \in Artifacts, Link(p, a), pc[p] # "idle"
    PROVE  /\ linked' \in [Procs -> [Anons -> Artifacts \cup {None}]]
           /\ m_lastAnonExprName' \in [Procs -> Anons \cup {None}]
           /\ compiled' \in [Procs -> [script : Scripts, begun : 0 .. MaxEvents] \cup {None}]
<1>1. a.anon \in Anons
  BY DEF Artifacts
<1>2. script[p] \in Scripts /\ begun[p] \in 0 .. MaxEvents
  BY DEF CallInv, CallOK
<1>3. linked' \in [Procs -> [Anons -> Artifacts \cup {None}]]
  BY <1>1 DEF Link, CallInv, TypeOK
<1> QED
  BY <1>1, <1>2, <1>3 DEF Link, CallInv, TypeOK

----------------------------------------------------------------------------
LEMMA CompileScriptCall ==
    ASSUME CallInv, NEW p \in Procs, NEW s \in Scripts, CompileScript(p, s)
    PROVE  CallInv'
<1> DEFINE k == <<s, IF leads[s] THEN library ELSE 0>>
<1>1. k \in Keys /\ library \in 0 .. MaxEvents
  BY ConstantsAssumption DEF CallInv, TypeOK, Keys
<1>2. /\ script' = [script EXCEPT ![p] = s] /\ key' = [key EXCEPT ![p] = k]
      /\ begun' = [begun EXCEPT ![p] = library] /\ compiled' = [compiled EXCEPT ![p] = None]
      /\ pc' = [pc EXCEPT ![p] = IF m_cacheEnabled[p] /\ bc[k] # None THEN "load" ELSE "compile"]
      /\ UNCHANGED <<library, bc, meta, life, m_cacheEnabled, compilations, anonCounter, linked,
                     m_lastAnonExprName, m_functionReturnTypes, art, fd, foreign>>
  BY DEF CompileScript, Goto, files, engine
<1>3. TypeOK'
  BY <1>1, <1>2 DEF CallInv, TypeOK
<1>4. Other(p)
  BY <1>2 DEF Other, CallInv, TypeOK
<1>5. /\ pc'[p] \in {"load", "compile"} /\ script'[p] = s /\ key'[p] = k /\ begun'[p] = library
      /\ library' = library
  BY <1>2 DEF CallInv, TypeOK
<1>6. CallOK(p)' /\ ArtOK(p)'
  BY <1>1, <1>5 DEF CallOK, ArtOK, HasArt
<1>7. CountersOK' /\ EntryFitsKey'
  BY <1>2 DEF CallInv, CountersOK, EntryFitsKey
<1> QED
  BY <1>2, <1>3, <1>4, <1>6, <1>7, OtherCalls DEF CallInv

\* Files removed leave those that fit.
LEMMA RemoveCall ==
    ASSUME CallInv, NEW K, Remove(K)
    PROVE  /\ bc' \in [Keys -> Artifacts \cup {None, Torn}]
           /\ meta' \in [Keys -> Artifacts \cup {None, Empty}]
           /\ fd' \in [Procs -> BOOLEAN]
           /\ EntryFitsKey'
<1>1. /\ bc' \in [Keys -> Artifacts \cup {None, Torn}]
      /\ meta' \in [Keys -> Artifacts \cup {None, Empty}]
  BY DEF Remove, CallInv, TypeOK
<1>2. fd' \in [Procs -> BOOLEAN]
  BY DEF Remove, CallInv, TypeOK
<1>3. EntryFitsKey'
  BY DEF Remove, CallInv, EntryFitsKey
<1> QED
  BY <1>1, <1>2, <1>3

LEMMA LoadBitcodeCall ==
    ASSUME CallInv, NEW p \in Procs, LoadBitcode(p)
    PROVE  CallInv'
<1>1. /\ pc[p] = "load" /\ key[p] \in Keys /\ key[p][1] = script[p]
      /\ leads[script[p]] => key[p][2] = begun[p]
  BY DEF LoadBitcode, CallInv, CallOK
<1>2. UNCHANGED <<library, engine, script, key, begun, compiled>>
  BY DEF LoadBitcode
<1>3. CASE bc[key[p]] \in {None, Torn}
  <2>1. Remove({key[p]}) /\ pc' = [pc EXCEPT ![p] = "compile"] /\ UNCHANGED <<art, foreign>>
    BY <1>3 DEF LoadBitcode, Goto
  <2>2. /\ bc' \in [Keys -> Artifacts \cup {None, Torn}]
        /\ meta' \in [Keys -> Artifacts \cup {None, Empty}]
        /\ fd' \in [Procs -> BOOLEAN]
        /\ EntryFitsKey'
    BY <2>1, RemoveCall
  <2>3. TypeOK'
    BY <1>2, <2>1, <2>2 DEF CallInv, TypeOK, engine
  <2>4. Other(p) /\ pc'[p] = "compile"
    BY <1>2, <2>1 DEF Other, CallInv, TypeOK
  <2>5. CallOK(p)' /\ ArtOK(p)'
    BY <1>1, <1>2, <2>4 DEF CallInv, CallOK, ArtOK, HasArt
  <2>6. CountersOK'
    BY <1>2 DEF CallInv, CountersOK, engine
  <2> QED
    BY <1>2, <2>2, <2>3, <2>4, <2>5, <2>6, OtherCalls DEF CallInv
<1>4. CASE bc[key[p]] \notin {None, Torn}
  <2>1. /\ art' = [art EXCEPT ![p] = bc[key[p]]] /\ pc' = [pc EXCEPT ![p] = "types"]
        /\ foreign' = [foreign EXCEPT ![p] = @ \/ bc[key[p]].by # <<p, life[p]>>]
        /\ UNCHANGED <<bc, meta, fd>>
    BY <1>4 DEF LoadBitcode, Goto
  <2>2. bc[key[p]] \in Artifacts
    BY <1>1, <1>4 DEF CallInv, TypeOK
  <2>3. foreign' \in [Procs -> BOOLEAN]
    BY <2>1 DEF CallInv, TypeOK
  <2>4. TypeOK'
    BY <1>2, <2>1, <2>2, <2>3 DEF CallInv, TypeOK, engine
  <2>5. Other(p) /\ pc'[p] = "types" /\ art'[p] = bc[key[p]]
    BY <1>2, <2>1 DEF Other, CallInv, TypeOK
  <2>6. /\ bc[key[p]].script = script[p]
        /\ leads[script[p]] => bc[key[p]].library >= begun[p]
    BY <1>1, <1>4 DEF CallInv, EntryFitsKey
  <2>7. CallOK(p)' /\ ArtOK(p)'
    BY <1>1, <1>2, <2>2, <2>5, <2>6 DEF CallInv, CallOK, ArtOK, HasArt
  <2>8. CountersOK' /\ EntryFitsKey'
    BY <1>2, <2>1 DEF CallInv, CountersOK, EntryFitsKey, engine
  <2> QED
    BY <1>2, <2>4, <2>5, <2>7, <2>8, OtherCalls DEF CallInv
<1> QED
  BY <1>3, <1>4

LEMMA LoadTypesCall ==
    ASSUME CallInv, NEW p \in Procs, LoadTypes(p)
    PROVE  CallInv'
<1>1. pc[p] = "types" /\ key[p] \in Keys /\ art[p] \in Artifacts /\ Link(p, art[p])
  BY DEF LoadTypes, CallInv, CallOK, ArtOK, HasArt
<1>2. Done(p)
  BY <1>1 DEF Link
<1>3. UNCHANGED <<library, bc, meta, life, m_cacheEnabled, compilations, anonCounter, fd, foreign>>
  BY DEF LoadTypes, files, history
<1>4. m_functionReturnTypes' \in [Procs -> Artifacts \cup {Empty}]
  BY <1>1 DEF LoadTypes, CallInv, TypeOK
<1>5. TypeOK'
  BY <1>1, <1>2, <1>3, <1>4, LinkCall, DoneCall DEF CallInv, TypeOK
<1>6. CountersOK' /\ EntryFitsKey'
  BY <1>3 DEF CallInv, CountersOK, EntryFitsKey
<1> QED
  BY <1>2, <1>3, <1>5, <1>6, DoneCall, OtherCalls DEF CallInv

\* What compileToIR makes.
Made(p) == [script |-> script[p], library |-> library,
            anon |-> anonCounter[p], by |-> <<p, life[p]>>]

LEMMA MadeType ==
    ASSUME CallInv, NEW p \in Procs, pc[p] = "compile", compilations < MaxCompilations
    PROVE  /\ Made(p) \in Artifacts /\ Made(p).script = script[p]
           /\ Made(p).library = library /\ begun[p] <= library
<1>1. script[p] \in Scripts /\ begun[p] <= library
  BY DEF CallInv, CallOK
<1>2. anonCounter[p] \in Anons
  BY ConstantsAssumption DEF CallInv, TypeOK, CountersOK, Anons
<1> QED
  BY <1>1, <1>2 DEF Made, Artifacts, CallInv, TypeOK

LEMMA CompileCall ==
    ASSUME CallInv, NEW p \in Procs, Compile(p)
    PROVE  CallInv'
<1> DEFINE a == Made(p)
<1>1. /\ pc[p] = "compile" /\ compilations < MaxCompilations
      /\ compilations' = compilations + 1
      /\ anonCounter' = [anonCounter EXCEPT ![p] = @ + 1]
      /\ m_functionReturnTypes' = [m_functionReturnTypes EXCEPT ![p] = a]
      /\ UNCHANGED <<library, bc, meta, life, m_cacheEnabled, fd, foreign>>
  BY DEF Compile, Made, files, history
<1>2. a \in Artifacts /\ a.script = script[p] /\ a.library = library /\ begun[p] <= library
  BY <1>1, MadeType
<1>3. /\ compilations' \in 0 .. MaxCompilations
      /\ anonCounter' \in [Procs -> 0 .. MaxCompilations]
      /\ m_functionReturnTypes' \in [Procs -> Artifacts \cup {Empty}]
      /\ CountersOK'
  <2>1. anonCounter[p] + 1 \in 0 .. MaxCompilations /\ compilations' \in 0 .. MaxCompilations
    BY <1>1, ConstantsAssumption DEF CallInv, TypeOK, CountersOK
  <2>2. CountersOK'
    BY <1>1, ConstantsAssumption DEF CallInv, TypeOK, CountersOK
  <2> QED
    BY <1>1, <1>2, <2>1, <2>2 DEF CallInv, TypeOK
<1>4. EntryFitsKey'
  BY <1>1 DEF CallInv, EntryFitsKey
<1>5. CASE m_cacheEnabled[p]
  <2>1. /\ art' = [art EXCEPT ![p] = a] /\ pc' = [pc EXCEPT ![p] = "open"]
        /\ UNCHANGED <<linked, m_lastAnonExprName, script, key, begun, compiled>>
    BY <1>5 DEF Compile, Made, Goto
  <2>2. TypeOK'
    BY <1>1, <1>2, <1>3, <2>1 DEF CallInv, TypeOK
  <2>3. Other(p) /\ pc'[p] = "open" /\ art'[p] = a
    BY <2>1 DEF Other, CallInv, TypeOK
  <2>4. CallOK(p)' /\ ArtOK(p)'
    BY <1>1, <1>2, <2>1, <2>3 DEF CallInv, CallOK, ArtOK
  <2> QED
    BY <1>1, <1>3, <1>4, <2>2, <2>3, <2>4, OtherCalls DEF CallInv
<1>6. CASE ~m_cacheEnabled[p]
  <2>1. Link(p, a) /\ Done(p)
    BY <1>6 DEF Compile, Made, Link
  <2>2. TypeOK'
    BY <1>1, <1>2, <1>3, <2>1, LinkCall, DoneCall DEF CallInv, TypeOK
  <2> QED
    BY <1>1, <1>3, <1>4, <2>1, <2>2, DoneCall, OtherCalls DEF CallInv
<1> QED
  BY <1>5, <1>6

LEMMA CompileFailsCall ==
    ASSUME CallInv, NEW p \in Procs, CompileFails(p)
    PROVE  CallInv'
<1>1. /\ compilations < MaxCompilations /\ compilations' = compilations + 1 /\ Done(p)
      /\ UNCHANGED <<library, bc, meta, life, m_cacheEnabled, linked, m_lastAnonExprName,
                     m_functionReturnTypes, fd, compiled, foreign>>
  BY DEF CompileFails, files, history
<1>2. PICK n \in 0 .. 1 : anonCounter' = [anonCounter EXCEPT ![p] = @ + n]
  BY DEF CompileFails
<1>3. anonCounter[p] + n \in 0 .. MaxCompilations /\ compilations' \in 0 .. MaxCompilations
  BY <1>1, ConstantsAssumption DEF CallInv, TypeOK, CountersOK
<1>4. anonCounter' \in [Procs -> 0 .. MaxCompilations] /\ CountersOK'
  BY <1>1, <1>2, <1>3, ConstantsAssumption DEF CallInv, TypeOK, CountersOK
<1>5. TypeOK'
  BY <1>1, <1>3, <1>4, DoneCall DEF CallInv, TypeOK
<1>6. EntryFitsKey'
  BY <1>1 DEF CallInv, EntryFitsKey
<1> QED
  BY <1>1, <1>4, <1>5, <1>6, DoneCall, OtherCalls DEF CallInv

----------------------------------------------------------------------------
\* A process at one of its files.
LEMMA FileCall ==
    ASSUME CallInv, NEW p \in Procs, NEW l \in HasArt, pc[p] \in HasArt, Goto(p, l),
           UNCHANGED <<library, engine, call, compiled, history>>,
           bc' \in [Keys -> Artifacts \cup {None, Torn}],
           meta' \in [Keys -> Artifacts \cup {None, Empty}],
           fd' \in [Procs -> BOOLEAN], EntryFitsKey'
    PROVE  CallInv'
<1>1. UNCHANGED <<script, key, begun, art, foreign>>
  BY DEF call, history
<1>2. pc'[p] = l /\ Other(p)
  BY <1>1 DEF Goto, Other, CallInv, TypeOK
<1>3. TypeOK'
  BY <1>1 DEF Goto, CallInv, TypeOK, engine, HasArt
<1>4. CountersOK'
  BY DEF CallInv, CountersOK, engine
<1>5. CallOK(p)' /\ ArtOK(p)'
  BY <1>1, <1>2 DEF CallInv, CallOK, ArtOK, HasArt
<1> QED
  BY <1>2, <1>3, <1>4, <1>5, OtherCalls DEF CallInv

LEMMA OpenBitcodeCall ==
    ASSUME CallInv, NEW p \in Procs, OpenBitcode(p)
    PROVE  CallInv'
<1>1. bc' \in [Keys -> Artifacts \cup {None, Torn}] /\ fd' \in [Procs -> BOOLEAN]
  BY DEF OpenBitcode, CallInv, TypeOK
<1>2. EntryFitsKey'
  BY DEF OpenBitcode, CallInv, TypeOK, EntryFitsKey
<1> QED
  BY <1>1, <1>2, FileCall DEF OpenBitcode, HasArt, CallInv, TypeOK

LEMMA WriteBitcodeCall ==
    ASSUME CallInv, NEW p \in Procs, WriteBitcode(p)
    PROVE  CallInv'
<1>1. /\ key[p] \in Keys /\ key[p][1] = script[p] /\ begun[p] \in Nat
      /\ leads[script[p]] => key[p][2] = begun[p]
      /\ art[p] \in Artifacts /\ art[p].script = script[p]
      /\ leads[script[p]] => art[p].library >= begun[p]
  BY ConstantsAssumption DEF WriteBitcode, CallInv, CallOK, ArtOK, HasArt
<1>2. bc' \in [Keys -> Artifacts \cup {None, Torn}] /\ fd' \in [Procs -> BOOLEAN]
  BY <1>1 DEF WriteBitcode, CallInv, TypeOK
<1>3. EntryFitsKey'
  <2>1. CASE bc' = bc
    BY <2>1 DEF CallInv, EntryFitsKey
  <2>2. CASE bc' = [bc EXCEPT ![key[p]] = art[p]]
    BY <1>1, <2>2 DEF CallInv, TypeOK, EntryFitsKey
  <2> QED
    BY <2>1, <2>2 DEF WriteBitcode
<1> QED
  BY <1>2, <1>3, FileCall DEF WriteBitcode, HasArt, CallInv, TypeOK

LEMMA OpenTypesCall ==
    ASSUME CallInv, NEW p \in Procs, OpenTypes(p)
    PROVE  CallInv'
<1>1. meta' \in [Keys -> Artifacts \cup {None, Empty}] /\ fd' \in [Procs -> BOOLEAN]
  BY DEF OpenTypes, CallInv, TypeOK
<1>2. EntryFitsKey'
  BY DEF OpenTypes, CallInv, EntryFitsKey
<1> QED
  BY <1>1, <1>2, FileCall DEF OpenTypes, HasArt, CallInv, TypeOK

LEMMA WriteTypesCall ==
    ASSUME CallInv, NEW p \in Procs, WriteTypes(p)
    PROVE  CallInv'
<1>1. pc[p] = "writeTypes" /\ art[p] \in Artifacts /\ Link(p, art[p])
  BY DEF WriteTypes, CallInv, ArtOK, HasArt
<1>2. Done(p)
  BY <1>1 DEF Link
<1>3. UNCHANGED <<library, bc, life, m_cacheEnabled, compilations, anonCounter,
                 m_functionReturnTypes, foreign>>
  BY DEF WriteTypes, history
<1>4. meta' \in [Keys -> Artifacts \cup {None, Empty}] /\ fd' \in [Procs -> BOOLEAN]
  BY <1>1 DEF WriteTypes, CallInv, TypeOK
<1>5. TypeOK'
  BY <1>1, <1>2, <1>3, <1>4, LinkCall, DoneCall DEF CallInv, TypeOK
<1>6. CountersOK' /\ EntryFitsKey'
  BY <1>3 DEF CallInv, CountersOK, EntryFitsKey
<1> QED
  BY <1>2, <1>3, <1>5, <1>6, DoneCall, OtherCalls DEF CallInv

----------------------------------------------------------------------------
\* An action that leaves every call where it is.
LEMMA CallsStay ==
    ASSUME CallInv, UNCHANGED <<pc, script, key, begun, art>>, library' \in Nat,
           library' >= library
    PROVE  \A q \in Procs : CallOK(q)' /\ ArtOK(q)'
<1>1. library \in Nat
  BY ConstantsAssumption DEF CallInv, TypeOK
<1>2. ASSUME NEW q \in Procs PROVE CallOK(q)' /\ ArtOK(q)'
  <2>1. CallOK(q)'
    BY <1>1, ConstantsAssumption DEF CallInv, CallOK
  <2>2. ArtOK(q)'
    BY DEF CallInv, ArtOK
  <2> QED
    BY <2>1, <2>2
<1> QED
  BY <1>2

LEMMA RestCall ==
    ASSUME CallInv,
           \/ \E p \in Procs : Reinitialize(p) \/ \E e \in BOOLEAN : SetJITCacheEnabled(p, e)
           \/ ClearJITCache \/ Edit
    PROVE  CallInv'
<1>1. library \in Nat
  BY ConstantsAssumption DEF CallInv, TypeOK
<1>2. ASSUME NEW p \in Procs, Reinitialize(p) PROVE CallInv'
  <2>1. linked' \in [Procs -> [Anons -> Artifacts \cup {None}]]
    BY <1>2 DEF Reinitialize, Fresh, CallInv, TypeOK
  <2>2. TypeOK'
    BY <1>2, <2>1 DEF Reinitialize, CallInv, TypeOK, files, call, history
  <2>3. CountersOK' /\ EntryFitsKey'
    BY <1>2 DEF Reinitialize, CallInv, CountersOK, EntryFitsKey, files
  <2> QED
    BY <1>1, <1>2, <2>2, <2>3, CallsStay DEF Reinitialize, CallInv, call, files
<1>3. ASSUME NEW p \in Procs, NEW e \in BOOLEAN, SetJITCacheEnabled(p, e) PROVE CallInv'
  <2>1. TypeOK'
    BY <1>3 DEF SetJITCacheEnabled, CallInv, TypeOK, files, call, history
  <2>2. CountersOK' /\ EntryFitsKey'
    BY <1>3 DEF SetJITCacheEnabled, CallInv, CountersOK, EntryFitsKey, files
  <2> QED
    BY <1>1, <1>3, <2>1, <2>2, CallsStay DEF SetJITCacheEnabled, CallInv, call, files
<1>4. CASE ClearJITCache
  <2>1. TypeOK'
    BY <1>4, RemoveCall DEF ClearJITCache, CallInv, TypeOK, engine, call
  <2>2. CountersOK' /\ EntryFitsKey'
    BY <1>4, RemoveCall DEF ClearJITCache, CallInv, CountersOK, engine
  <2> QED
    BY <1>1, <1>4, <2>1, <2>2, CallsStay DEF ClearJITCache, CallInv, call
<1>5. CASE Edit
  <2>1. library' \in 0 .. MaxEvents /\ library' >= library
    BY <1>5, ConstantsAssumption DEF Edit, CallInv, TypeOK, Lives
  <2>2. TypeOK'
    BY <1>5, <2>1 DEF Edit, CallInv, TypeOK, engine, call, history
  <2>3. CountersOK' /\ EntryFitsKey'
    BY <1>5 DEF Edit, CallInv, CountersOK, EntryFitsKey, engine
  <2> QED
    BY <1>1, <1>5, <2>1, <2>2, <2>3, CallsStay, ConstantsAssumption DEF Edit, CallInv, call
<1> QED
  BY <1>2, <1>3, <1>4, <1>5

LEMMA RestartCall ==
    ASSUME CallInv, NEW p \in Procs, Restart(p)
    PROVE  CallInv'
<1>1. Done(p) /\ UNCHANGED <<library, bc, meta, compilations>>
  BY DEF Restart, files
<1>2. linked' \in [Procs -> [Anons -> Artifacts \cup {None}]]
  BY DEF Restart, Fresh, CallInv, TypeOK
<1>3. life' \in [Procs -> Lives] /\ anonCounter' \in [Procs -> 0 .. MaxCompilations]
  BY ConstantsAssumption DEF Restart, CallInv, TypeOK, Lives
<1>4. /\ m_cacheEnabled' \in [Procs -> BOOLEAN] /\ fd' \in [Procs -> BOOLEAN]
      /\ m_lastAnonExprName' \in [Procs -> Anons \cup {None}]
      /\ m_functionReturnTypes' \in [Procs -> Artifacts \cup {Empty}]
      /\ compiled' \in [Procs -> [script : Scripts, begun : 0 .. MaxEvents] \cup {None}]
      /\ foreign' \in [Procs -> BOOLEAN]
  BY DEF Restart, CallInv, TypeOK
<1>5. TypeOK'
  BY <1>1, <1>2, <1>3, <1>4, DoneCall DEF CallInv, TypeOK
<1>6. CountersOK' /\ EntryFitsKey'
  BY <1>1, ConstantsAssumption DEF Restart, CallInv, TypeOK, CountersOK, EntryFitsKey
<1> QED
  BY <1>1, <1>5, <1>6, DoneCall, OtherCalls DEF CallInv

LEMMA NextCall == CallInv /\ [Next]_vars => CallInv'
<1> SUFFICES ASSUME CallInv, [Next]_vars PROVE CallInv'
  OBVIOUS
<1>1. ASSUME NEW p \in Procs, Step(p) PROVE CallInv'
  BY <1>1, CompileScriptCall, LoadBitcodeCall, LoadTypesCall, CompileCall, CompileFailsCall,
     OpenBitcodeCall, WriteBitcodeCall, OpenTypesCall, WriteTypesCall, RestCall, RestartCall
     DEF Step
<1>2. CASE UNCHANGED vars
  <2>1. UNCHANGED <<files, engine, pc, script, key, begun, art, fd, compiled, foreign>>
    BY <1>2 DEF vars, call, history
  <2>2. TypeOK' /\ CountersOK' /\ EntryFitsKey'
    BY <2>1 DEF CallInv, TypeOK, CountersOK, EntryFitsKey, files, engine
  <2> QED
    BY <2>1, <2>2, CallsStay, ConstantsAssumption DEF CallInv, TypeOK, files
<1> QED
  BY <1>1, <1>2, RestCall DEF Next

\* Every variable has its type, in whatever order processes compile, die and
\* clear the cache (compileScript of jit_engine.cpp).
THEOREM TypeCorrect == Spec => []TypeOK
<1>1. CallInv => TypeOK
  BY DEF CallInv
<1> QED
  BY <1>1, InitCall, NextCall, PTL DEF Spec

\* No race for a key, and no death at it, leaves the code of another script in
\* a bitcode file, or code made before an edit its key covers (computeCacheKey
\* and saveBitcodeToFile of tooling.cpp).
THEOREM EntriesFit == Spec => []EntryFitsKey
<1>1. CallInv => EntryFitsKey
  BY DEF CallInv
<1> QED
  BY <1>1, InitCall, NextCall, PTL DEF Spec

----------------------------------------------------------------------------
\* The artifact x is in a file, on its way to one, or linked.
Stored(x) ==
    \/ \E k \in Keys : bc[k] = x
    \/ \E q \in Procs : art[q] = x
    \/ \E q \in Procs, n \in Anons : linked[q][n] = x

Numbered ==
    \A x \in Artifacts, q \in Procs :
        Stored(x) /\ x.by[1] = q =>
            /\ x.by[2] <= life[q]
            /\ x.by[2] = life[q] => x.anon < anonCounter[q]

Unique ==
    \A x, y \in Artifacts :
        Stored(x) /\ Stored(y) /\ x.by = y.by /\ x.anon = y.anon => x = y

NumberInv == Numbered /\ Unique

\* A process that has loaded no other's bitcode has its own code linked, each
\* under its number.
Own(p) ==
    ~foreign[p] =>
        /\ pc[p] \in HasArt => art[p].by = <<p, life[p]>>
        /\ \A n \in Anons : linked[p][n] # None =>
               linked[p][n].anon = n /\ linked[p][n].by = <<p, life[p]>>

RunsOK(p) ==
    compiled[p] # None /\ ~foreign[p] =>
        /\ CodeRun(p) # None
        /\ CodeRun(p).script = compiled[p].script
        /\ leads[compiled[p].script] => CodeRun(p).library >= compiled[p].begun

RunInv == NumberInv /\ \A p \in Procs : Own(p) /\ RunsOK(p)

----------------------------------------------------------------------------
\* An action that stores nothing new.
LEMMA OldNumbers ==
    ASSUME CallInv, NumberInv, life' = life,
           \A q \in Procs : anonCounter'[q] \in Nat /\ anonCounter'[q] >= anonCounter[q],
           \A x \in Artifacts : Stored(x)' => Stored(x)
    PROVE  NumberInv'
<1>1. Numbered'
  <2> SUFFICES ASSUME NEW x \in Artifacts, NEW q \in Procs, Stored(x)', x.by[1] = q
               PROVE  x.by[2] <= life'[q] /\ (x.by[2] = life'[q] => x.anon < anonCounter'[q])
    BY DEF Numbered
  <2>1. x.by[2] <= life[q] /\ (x.by[2] = life[q] => x.anon < anonCounter[q])
    BY DEF NumberInv, Numbered
  <2>2. x.anon \in Nat /\ anonCounter[q] \in Nat
    BY ConstantsAssumption DEF Artifacts, Anons, CallInv, TypeOK
  <2> QED
    BY <2>1, <2>2
<1>2. Unique'
  BY DEF NumberInv, Unique
<1> QED
  BY <1>1, <1>2 DEF NumberInv

\* A process starts again: its earlier artifacts are of an earlier life.
LEMMA RestartNumbers ==
    ASSUME CallInv, NumberInv, NEW p \in Procs, Restart(p)
    PROVE  NumberInv'
<1>1. ASSUME NEW x \in Artifacts, Stored(x)' PROVE Stored(x)
  <2>1. x # None
    BY ArtifactsAssumption
  <2> QED
    BY <1>1, <2>1 DEF Restart, Done, Fresh, Stored, files, CallInv, TypeOK
<1>2. /\ life' = [life EXCEPT ![p] = @ + 1]
      /\ anonCounter' = [anonCounter EXCEPT ![p] = 0]
  BY DEF Restart
<1>3. Numbered'
  <2> SUFFICES ASSUME NEW x \in Artifacts, NEW q \in Procs, Stored(x)', x.by[1] = q
               PROVE  x.by[2] <= life'[q] /\ (x.by[2] = life'[q] => x.anon < anonCounter'[q])
    BY DEF Numbered
  <2>1. x.by[2] <= life[q] /\ (x.by[2] = life[q] => x.anon < anonCounter[q])
    BY <1>1 DEF NumberInv, Numbered
  <2>2. x.by[2] \in Nat /\ life[q] \in Nat
    BY ConstantsAssumption DEF Artifacts, Lives, CallInv, TypeOK
  <2>3. CASE q = p
    BY <1>2, <2>1, <2>2, <2>3 DEF CallInv, TypeOK
  <2>4. CASE q # p
    BY <1>2, <2>1, <2>2, <2>4 DEF CallInv, TypeOK
  <2> QED
    BY <2>3, <2>4
<1>4. Unique'
  BY <1>1 DEF NumberInv, Unique
<1> QED
  BY <1>3, <1>4 DEF NumberInv

\* A compilation stores an artifact with a number of its own.
LEMMA CompileNumbers ==
    ASSUME CallInv, NumberInv, NEW p \in Procs, Compile(p)
    PROVE  NumberInv'
<1> DEFINE a == Made(p)
<1>1. /\ pc[p] = "compile" /\ compilations < MaxCompilations
      /\ anonCounter' = [anonCounter EXCEPT ![p] = @ + 1]
      /\ UNCHANGED <<bc, life>>
  BY DEF Compile, files
<1>2. a \in Artifacts /\ a.by = <<p, life[p]>> /\ a.anon = anonCounter[p] /\ a.anon \in Anons
  BY <1>1, MadeType DEF Made, Artifacts
<1>3. ASSUME NEW x \in Artifacts, Stored(x)' PROVE Stored(x) \/ x = a
  <2>1. x # None
    BY ArtifactsAssumption
  <2>2. CASE m_cacheEnabled[p]
    <3>1. art' = [art EXCEPT ![p] = a] /\ UNCHANGED linked
      BY <2>2 DEF Compile, Made
    <3> QED
      BY <1>1, <1>3, <3>1 DEF Stored, CallInv, TypeOK
  <2>3. CASE ~m_cacheEnabled[p]
    <3>1. /\ art' = [art EXCEPT ![p] = None]
          /\ linked' = [linked EXCEPT ![p][a.anon] = IF @ = None THEN a ELSE @]
      BY <2>3 DEF Compile, Made, Link, Done
    <3>2. ASSUME NEW q \in Procs, NEW n \in Anons
          PROVE  linked'[q][n] \in {linked[q][n], a}
      BY <1>2, <3>1 DEF CallInv, TypeOK
    <3> QED
      BY <1>1, <1>3, <2>1, <3>1, <3>2 DEF Stored, CallInv, TypeOK
  <2> QED
    BY <2>2, <2>3
<1>4. anonCounter[p] \in Nat /\ life[p] \in Nat
  BY ConstantsAssumption DEF CallInv, TypeOK, Lives
<1>5. Numbered'
  <2> SUFFICES ASSUME NEW x \in Artifacts, NEW q \in Procs, Stored(x)', x.by[1] = q
               PROVE  x.by[2] <= life'[q] /\ (x.by[2] = life'[q] => x.anon < anonCounter'[q])
    BY DEF Numbered
  <2>1. CASE x = a
    BY <1>1, <1>2, <1>4, <2>1 DEF CallInv, TypeOK
  <2>2. CASE x # a
    <3>1. x.by[2] <= life[q] /\ (x.by[2] = life[q] => x.anon < anonCounter[q])
      BY <1>3, <2>2 DEF NumberInv, Numbered
    <3>2. x.anon \in Nat /\ anonCounter[q] \in Nat
      BY ConstantsAssumption DEF Artifacts, Anons, CallInv, TypeOK
    <3>3. life' = life /\ anonCounter'[q] \in Nat /\ anonCounter'[q] >= anonCounter[q]
      BY <1>1, <1>4, <3>2 DEF CallInv, TypeOK
    <3> QED
      BY <3>1, <3>2, <3>3
  <2> QED
    BY <2>1, <2>2
<1>6. Unique'
  <2>1. ASSUME NEW x \in Artifacts, Stored(x), x.by = a.by PROVE x.anon # a.anon
    BY <1>2, <1>4, <2>1 DEF NumberInv, Numbered
  <2> QED
    BY <1>2, <1>3, <2>1 DEF NumberInv, Unique
<1> QED
  BY <1>5, <1>6 DEF NumberInv

\* The actions that move artifacts about, or drop them.
LEMMA MoveNumbers ==
    ASSUME CallInv, NumberInv, CallInv', NEW p \in Procs,
           \/ \E s \in Scripts : CompileScript(p, s)
           \/ LoadBitcode(p) \/ LoadTypes(p) \/ CompileFails(p)
           \/ OpenBitcode(p) \/ WriteBitcode(p) \/ OpenTypes(p) \/ WriteTypes(p)
           \/ Reinitialize(p) \/ (\E e \in BOOLEAN : SetJITCacheEnabled(p, e))
           \/ ClearJITCache \/ Edit
    PROVE  NumberInv'
<1>1. life' = life
  BY DEF CompileScript, LoadBitcode, LoadTypes, CompileFails, OpenBitcode, WriteBitcode,
         OpenTypes, WriteTypes, Reinitialize, SetJITCacheEnabled, ClearJITCache, Edit, engine
<1>2. ASSUME NEW q \in Procs
      PROVE  anonCounter'[q] \in Nat /\ anonCounter'[q] >= anonCounter[q]
  <2>1. anonCounter[q] \in Nat /\ anonCounter'[q] \in Nat
    BY ConstantsAssumption DEF CallInv, TypeOK
  <2>2. CASE CompileFails(p)
    BY <2>1, <2>2 DEF CompileFails, CallInv, TypeOK
  <2>3. CASE ~CompileFails(p)
    <3>1. anonCounter' = anonCounter
      BY <2>3 DEF CompileScript, LoadBitcode, LoadTypes, OpenBitcode, WriteBitcode,
         OpenTypes, WriteTypes, Reinitialize, SetJITCacheEnabled, ClearJITCache, Edit, engine
    <3> QED
      BY <2>1, <3>1
  <2> QED
    BY <2>2, <2>3
<1>3. ASSUME NEW x \in Artifacts, Stored(x)' PROVE Stored(x)
  <2> USE <1>3, ArtifactsAssumption DEF Stored, CallInv, TypeOK
  <2>1. x # None /\ x # Torn
    OBVIOUS
  <2>2. ASSUME NEW s \in Scripts, CompileScript(p, s) PROVE Stored(x)
    BY <2>2 DEF CompileScript, files, engine
  <2>3. CASE LoadBitcode(p)
    <3>1. key[p] \in Keys /\ linked' = linked
      BY <2>3 DEF LoadBitcode, engine, CallOK
    <3>2. CASE bc[key[p]] \in {None, Torn}
      BY <2>1, <2>3, <3>1, <3>2 DEF LoadBitcode, Remove
    <3>3. CASE bc[key[p]] \notin {None, Torn}
      BY <2>3, <3>1, <3>3 DEF LoadBitcode
    <3> QED
      BY <3>2, <3>3
  <2>4. CASE LoadTypes(p) \/ WriteTypes(p)
    <3>1. art[p] \in Artifacts /\ Link(p, art[p]) /\ UNCHANGED bc
      BY <2>4 DEF LoadTypes, WriteTypes, files, ArtOK, HasArt
    <3>2. art[p].anon \in Anons
      BY <3>1 DEF Artifacts
    <3>3. ASSUME NEW q \in Procs, NEW n \in Anons
          PROVE  linked'[q][n] \in {linked[q][n], art[p]}
      BY <3>1, <3>2 DEF Link
    <3>4. art' = [art EXCEPT ![p] = None]
      BY <3>1 DEF Link, Done
    <3> QED
      BY <2>1, <3>1, <3>3, <3>4
  <2>5. CASE CompileFails(p)
    BY <2>1, <2>5 DEF CompileFails, Done, files
  <2>6. CASE OpenBitcode(p)
    BY <2>1, <2>6 DEF OpenBitcode, engine, call
  <2>7. CASE WriteBitcode(p)
    BY <2>7 DEF WriteBitcode, engine, call
  <2>8. CASE OpenTypes(p)
    BY <2>8 DEF OpenTypes, engine, call
  <2>9. CASE Reinitialize(p)
    BY <2>1, <2>9 DEF Reinitialize, Fresh, files, call
  <2>10. CASE (\E e \in BOOLEAN : SetJITCacheEnabled(p, e)) \/ Edit
    BY <2>10 DEF SetJITCacheEnabled, Edit, files, engine, call
  <2>11. CASE ClearJITCache
    BY <2>1, <2>11 DEF ClearJITCache, Remove, engine, call
  <2> QED
    BY <2>2, <2>3, <2>4, <2>5, <2>6, <2>7, <2>8, <2>9, <2>10, <2>11
<1> QED
  BY <1>1, <1>2, <1>3, OldNumbers

----------------------------------------------------------------------------
\* What an action of another process does not touch.
LEMMA RunKept ==
    ASSUME NEW q \in Procs, Own(q), RunsOK(q),
           foreign'[q] = foreign[q], linked'[q] = linked[q], life'[q] = life[q],
           m_lastAnonExprName'[q] = m_lastAnonExprName[q],
           compiled'[q] = None \/ compiled'[q] = compiled[q],
           \/ art'[q].by = <<q, life'[q]>>
           \/ pc'[q] \in HasArt => pc[q] \in HasArt /\ art'[q] = art[q]
    PROVE  Own(q)' /\ RunsOK(q)'
<1>1. Own(q)'
  BY DEF Own
<1>2. RunsOK(q)'
  BY DEF RunsOK, CodeRun
<1> QED
  BY <1>1, <1>2

\* The link of an artifact that is the process's own, or of another's.
LEMMA LinkRuns ==
    ASSUME CallInv, NEW p \in Procs, Own(p), NEW a \in Artifacts, Link(p, a), pc[p] # "idle",
           a.script = script[p], leads[script[p]] => a.library >= begun[p],
           foreign' = foreign, life' = life,
           ~foreign[p] => a.by = <<p, life[p]>> /\ linked[p][a.anon] \in {None, a}
    PROVE  Own(p)' /\ RunsOK(p)'
<1>1. a.anon \in Anons /\ a # None
  BY ArtifactsAssumption DEF Artifacts
<1>2. /\ linked' = [linked EXCEPT ![p][a.anon] = IF @ = None THEN a ELSE @]
      /\ m_lastAnonExprName'[p] = a.anon
      /\ compiled'[p] = [script |-> script[p], begun |-> begun[p]]
      /\ pc'[p] = "idle"
  BY DEF Link, Done, Goto, CallInv, TypeOK
<1>3. ASSUME ~foreign[p] PROVE linked'[p][a.anon] = a
  BY <1>1, <1>2, <1>3 DEF CallInv, TypeOK
<1>4. \A n \in Anons : n # a.anon => linked'[p][n] = linked[p][n]
  BY <1>1, <1>2 DEF CallInv, TypeOK
<1>5. Own(p)'
  BY <1>2, <1>3, <1>4 DEF Own, HasArt
<1>6. RunsOK(p)'
  BY <1>1, <1>2, <1>3 DEF RunsOK, CodeRun
<1> QED
  BY <1>5, <1>6

\* What the actions of p leave alone of the others.
LEMMA LinkOthers ==
    ASSUME CallInv, NEW p \in Procs, NEW a, Link(p, a), NEW q \in Procs \ {p}
    PROVE  /\ linked'[q] = linked[q] /\ m_lastAnonExprName'[q] = m_lastAnonExprName[q]
           /\ compiled'[q] = compiled[q] /\ pc'[q] = pc[q] /\ art'[q] = art[q]
  BY DEF Link, Done, Goto, CallInv, TypeOK

LEMMA LinkingRun ==
    ASSUME CallInv, RunInv, NEW p \in Procs, LoadTypes(p) \/ WriteTypes(p)
    PROVE  \A q \in Procs : Own(q)' /\ RunsOK(q)'
<1>1. /\ pc[p] \in HasArt /\ art[p] \in Artifacts /\ art[p].script = script[p]
      /\ leads[script[p]] => art[p].library >= begun[p]
      /\ pc[p] # "idle"
  BY DEF LoadTypes, WriteTypes, CallInv, ArtOK, HasArt
<1>2. Link(p, art[p]) /\ foreign' = foreign /\ life' = life
  BY DEF LoadTypes, WriteTypes, history
<1>3. ASSUME ~foreign[p]
      PROVE  art[p].by = <<p, life[p]>> /\ linked[p][art[p].anon] \in {None, art[p]}
  <2>1. art[p].by = <<p, life[p]>>
    BY <1>1, <1>3 DEF RunInv, Own
  <2>2. art[p].anon \in Anons
    BY <1>1 DEF Artifacts
  <2>3. ASSUME linked[p][art[p].anon] # None PROVE linked[p][art[p].anon] = art[p]
    <3> DEFINE b == linked[p][art[p].anon]
    <3>1. b \in Artifacts
      BY <2>2, <2>3 DEF CallInv, TypeOK
    <3>2. b.anon = art[p].anon /\ b.by = art[p].by
      BY <1>3, <2>1, <2>2, <2>3 DEF RunInv, Own
    <3>3. Stored(b) /\ Stored(art[p])
      BY <2>2 DEF Stored
    <3> QED
      BY <1>1, <3>1, <3>2, <3>3 DEF RunInv, NumberInv, Unique
  <2> QED
    BY <2>1, <2>3
<1>4. Own(p)' /\ RunsOK(p)'
  BY <1>1, <1>2, <1>3, LinkRuns DEF RunInv
<1>5. ASSUME NEW q \in Procs \ {p} PROVE Own(q)' /\ RunsOK(q)'
  BY <1>2, LinkOthers, RunKept DEF RunInv
<1> QED
  BY <1>4, <1>5

LEMMA CompilingRun ==
    ASSUME CallInv, RunInv, NEW p \in Procs, Compile(p)
    PROVE  \A q \in Procs : Own(q)' /\ RunsOK(q)'
<1> DEFINE a == Made(p)
<1>1. /\ pc[p] = "compile" /\ compilations < MaxCompilations
      /\ foreign' = foreign /\ life' = life
  BY DEF Compile, history
<1>2. /\ a \in Artifacts /\ a.script = script[p] /\ begun[p] <= a.library
      /\ a.by = <<p, life[p]>> /\ a.anon = anonCounter[p] /\ a.anon \in Anons
  BY <1>1, MadeType DEF Made, Artifacts
<1>3. CASE m_cacheEnabled[p]
  <2>1. /\ art' = [art EXCEPT ![p] = a] /\ pc' = [pc EXCEPT ![p] = "open"]
        /\ UNCHANGED <<linked, m_lastAnonExprName, compiled>>
    BY <1>3 DEF Compile, Made, Goto
  <2>2. ASSUME NEW q \in Procs PROVE Own(q)' /\ RunsOK(q)'
    <3>1. CASE q = p
      <4>1. art'[p] = a
        BY <2>1 DEF CallInv, TypeOK
      <4>2. art'[q].by = <<q, life[q]>>
        BY <1>2, <3>1, <4>1
      <4> QED
        BY <1>1, <2>1, <4>2, RunKept DEF RunInv
    <3>2. CASE q # p
      <4>1. pc'[q] = pc[q] /\ art'[q] = art[q]
        BY <2>1, <3>2 DEF CallInv, TypeOK
      <4> QED
        BY <1>1, <2>1, <4>1, RunKept DEF RunInv
    <3> QED
      BY <3>1, <3>2
  <2> QED
    BY <2>2
<1>4. CASE ~m_cacheEnabled[p]
  <2>1. Link(p, a)
    BY <1>4 DEF Compile, Made
  <2>2. ASSUME ~foreign[p] PROVE linked[p][a.anon] = None
    <3> SUFFICES ASSUME linked[p][a.anon] # None PROVE FALSE
      OBVIOUS
    <3> DEFINE b == linked[p][a.anon]
    <3>1. b \in Artifacts /\ b.anon = anonCounter[p] /\ b.by = <<p, life[p]>>
      BY <1>2, <2>2 DEF RunInv, Own, CallInv, TypeOK
    <3>2. Stored(b)
      BY <1>2 DEF Stored
    <3>3. b.anon < anonCounter[p]
      BY <3>1, <3>2 DEF RunInv, NumberInv, Numbered
    <3>4. anonCounter[p] \in Nat
      BY ConstantsAssumption DEF CallInv, TypeOK
    <3> QED
      BY <3>1, <3>3, <3>4
  <2>3. leads[script[p]] => a.library >= begun[p]
    BY <1>1, <1>2, ConstantsAssumption DEF CallInv, CallOK, TypeOK, Made
  <2>4. Own(p)' /\ RunsOK(p)'
    BY <1>1, <1>2, <2>1, <2>2, <2>3, LinkRuns DEF RunInv
  <2>5. ASSUME NEW q \in Procs \ {p} PROVE Own(q)' /\ RunsOK(q)'
    BY <1>1, <2>1, LinkOthers, RunKept DEF RunInv
  <2> QED
    BY <2>4, <2>5
<1> QED
  BY <1>3, <1>4

LEMMA LoadingRun ==
    ASSUME CallInv, RunInv, NEW p \in Procs, LoadBitcode(p)
    PROVE  \A q \in Procs : Own(q)' /\ RunsOK(q)'
<1>1. UNCHANGED <<linked, m_lastAnonExprName, compiled, life>> /\ pc[p] = "load"
  BY DEF LoadBitcode, engine
<1>2. CASE bc[key[p]] \in {None, Torn}
  <2>1. pc' = [pc EXCEPT ![p] = "compile"] /\ UNCHANGED <<art, foreign>>
    BY <1>2 DEF LoadBitcode, Goto
  <2>2. ASSUME NEW q \in Procs PROVE Own(q)' /\ RunsOK(q)'
    <3>1. pc'[q] \in HasArt => pc[q] \in HasArt /\ art'[q] = art[q]
      BY <2>1 DEF CallInv, TypeOK, HasArt
    <3> QED
      BY <1>1, <2>1, <3>1, RunKept DEF RunInv
  <2> QED
    BY <2>2
<1>3. CASE bc[key[p]] \notin {None, Torn}
  <2>1. /\ pc' = [pc EXCEPT ![p] = "types"] /\ art' = [art EXCEPT ![p] = bc[key[p]]]
        /\ foreign' = [foreign EXCEPT ![p] = @ \/ bc[key[p]].by # <<p, life[p]>>]
    BY <1>3 DEF LoadBitcode, Goto
  <2>2. ASSUME NEW q \in Procs \ {p} PROVE Own(q)' /\ RunsOK(q)'
    <3>1. foreign'[q] = foreign[q] /\ pc'[q] = pc[q] /\ art'[q] = art[q]
      BY <2>1 DEF CallInv, TypeOK
    <3> QED
      BY <1>1, <3>1, RunKept DEF RunInv
  <2>3. CASE bc[key[p]].by = <<p, life[p]>>
    <3>1. foreign'[p] = foreign[p]
      BY <2>1, <2>3 DEF CallInv, TypeOK
    <3>2. art'[p].by = <<p, life[p]>>
      BY <2>1, <2>3 DEF CallInv, TypeOK
    <3>3. /\ linked'[p] = linked[p] /\ life'[p] = life[p] /\ compiled'[p] = compiled[p]
          /\ m_lastAnonExprName'[p] = m_lastAnonExprName[p]
          /\ Own(p) /\ RunsOK(p)
      BY <1>1 DEF RunInv
    <3>4. Own(p)' /\ RunsOK(p)'
      BY <3>1, <3>2, <3>3, RunKept
    <3> QED
      BY <2>2, <3>4
  <2>4. CASE bc[key[p]].by # <<p, life[p]>>
    <3>1. foreign'[p] = TRUE
      BY <2>1, <2>4 DEF CallInv, TypeOK
    <3>2. Own(p)' /\ RunsOK(p)'
      BY <3>1 DEF Own, RunsOK
    <3> QED
      BY <2>2, <3>2
  <2> QED
    BY <2>3, <2>4
<1> QED
  BY <1>2, <1>3

\* The process has nothing linked and has compiled nothing.
LEMMA ClearedRun ==
    ASSUME CallInv, RunInv, NEW p \in Procs, Reinitialize(p) \/ Restart(p)
    PROVE  \A q \in Procs : Own(q)' /\ RunsOK(q)'
<1>1. /\ linked'[p] = Fresh /\ compiled'[p] = None
      /\ pc'[p] \notin HasArt
  BY DEF Reinitialize, Restart, Done, Goto, CallInv, TypeOK, HasArt
<1>2. Own(p)' /\ RunsOK(p)'
  BY <1>1 DEF Own, RunsOK, Fresh
<1>3. ASSUME NEW q \in Procs \ {p} PROVE Own(q)' /\ RunsOK(q)'
  <2>1. /\ foreign'[q] = foreign[q] /\ linked'[q] = linked[q] /\ life'[q] = life[q]
        /\ m_lastAnonExprName'[q] = m_lastAnonExprName[q]
        /\ compiled'[q] = compiled[q] /\ pc'[q] = pc[q] /\ art'[q] = art[q]
    <3>1. CASE Reinitialize(p)
      BY <3>1 DEF Reinitialize, call, history, CallInv, TypeOK
    <3>2. CASE Restart(p)
      BY <3>2 DEF Restart, Done, Goto, CallInv, TypeOK
    <3> QED
      BY <3>1, <3>2
  <2> QED
    BY <2>1, RunKept DEF RunInv
<1> QED
  BY <1>2, <1>3

\* The actions that link nothing and load nothing.
LEMMA QuietRun ==
    ASSUME CallInv, RunInv, NEW p \in Procs,
           \/ \E s \in Scripts : CompileScript(p, s)
           \/ CompileFails(p)
           \/ OpenBitcode(p) \/ WriteBitcode(p) \/ OpenTypes(p)
           \/ (\E e \in BOOLEAN : SetJITCacheEnabled(p, e))
           \/ ClearJITCache \/ Edit \/ UNCHANGED vars
    PROVE  \A q \in Procs : Own(q)' /\ RunsOK(q)'
<1>1. UNCHANGED <<foreign, linked, life, m_lastAnonExprName>>
  BY DEF CompileScript, CompileFails, OpenBitcode, WriteBitcode, OpenTypes,
         SetJITCacheEnabled, ClearJITCache, Edit, vars, engine, history
<1>2. ASSUME NEW q \in Procs
      PROVE  /\ compiled'[q] = None \/ compiled'[q] = compiled[q]
             /\ pc'[q] \in HasArt => pc[q] \in HasArt /\ art'[q] = art[q]
  <2>1. CASE \E s \in Scripts : CompileScript(p, s)
    BY <2>1 DEF CompileScript, Goto, HasArt, CallInv, TypeOK
  <2>2. CASE CompileFails(p)
    BY <2>2 DEF CompileFails, Done, Goto, HasArt, CallInv, TypeOK
  <2>3. CASE OpenBitcode(p) \/ WriteBitcode(p) \/ OpenTypes(p)
    BY <2>3 DEF OpenBitcode, WriteBitcode, OpenTypes, Goto, HasArt, CallInv, TypeOK, call
  <2>4. CASE (\E e \in BOOLEAN : SetJITCacheEnabled(p, e)) \/ ClearJITCache \/ Edit \/ UNCHANGED vars
    BY <2>4 DEF SetJITCacheEnabled, ClearJITCache, Edit, vars, call
  <2> QED
    BY <2>1, <2>2, <2>3, <2>4
<1>3. ASSUME NEW q \in Procs PROVE Own(q)' /\ RunsOK(q)'
  BY <1>1, <1>2, RunKept DEF RunInv
<1> QED
  BY <1>3

LEMMA InitRun == Init => RunInv
<1> SUFFICES ASSUME Init PROVE RunInv
  OBVIOUS
<1>1. \A x \in Artifacts : ~Stored(x)
  BY ArtifactsAssumption DEF Init, Fresh, Stored
<1>2. NumberInv
  BY <1>1 DEF NumberInv, Numbered, Unique
<1>3. \A p \in Procs : Own(p) /\ RunsOK(p)
  BY DEF Init, Fresh, Own, RunsOK, HasArt
<1> QED
  BY <1>2, <1>3 DEF RunInv

LEMMA NextRun == CallInv /\ RunInv /\ [Next]_vars => RunInv'
<1> SUFFICES ASSUME CallInv, RunInv, [Next]_vars PROVE RunInv'
  OBVIOUS
<1>1. CallInv'
  BY NextCall
<1>2. ASSUME NEW p \in Procs, Step(p) PROVE RunInv'
  <2>1. CASE Compile(p)
    BY <2>1, CompileNumbers, CompilingRun DEF RunInv
  <2>2. CASE Restart(p)
    BY <2>2, RestartNumbers, ClearedRun DEF RunInv
  <2>3. CASE Reinitialize(p)
    BY <1>1, <2>3, MoveNumbers, ClearedRun DEF RunInv
  <2>4. CASE LoadTypes(p) \/ WriteTypes(p)
    BY <1>1, <2>4, MoveNumbers, LinkingRun DEF RunInv
  <2>5. CASE LoadBitcode(p)
    BY <1>1, <2>5, MoveNumbers, LoadingRun DEF RunInv
  <2>6. ASSUME \/ \E s \in Scripts : CompileScript(p, s)
               \/ CompileFails(p)
               \/ OpenBitcode(p) \/ WriteBitcode(p) \/ OpenTypes(p)
               \/ (\E e \in BOOLEAN : SetJITCacheEnabled(p, e))
        PROVE  RunInv'
    BY <1>1, <2>6, MoveNumbers, QuietRun DEF RunInv
  <2> QED
    BY <1>2, <2>1, <2>2, <2>3, <2>4, <2>5, <2>6 DEF Step
<1>3. CASE ClearJITCache \/ Edit
  <2>1. PICK p \in Procs : TRUE
    BY ConstantsAssumption
  <2> QED
    BY <1>1, <1>3, <2>1, MoveNumbers, QuietRun DEF RunInv
<1>4. CASE UNCHANGED vars
  <2>1. PICK p \in Procs : TRUE
    BY ConstantsAssumption
  <2>2. NumberInv'
    BY <1>4 DEF vars, files, engine, call, RunInv, NumberInv, Numbered, Unique, Stored
  <2> QED
    BY <1>4, <2>1, <2>2, QuietRun DEF RunInv
<1> QED
  BY <1>2, <1>3, <1>4 DEF Next

\* A process that has loaded only bitcode it made runs the code of the script
\* it compiled last, no older than the call if the import leads, whatever
\* other processes do to the cache meanwhile (compileScript of jit_engine.cpp
\* and addModule of flux_jit.cpp).
THEOREM RunsCompiled == Spec => []RunsWhatItCompiled
<1>1. RunInv => RunsWhatItCompiled
  BY DEF RunInv, RunsOK, RunsWhatItCompiled
<1> QED
  BY <1>1, InitCall, NextCall, InitRun, NextRun, PTL DEF Spec
----------------------------------------------------------------------------
\* An entry whose bitcode a living process has made is whole, unless that
\* process is about to write the types.
EntryOK(k) ==
    \A q \in Procs :
        bc[k] \in Artifacts /\ bc[k].by = <<q, life[q]>> =>
            \/ meta[k] = bc[k]
            \/ pc[q] \in {"openTypes", "writeTypes"} /\ key[q] = k

\* How far p has come with its entry, and what types it has when it is done.
TypesKnown(p) ==
    compiled[p] # None /\ ~foreign[p] =>
        /\ m_functionReturnTypes[p] # Empty
        /\ m_functionReturnTypes[p].anon = m_lastAnonExprName[p]
        /\ m_functionReturnTypes[p].script = compiled[p].script

EntryUnderWay(p) ==
    /\ pc[p] # "idle" => compiled[p] = None
    /\ pc[p] = "types" /\ ~foreign[p] => meta[key[p]] = art[p]
    /\ pc[p] \in {"write", "writeTypes"} => fd[p]
    /\ pc[p] \in {"openTypes", "writeTypes"} => bc[key[p]] = art[p]
    /\ pc[p] \in {"open", "write", "openTypes", "writeTypes"} =>
         m_functionReturnTypes[p] = art[p] /\ art[p].by = <<p, life[p]>>

OneCall == \A p, q \in Procs : pc[p] # "idle" /\ pc[q] # "idle" => p = q
TurnsOK ==
    /\ OneCall
    /\ \A k \in Keys : EntryOK(k)
    /\ \A p \in Procs : EntryUnderWay(p) /\ TypesKnown(p)
TurnsInv == ~overlapped => TurnsOK

----------------------------------------------------------------------------
\* A process outside a call, or one nothing has changed for.
LEMMA IdleStays ==
    ASSUME NEW q \in Procs, TypesKnown(q), pc'[q] = "idle",
           compiled'[q] = compiled[q], foreign'[q] = foreign[q],
           m_functionReturnTypes'[q] = m_functionReturnTypes[q],
           m_lastAnonExprName'[q] = m_lastAnonExprName[q]
    PROVE  EntryUnderWay(q)' /\ TypesKnown(q)'
  BY DEF EntryUnderWay, TypesKnown

\* The files stay, and so do the processes about to write types.
LEMMA EntriesStay ==
    ASSUME TurnsOK, bc' = bc, meta' = meta, life' = life,
           \A q \in Procs : pc[q] \in {"openTypes", "writeTypes"} =>
               pc'[q] \in {"openTypes", "writeTypes"} /\ key'[q] = key[q]
    PROVE  \A k \in Keys : EntryOK(k)'
<1> SUFFICES ASSUME NEW k \in Keys PROVE EntryOK(k)'
  OBVIOUS
<1>1. EntryOK(k)
  BY DEF TurnsOK
<1> QED
  BY <1>1 DEF EntryOK

\* A step of the process in a call, the others being outside of one.
LEMMA StepTurns ==
    ASSUME TurnsOK, NEW p \in Procs, pc[p] # "idle",
           \A q \in Procs \ {p} :
               /\ pc'[q] = pc[q] /\ compiled'[q] = compiled[q] /\ foreign'[q] = foreign[q]
               /\ m_functionReturnTypes'[q] = m_functionReturnTypes[q]
               /\ m_lastAnonExprName'[q] = m_lastAnonExprName[q],
           EntryUnderWay(p)', TypesKnown(p)', \A k \in Keys : EntryOK(k)'
    PROVE  TurnsOK'
<1>1. \A q \in Procs \ {p} : pc[q] = "idle" /\ pc'[q] = "idle" /\ TypesKnown(q)
  BY DEF TurnsOK, OneCall
<1>2. OneCall'
  BY <1>1 DEF OneCall
<1>3. \A q \in Procs \ {p} : EntryUnderWay(q)' /\ TypesKnown(q)'
  BY <1>1, IdleStays
<1> QED
  BY <1>2, <1>3 DEF TurnsOK

LEMMA CompileScriptTurns ==
    ASSUME CallInv, TurnsInv, NEW p \in Procs, NEW s \in Scripts, CompileScript(p, s), ~overlapped'
    PROVE  TurnsOK'
<1>1. TurnsOK /\ \A q \in Procs : pc[q] = "idle"
  BY DEF CompileScript, TurnsInv
<1>2. /\ pc'[p] \in {"load", "compile"} /\ compiled'[p] = None
      /\ \A q \in Procs \ {p} : pc'[q] = pc[q] /\ compiled'[q] = compiled[q]
      /\ UNCHANGED <<bc, meta, life, foreign, m_functionReturnTypes, m_lastAnonExprName>>
  BY DEF CompileScript, Goto, files, engine, CallInv, TypeOK
<1>3. \A k \in Keys : EntryOK(k)'
  BY <1>1, <1>2, EntriesStay
<1>4. EntryUnderWay(p)' /\ TypesKnown(p)'
  BY <1>2 DEF EntryUnderWay, TypesKnown
<1>5. \A q \in Procs \ {p} : EntryUnderWay(q)' /\ TypesKnown(q)'
  BY <1>1, <1>2, IdleStays DEF TurnsOK
<1>6. OneCall'
  BY <1>1, <1>2 DEF OneCall
<1> QED
  BY <1>3, <1>4, <1>5, <1>6 DEF TurnsOK

LEMMA LoadBitcodeTurns ==
    ASSUME CallInv, TurnsOK, NEW p \in Procs, LoadBitcode(p)
    PROVE  TurnsOK'
<1>1. /\ pc[p] = "load" /\ key[p] \in Keys /\ compiled[p] = None
      /\ \A q \in Procs \ {p} : pc[q] = "idle"
  BY DEF LoadBitcode, CallInv, CallOK, TurnsOK, EntryUnderWay, OneCall
<1>2. UNCHANGED <<life, key, compiled, m_functionReturnTypes, m_lastAnonExprName>>
  BY DEF LoadBitcode, engine
<1>3. CASE bc[key[p]] \in {None, Torn}
  <2>1. Remove({key[p]}) /\ pc' = [pc EXCEPT ![p] = "compile"] /\ UNCHANGED <<art, foreign>>
    BY <1>3 DEF LoadBitcode, Goto
  <2>2. pc'[p] = "compile" /\ \A q \in Procs \ {p} : pc'[q] = pc[q]
    BY <2>1 DEF CallInv, TypeOK
  <2>3. EntryUnderWay(p)' /\ TypesKnown(p)'
    BY <1>1, <1>2, <2>2 DEF EntryUnderWay, TypesKnown
  <2>4. \A k \in Keys : EntryOK(k)'
    <3> SUFFICES ASSUME NEW k \in Keys, NEW q \in Procs, bc'[k] \in Artifacts,
                        bc'[k].by = <<q, life'[q]>>
                 PROVE  meta'[k] = bc'[k]
      BY DEF EntryOK
    <3>1. k # key[p]
      BY <2>1, ArtifactsAssumption DEF Remove
    <3>2. bc'[k] = bc[k] /\ meta'[k] = meta[k]
      BY <2>1, <3>1 DEF Remove
    <3>3. pc[q] \notin {"openTypes", "writeTypes"}
      BY <1>1
    <3> QED
      BY <1>2, <3>2, <3>3 DEF TurnsOK, EntryOK
  <2> QED
    BY <1>1, <1>2, <2>1, <2>2, <2>3, <2>4, StepTurns
<1>4. CASE bc[key[p]] \notin {None, Torn}
  <2>1. /\ art' = [art EXCEPT ![p] = bc[key[p]]] /\ pc' = [pc EXCEPT ![p] = "types"]
        /\ foreign' = [foreign EXCEPT ![p] = @ \/ bc[key[p]].by # <<p, life[p]>>]
        /\ UNCHANGED <<bc, meta, fd>>
    BY <1>4 DEF LoadBitcode, Goto
  <2>2. /\ pc'[p] = "types" /\ art'[p] = bc[key[p]] /\ bc[key[p]] \in Artifacts
        /\ \A q \in Procs \ {p} : pc'[q] = pc[q] /\ foreign'[q] = foreign[q]
    BY <1>1, <1>4, <2>1 DEF CallInv, TypeOK
  <2>3. ~foreign'[p] => bc[key[p]].by = <<p, life[p]>>
    BY <2>1 DEF CallInv, TypeOK
  <2>4. ~foreign'[p] => meta[key[p]] = bc[key[p]]
    BY <1>1, <2>2, <2>3 DEF TurnsOK, EntryOK
  <2>5. EntryUnderWay(p)' /\ TypesKnown(p)'
    BY <1>1, <1>2, <2>1, <2>2, <2>4 DEF EntryUnderWay, TypesKnown
  <2>6. \A k \in Keys : EntryOK(k)'
    BY <1>1, <1>2, <2>1, <2>2, EntriesStay
  <2> QED
    BY <1>1, <1>2, <2>2, <2>5, <2>6, StepTurns
<1> QED
  BY <1>3, <1>4

\* The end of a call that links an artifact the process has the types of.
LEMMA LinkTurns ==
    ASSUME CallInv, NEW p \in Procs, NEW a \in Artifacts, Link(p, a),
           a.script = script[p], ~foreign'[p] => m_functionReturnTypes'[p] = a
    PROVE  /\ EntryUnderWay(p)' /\ TypesKnown(p)'
           /\ pc'[p] = "idle"
           /\ \A q \in Procs \ {p} :
                /\ pc'[q] = pc[q] /\ compiled'[q] = compiled[q]
                /\ m_lastAnonExprName'[q] = m_lastAnonExprName[q] /\ key'[q] = key[q]
<1>1. Done(p)
  BY DEF Link
<1>2. pc'[p] = "idle" /\ Other(p)
  BY <1>1, DoneCall
<1>3. /\ m_lastAnonExprName'[p] = a.anon /\ compiled'[p].script = script[p]
      /\ \A q \in Procs \ {p} :
           compiled'[q] = compiled[q] /\ m_lastAnonExprName'[q] = m_lastAnonExprName[q]
  BY DEF Link, CallInv, TypeOK
<1>4. a # Empty
  BY ArtifactsAssumption
<1>5. EntryUnderWay(p)' /\ TypesKnown(p)'
  BY <1>2, <1>3, <1>4 DEF EntryUnderWay, TypesKnown
<1> QED
  BY <1>2, <1>3, <1>5 DEF Other

LEMMA LoadTypesTurns ==
    ASSUME CallInv, TurnsOK, NEW p \in Procs, LoadTypes(p)
    PROVE  TurnsOK'
<1>1. /\ pc[p] = "types" /\ key[p] \in Keys /\ art[p] \in Artifacts /\ Link(p, art[p])
      /\ art[p].script = script[p]
      /\ UNCHANGED <<bc, meta, life, foreign>>
      /\ m_functionReturnTypes' =
           [m_functionReturnTypes EXCEPT ![p] = IF meta[key[p]] = None THEN @ ELSE meta[key[p]]]
  BY DEF LoadTypes, CallInv, CallOK, ArtOK, HasArt, files, history
<1>2. ~foreign'[p] => m_functionReturnTypes'[p] = art[p]
  <2>1. ~foreign[p] => meta[key[p]] = art[p]
    BY <1>1 DEF TurnsOK, EntryUnderWay
  <2> QED
    BY <1>1, <2>1, ArtifactsAssumption DEF CallInv, TypeOK
<1>3. /\ EntryUnderWay(p)' /\ TypesKnown(p)' /\ pc'[p] = "idle"
      /\ \A q \in Procs \ {p} :
           /\ pc'[q] = pc[q] /\ compiled'[q] = compiled[q]
           /\ m_lastAnonExprName'[q] = m_lastAnonExprName[q] /\ key'[q] = key[q]
  BY <1>1, <1>2, LinkTurns
<1>4. \A q \in Procs \ {p} : m_functionReturnTypes'[q] = m_functionReturnTypes[q]
  BY <1>1 DEF CallInv, TypeOK
<1>5. \A k \in Keys : EntryOK(k)'
  BY <1>1, <1>3, EntriesStay
<1> QED
  BY <1>1, <1>3, <1>4, <1>5, StepTurns

LEMMA CompileTurns ==
    ASSUME CallInv, TurnsOK, NEW p \in Procs, Compile(p)
    PROVE  TurnsOK'
<1>1. PICK a \in Artifacts : a = Made(p)
  BY MadeType DEF Compile
<1>2. /\ pc[p] = "compile" /\ compiled[p] = None /\ a.script = script[p] /\ a.by = <<p, life[p]>>
  BY <1>1 DEF Compile, Made, TurnsOK, EntryUnderWay, CallInv
<1>3. /\ m_functionReturnTypes' = [m_functionReturnTypes EXCEPT ![p] = a]
      /\ UNCHANGED <<bc, meta, life, foreign>>
      /\ \/ /\ art' = [art EXCEPT ![p] = a] /\ pc' = [pc EXCEPT ![p] = "open"]
            /\ UNCHANGED <<m_lastAnonExprName, compiled, key>>
         \/ Link(p, a)
  BY <1>1 DEF Compile, Made, Goto, files, history
<1>4. /\ m_functionReturnTypes'[p] = a
      /\ \A q \in Procs \ {p} : m_functionReturnTypes'[q] = m_functionReturnTypes[q]
  BY <1>3 DEF CallInv, TypeOK
<1>5. CASE /\ art' = [art EXCEPT ![p] = a] /\ pc' = [pc EXCEPT ![p] = "open"]
           /\ UNCHANGED <<m_lastAnonExprName, compiled, key>>
  <2>1. pc'[p] = "open" /\ art'[p] = a /\ \A q \in Procs \ {p} : pc'[q] = pc[q]
    BY <1>5 DEF CallInv, TypeOK
  <2>2. EntryUnderWay(p)' /\ TypesKnown(p)'
    BY <1>2, <1>3, <1>4, <1>5, <2>1 DEF EntryUnderWay, TypesKnown
  <2>3. \A k \in Keys : EntryOK(k)'
    BY <1>2, <1>3, <1>5, <2>1, EntriesStay
  <2> QED
    BY <1>2, <1>3, <1>4, <1>5, <2>1, <2>2, <2>3, StepTurns
<1>6. CASE Link(p, a)
  <2>1. /\ EntryUnderWay(p)' /\ TypesKnown(p)' /\ pc'[p] = "idle"
        /\ \A q \in Procs \ {p} :
             /\ pc'[q] = pc[q] /\ compiled'[q] = compiled[q]
             /\ m_lastAnonExprName'[q] = m_lastAnonExprName[q] /\ key'[q] = key[q]
    BY <1>2, <1>4, <1>6, LinkTurns
  <2>2. \A k \in Keys : EntryOK(k)'
    BY <1>2, <1>3, <2>1, EntriesStay
  <2> QED
    BY <1>2, <1>3, <1>4, <2>1, <2>2, StepTurns
<1> QED
  BY <1>3, <1>5, <1>6

LEMMA CompileFailsTurns ==
    ASSUME CallInv, TurnsOK, NEW p \in Procs, CompileFails(p)
    PROVE  TurnsOK'
<1>1. /\ pc[p] = "compile" /\ compiled[p] = None /\ Done(p)
      /\ UNCHANGED <<bc, meta, life, foreign, compiled, m_functionReturnTypes, m_lastAnonExprName>>
  BY DEF CompileFails, files, history, TurnsOK, EntryUnderWay
<1>2. pc'[p] = "idle" /\ Other(p)
  BY <1>1, DoneCall
<1>3. EntryUnderWay(p)' /\ TypesKnown(p)'
  BY <1>1, <1>2 DEF EntryUnderWay, TypesKnown
<1>4. \A k \in Keys : EntryOK(k)'
  BY <1>1, <1>2, EntriesStay DEF Other
<1> QED
  BY <1>1, <1>2, <1>3, <1>4, StepTurns DEF Other

LEMMA OpenBitcodeTurns ==
    ASSUME CallInv, TurnsOK, NEW p \in Procs, OpenBitcode(p)
    PROVE  TurnsOK'
<1>1. /\ pc[p] = "open" /\ key[p] \in Keys /\ compiled[p] = None
      /\ m_functionReturnTypes[p] = art[p] /\ art[p].by = <<p, life[p]>>
      /\ \A q \in Procs \ {p} : pc[q] = "idle"
  BY DEF OpenBitcode, CallInv, CallOK, TurnsOK, EntryUnderWay, OneCall
<1>2. /\ bc' = [bc EXCEPT ![key[p]] = Torn] /\ fd' = [fd EXCEPT ![p] = TRUE]
      /\ pc' = [pc EXCEPT ![p] = "write"]
      /\ UNCHANGED <<meta, life, key, art, compiled, foreign, m_functionReturnTypes, m_lastAnonExprName>>
  BY DEF OpenBitcode, Goto, engine, call, history
<1>3. pc'[p] = "write" /\ fd'[p] = TRUE /\ \A q \in Procs \ {p} : pc'[q] = pc[q]
  BY <1>2 DEF CallInv, TypeOK
<1>4. EntryUnderWay(p)' /\ TypesKnown(p)'
  BY <1>1, <1>2, <1>3 DEF EntryUnderWay, TypesKnown
<1>5. \A k \in Keys : EntryOK(k)'
  <2> SUFFICES ASSUME NEW k \in Keys, NEW q \in Procs, bc'[k] \in Artifacts,
                      bc'[k].by = <<q, life'[q]>>
               PROVE  meta'[k] = bc'[k]
    BY DEF EntryOK
  <2>1. k # key[p] /\ bc'[k] = bc[k]
    BY <1>1, <1>2, ArtifactsAssumption DEF CallInv, TypeOK
  <2>2. pc[q] \notin {"openTypes", "writeTypes"}
    BY <1>1
  <2> QED
    BY <1>2, <2>1, <2>2 DEF TurnsOK, EntryOK
<1> QED
  BY <1>1, <1>2, <1>3, <1>4, <1>5, StepTurns

LEMMA WriteBitcodeTurns ==
    ASSUME CallInv, TurnsOK, NEW p \in Procs, WriteBitcode(p)
    PROVE  TurnsOK'
<1>1. /\ pc[p] = "write" /\ key[p] \in Keys /\ compiled[p] = None /\ fd[p]
      /\ m_functionReturnTypes[p] = art[p] /\ art[p].by = <<p, life[p]>>
      /\ \A q \in Procs \ {p} : pc[q] = "idle"
  BY DEF WriteBitcode, CallInv, CallOK, TurnsOK, EntryUnderWay, OneCall
<1>2. /\ bc' = [bc EXCEPT ![key[p]] = art[p]] /\ pc' = [pc EXCEPT ![p] = "openTypes"]
      /\ UNCHANGED <<meta, life, key, art, compiled, foreign, m_functionReturnTypes, m_lastAnonExprName>>
  BY <1>1 DEF WriteBitcode, Goto, engine, call, history
<1>3. /\ pc'[p] = "openTypes" /\ bc'[key[p]] = art[p]
      /\ \A q \in Procs \ {p} : pc'[q] = pc[q]
      /\ \A k \in Keys : k # key[p] => bc'[k] = bc[k]
  BY <1>1, <1>2 DEF CallInv, TypeOK
<1>4. EntryUnderWay(p)' /\ TypesKnown(p)'
  BY <1>1, <1>2, <1>3 DEF EntryUnderWay, TypesKnown
<1>5. \A k \in Keys : EntryOK(k)'
  <2> SUFFICES ASSUME NEW k \in Keys, NEW q \in Procs, bc'[k] \in Artifacts,
                      bc'[k].by = <<q, life'[q]>>
               PROVE  meta'[k] = bc'[k] \/ (pc'[q] \in {"openTypes", "writeTypes"} /\ key'[q] = k)
    BY DEF EntryOK
  <2>1. CASE k = key[p]
    <3>1. <<q, life[q]>> = <<p, life[p]>>
      BY <1>1, <1>2, <1>3, <2>1
    <3>2. q = p
      BY <3>1
    <3> QED
      BY <1>2, <1>3, <2>1, <3>2
  <2>2. CASE k # key[p]
    <3>1. bc'[k] = bc[k] /\ pc[q] \notin {"openTypes", "writeTypes"}
      BY <1>1, <1>3, <2>2
    <3> QED
      BY <1>2, <3>1 DEF TurnsOK, EntryOK
  <2> QED
    BY <2>1, <2>2
<1> QED
  BY <1>1, <1>2, <1>3, <1>4, <1>5, StepTurns

LEMMA OpenTypesTurns ==
    ASSUME CallInv, TurnsOK, NEW p \in Procs, OpenTypes(p)
    PROVE  TurnsOK'
<1>1. /\ pc[p] = "openTypes" /\ key[p] \in Keys /\ compiled[p] = None /\ bc[key[p]] = art[p]
      /\ m_functionReturnTypes[p] = art[p] /\ art[p].by = <<p, life[p]>>
      /\ \A q \in Procs \ {p} : pc[q] = "idle"
  BY DEF OpenTypes, CallInv, CallOK, TurnsOK, EntryUnderWay, OneCall
<1>2. /\ meta' = [meta EXCEPT ![key[p]] = Empty] /\ fd' = [fd EXCEPT ![p] = TRUE]
      /\ pc' = [pc EXCEPT ![p] = "writeTypes"]
      /\ UNCHANGED <<bc, life, key, art, compiled, foreign, m_functionReturnTypes, m_lastAnonExprName>>
  BY DEF OpenTypes, Goto, engine, call, history
<1>3. /\ pc'[p] = "writeTypes" /\ fd'[p] = TRUE
      /\ \A q \in Procs \ {p} : pc'[q] = pc[q]
      /\ \A k \in Keys : k # key[p] => meta'[k] = meta[k]
  BY <1>1, <1>2 DEF CallInv, TypeOK
<1>4. EntryUnderWay(p)' /\ TypesKnown(p)'
  BY <1>1, <1>2, <1>3 DEF EntryUnderWay, TypesKnown
<1>5. \A k \in Keys : EntryOK(k)'
  <2> SUFFICES ASSUME NEW k \in Keys, NEW q \in Procs, bc'[k] \in Artifacts,
                      bc'[k].by = <<q, life'[q]>>
               PROVE  meta'[k] = bc'[k] \/ (pc'[q] \in {"openTypes", "writeTypes"} /\ key'[q] = k)
    BY DEF EntryOK
  <2>1. CASE k = key[p]
    <3>1. <<q, life[q]>> = <<p, life[p]>>
      BY <1>1, <1>2, <2>1
    <3>2. q = p
      BY <3>1
    <3> QED
      BY <1>2, <1>3, <2>1, <3>2
  <2>2. CASE k # key[p]
    <3>1. meta[k] = bc[k] \/ (pc[q] \in {"openTypes", "writeTypes"} /\ key[q] = k)
      BY <1>2 DEF TurnsOK, EntryOK
    <3>2. ~(pc[q] \in {"openTypes", "writeTypes"} /\ key[q] = k)
      BY <1>1, <2>2
    <3> QED
      BY <1>2, <1>3, <2>2, <3>1, <3>2
  <2> QED
    BY <2>1, <2>2
<1> QED
  BY <1>1, <1>2, <1>3, <1>4, <1>5, StepTurns

LEMMA WriteTypesTurns ==
    ASSUME CallInv, TurnsOK, NEW p \in Procs, WriteTypes(p)
    PROVE  TurnsOK'
<1>1. /\ pc[p] = "writeTypes" /\ key[p] \in Keys /\ fd[p] /\ bc[key[p]] = art[p]
      /\ art[p] \in Artifacts /\ art[p].script = script[p] /\ m_functionReturnTypes[p] = art[p]
      /\ \A q \in Procs \ {p} : pc[q] = "idle"
  BY DEF WriteTypes, CallInv, CallOK, ArtOK, HasArt, TurnsOK, EntryUnderWay, OneCall
<1>2. /\ meta' = [meta EXCEPT ![key[p]] = art[p]] /\ Link(p, art[p])
      /\ UNCHANGED <<bc, life, foreign, m_functionReturnTypes>>
  BY <1>1 DEF WriteTypes, history
<1>3. /\ EntryUnderWay(p)' /\ TypesKnown(p)' /\ pc'[p] = "idle"
      /\ \A q \in Procs \ {p} :
           /\ pc'[q] = pc[q] /\ compiled'[q] = compiled[q]
           /\ m_lastAnonExprName'[q] = m_lastAnonExprName[q] /\ key'[q] = key[q]
  BY <1>1, <1>2, LinkTurns
<1>4. meta'[key[p]] = art[p] /\ \A k \in Keys : k # key[p] => meta'[k] = meta[k]
  BY <1>1, <1>2 DEF CallInv, TypeOK
<1>5. \A k \in Keys : EntryOK(k)'
  <2> SUFFICES ASSUME NEW k \in Keys, NEW q \in Procs, bc'[k] \in Artifacts,
                      bc'[k].by = <<q, life'[q]>>
               PROVE  meta'[k] = bc'[k]
    BY DEF EntryOK
  <2>1. CASE k = key[p]
    BY <1>1, <1>2, <1>4, <2>1
  <2>2. CASE k # key[p]
    <3>1. meta[k] = bc[k] \/ (pc[q] \in {"openTypes", "writeTypes"} /\ key[q] = k)
      BY <1>2 DEF TurnsOK, EntryOK
    <3>2. ~(pc[q] \in {"openTypes", "writeTypes"} /\ key[q] = k)
      BY <1>1, <2>2
    <3> QED
      BY <1>2, <1>4, <2>2, <3>1, <3>2
  <2> QED
    BY <2>1, <2>2
<1> QED
  BY <1>1, <1>2, <1>3, <1>5, StepTurns

\* Outside of the calls: the switch, the end of the engine, an edit, a stutter.
LEMMA RestTurns ==
    ASSUME TurnsOK, UNCHANGED <<bc, meta, life, pc, key, art, fd, foreign, m_functionReturnTypes>>,
           \A p \in Procs : \/ compiled'[p] = compiled[p] /\ m_lastAnonExprName'[p] = m_lastAnonExprName[p]
                            \/ compiled'[p] = None
    PROVE  TurnsOK'
<1>1. \A k \in Keys : EntryOK(k)'
  BY EntriesStay
<1>2. ASSUME NEW p \in Procs PROVE EntryUnderWay(p)' /\ TypesKnown(p)'
  <2>1. EntryUnderWay(p) /\ TypesKnown(p)
    BY DEF TurnsOK
  <2> QED
    BY <2>1 DEF EntryUnderWay, TypesKnown
<1>3. OneCall'
  BY DEF TurnsOK, OneCall
<1> QED
  BY <1>1, <1>2, <1>3 DEF TurnsOK

LEMMA ClearTurns ==
    ASSUME TurnsInv, ClearJITCache, ~overlapped'
    PROVE  TurnsOK'
<1>1. TurnsOK /\ \A q \in Procs : pc[q] = "idle"
  BY DEF ClearJITCache, TurnsInv
<1>2. UNCHANGED <<pc, compiled, foreign, m_functionReturnTypes, m_lastAnonExprName>>
  BY DEF ClearJITCache, engine
<1>3. \A k \in Keys : EntryOK(k)'
  <2>1. \A k \in Keys : bc'[k] = None
    BY DEF ClearJITCache, Remove
  <2> QED
    BY <2>1, ArtifactsAssumption DEF EntryOK
<1>4. \A q \in Procs : EntryUnderWay(q)' /\ TypesKnown(q)'
  BY <1>1, <1>2, IdleStays DEF TurnsOK
<1> QED
  BY <1>1, <1>2, <1>3, <1>4 DEF TurnsOK, OneCall

\* What a process left half written when it died is of an earlier life.
LEMMA RestartTurns ==
    ASSUME CallInv, RunInv, TurnsOK, NEW p \in Procs, Restart(p)
    PROVE  TurnsOK'
<1>1. /\ Done(p) /\ UNCHANGED <<bc, meta>> /\ life' = [life EXCEPT ![p] = @ + 1]
      /\ compiled'[p] = None
      /\ \A q \in Procs \ {p} :
           /\ life'[q] = life[q] /\ compiled'[q] = compiled[q] /\ foreign'[q] = foreign[q]
           /\ m_functionReturnTypes'[q] = m_functionReturnTypes[q]
           /\ m_lastAnonExprName'[q] = m_lastAnonExprName[q] /\ fd'[q] = fd[q]
  BY DEF Restart, files, CallInv, TypeOK
<1>2. pc'[p] = "idle" /\ Other(p)
  BY <1>1, DoneCall
<1>3. \A k \in Keys : EntryOK(k)'
  <2> SUFFICES ASSUME NEW k \in Keys, NEW q \in Procs, bc'[k] \in Artifacts,
                      bc'[k].by = <<q, life'[q]>>
               PROVE  meta'[k] = bc'[k] \/ (pc'[q] \in {"openTypes", "writeTypes"} /\ key'[q] = k)
    BY DEF EntryOK
  <2>1. CASE q = p
    <3>1. Stored(bc[k]) /\ bc[k] \in Artifacts /\ bc[k].by[1] = p
      BY <1>1, <2>1 DEF Stored
    <3>2. bc[k].by[2] <= life[p]
      BY <3>1 DEF RunInv, NumberInv, Numbered
    <3>3. bc[k].by[2] = life[p] + 1
      BY <1>1, <2>1 DEF CallInv, TypeOK
    <3>4. life[p] \in Nat
      BY ConstantsAssumption DEF Lives, CallInv, TypeOK
    <3> QED
      BY <3>2, <3>3, <3>4
  <2>2. CASE q # p
    BY <1>1, <1>2, <2>2 DEF Other, TurnsOK, EntryOK
  <2> QED
    BY <2>1, <2>2
<1>4. EntryUnderWay(p)' /\ TypesKnown(p)'
  BY <1>1, <1>2 DEF EntryUnderWay, TypesKnown
<1>5. ASSUME NEW q \in Procs \ {p} PROVE EntryUnderWay(q)' /\ TypesKnown(q)'
  <2>1. EntryUnderWay(q) /\ TypesKnown(q)
    BY DEF TurnsOK
  <2>2. UNCHANGED <<bc, meta>> /\ pc'[q] = pc[q] /\ key'[q] = key[q] /\ art'[q] = art[q]
    BY <1>1, <1>2 DEF Other
  <2> QED
    BY <1>1, <2>1, <2>2 DEF EntryUnderWay, TypesKnown
<1>6. OneCall'
  BY <1>2 DEF Other, TurnsOK, OneCall
<1> QED
  BY <1>3, <1>4, <1>5, <1>6 DEF TurnsOK

LEMMA InitTurns == Init => TurnsInv
<1> SUFFICES ASSUME Init PROVE TurnsOK
  BY DEF TurnsInv
<1>1. \A k \in Keys : EntryOK(k)
  BY ArtifactsAssumption DEF Init, EntryOK
<1>2. \A p \in Procs : pc[p] = "idle" /\ compiled[p] = None
  BY DEF Init
<1> QED
  BY <1>1, <1>2 DEF TurnsOK, OneCall, EntryUnderWay, TypesKnown

LEMMA NextTurns == CallInv /\ RunInv /\ TurnsInv /\ [Next]_vars => TurnsInv'
<1> SUFFICES ASSUME CallInv, RunInv, TurnsInv, [Next]_vars, ~overlapped' PROVE TurnsOK'
  BY DEF TurnsInv
<1>1. ASSUME NEW p \in Procs, Step(p) PROVE TurnsOK'
  <2>1. CASE \E s \in Scripts : CompileScript(p, s)
    BY <2>1, CompileScriptTurns
  <2>2. CASE ~\E s \in Scripts : CompileScript(p, s)
    <3>1. ~overlapped
      BY <1>1, <2>2 DEF Step, LoadBitcode, LoadTypes, Compile, CompileFails, OpenBitcode,
         WriteBitcode, OpenTypes, WriteTypes, SetJITCacheEnabled, Reinitialize, Restart, history
    <3>2. TurnsOK
      BY <3>1 DEF TurnsInv
    <3>3. CASE \E e \in BOOLEAN : SetJITCacheEnabled(p, e)
      BY <3>2, <3>3, RestTurns DEF SetJITCacheEnabled, files, call, history
    <3>4. CASE Reinitialize(p)
      <4>1. /\ UNCHANGED <<bc, meta, life, pc, key, art, fd, foreign, m_functionReturnTypes>>
            /\ compiled' = [compiled EXCEPT ![p] = None]
            /\ m_lastAnonExprName' = [m_lastAnonExprName EXCEPT ![p] = None]
        BY <3>4 DEF Reinitialize, files, call, history
      <4>2. \A q \in Procs :
              \/ compiled'[q] = compiled[q] /\ m_lastAnonExprName'[q] = m_lastAnonExprName[q]
              \/ compiled'[q] = None
        BY <4>1 DEF CallInv, TypeOK
      <4> QED
        BY <3>2, <4>1, <4>2, RestTurns
    <3> QED
      BY <1>1, <2>2, <3>2, <3>3, <3>4, LoadBitcodeTurns, LoadTypesTurns, CompileTurns,
         CompileFailsTurns, OpenBitcodeTurns, WriteBitcodeTurns, OpenTypesTurns,
         WriteTypesTurns, RestartTurns DEF Step
  <2> QED
    BY <2>1, <2>2
<1>2. CASE Edit \/ UNCHANGED vars
  <2>1. UNCHANGED <<bc, meta, life, pc, key, art, fd, foreign, m_functionReturnTypes, compiled,
                    m_lastAnonExprName, overlapped>>
    BY <1>2 DEF Edit, vars, files, engine, call, history
  <2> QED
    BY <2>1, RestTurns DEF TurnsInv
<1> QED
  BY <1>1, <1>2, ClearTurns DEF Next

\* Processes that take turns run the code of a script with the type it was
\* compiled to return, though the types are in a file of their own and a
\* process may die between the two (compileScript, saveReturnTypes and
\* loadReturnTypes of jit_engine.cpp): a half-written entry is another
\* process's, or one of an earlier life.
THEOREM TypesFit == Spec => []TypesFitCode
<1>1. RunInv /\ TurnsInv => TypesFitCode
  <2> SUFFICES ASSUME RunInv, TurnsInv, NEW p \in Procs, compiled[p] # None, ~foreign[p], ~overlapped
               PROVE  TypeUsed(p) = kind[CodeRun(p).script]
    BY DEF TypesFitCode
  <2>1. CodeRun(p).script = compiled[p].script
    BY DEF RunInv, RunsOK
  <2>2. /\ m_functionReturnTypes[p] # Empty
        /\ m_functionReturnTypes[p].anon = m_lastAnonExprName[p]
        /\ m_functionReturnTypes[p].script = compiled[p].script
    BY DEF TurnsInv, TurnsOK, TypesKnown
  <2> QED
    BY <2>1, <2>2 DEF TypeUsed
<1> QED
  BY <1>1, InitCall, NextCall, InitRun, NextRun, InitTurns, NextTurns, PTL DEF Spec
=============================================================================
