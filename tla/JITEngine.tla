------------------------------ MODULE JITEngine ------------------------------
(***************************************************************************)
(* JITEngine::compileScript (src/jit_engine.cpp) and its cache on disk.    *)
(* Processes share the cache directory: a script's bitcode and its return  *)
(* types are two files, named by a hash of the script and of the modules   *)
(* it imports.  Each process numbers its top-level expressions from 0      *)
(* (compiler_instance.cpp, anonCounter), and the number is part of the     *)
(* name the bitcode defines.                                               *)
(*                                                                         *)
(* The steps on files are actions, those of the process alone are part of  *)
(* the action before them.  A file is truncated when it is opened to be    *)
(* written; a write to one removed meanwhile is lost.  Processes may die   *)
(* at any step.  The scripts here have a top-level expression, and import  *)
(* one module, whose file is edited.                                       *)
(***************************************************************************)
EXTENDS Naturals

CONSTANTS
    Scripts,
    Procs,
    None,
    Torn,       \* a bitcode file that does not parse
    Empty,      \* return types of nothing
    leads,      \* leads[s]: the import of s comes before any other code
    kind,       \* kind[s]: the type of the value of the top-level expression
    MaxEvents,        \* bounds, for all processes: edits and restarts together,
    MaxCompilations   \* and calls of compileToIR

ASSUME ConstantsAssumption ==
    /\ Procs # {} /\ {MaxEvents, MaxCompilations} \subseteq Nat
    /\ None \notin Scripts \cup Procs \cup Nat \cup {Torn, Empty}
    /\ leads \in [Scripts -> BOOLEAN]

Lives == 0 .. MaxEvents
Anons == 0 .. MaxCompilations - 1
Keys == Scripts \X (0 .. MaxEvents)
\* What a compilation makes: the code of a script with the imported module as
\* it was, the number of its expression, the process that made it.
Artifacts == [script : Scripts, library : 0 .. MaxEvents, anon : Anons,
              by : Procs \X Lives]
ASSUME ArtifactsAssumption == {None, Torn, Empty} \cap Artifacts = {}

VARIABLES
    library,         \* the version of the imported module's file
    bc, meta,        \* the files of each key
    life,            \* how often a process has been started again
    m_cacheEnabled,
    compilations,    \* how often compileToIR was called
    anonCounter,
    linked,          \* the code m_jit has under the name of each expression
    m_lastAnonExprName,
    m_functionReturnTypes,  \* the artifact they are of
    pc, script, key, begun, \* the call: its script, its key, library at its start
    art,             \* the artifact on its way to the files or to m_jit
    fd,              \* the file being written is still in the directory
    compiled,        \* the last call that returned true: its script and begun
    foreign,         \* history: a module another process made was loaded
    overlapped       \* history: a call began, or the cache was cleared, during another's call

files == <<library, bc, meta>>
engine == <<life, m_cacheEnabled, compilations, anonCounter, linked,
            m_lastAnonExprName, m_functionReturnTypes>>
call == <<script, key, begun, art>>
history == <<foreign, overlapped>>
vars == <<files, engine, pc, call, fd, compiled, history>>

Fresh == [n \in Anons |-> None]

Init ==
    /\ library = 0
    /\ bc = [k \in Keys |-> None] /\ meta = [k \in Keys |-> None]
    /\ life = [p \in Procs |-> 0]
    /\ compilations = 0
    /\ m_cacheEnabled = [p \in Procs |-> FALSE]
    /\ anonCounter = [p \in Procs |-> 0]
    /\ linked = [p \in Procs |-> Fresh]
    /\ m_lastAnonExprName = [p \in Procs |-> None]
    /\ m_functionReturnTypes = [p \in Procs |-> Empty]
    /\ pc = [p \in Procs |-> "idle"]
    /\ script = [p \in Procs |-> None] /\ key = [p \in Procs |-> None]
    /\ begun = [p \in Procs |-> None] /\ art = [p \in Procs |-> None]
    /\ fd = [p \in Procs |-> FALSE]
    /\ compiled = [p \in Procs |-> None]
    /\ foreign = [p \in Procs |-> FALSE]
    /\ overlapped = FALSE
----------------------------------------------------------------------------
Goto(p, l) == pc' = [pc EXCEPT ![p] = l]

\* The files of the keys K are removed: what is written to them is lost.
Remove(K) ==
    /\ bc' = [k \in Keys |-> IF k \in K THEN None ELSE bc[k]]
    /\ meta' = [k \in Keys |-> IF k \in K THEN None ELSE meta[k]]
    /\ fd' = [q \in Procs |-> fd[q] /\ key[q] \notin K]

\* The call of p returns, leaving the locals of the call behind.
Done(p) ==
    /\ Goto(p, "idle")
    /\ script' = [script EXCEPT ![p] = None] /\ key' = [key EXCEPT ![p] = None]
    /\ begun' = [begun EXCEPT ![p] = None] /\ art' = [art EXCEPT ![p] = None]

\* addModule(a), and the call returns true.  ORC refuses a name it has, but
\* the name is noted before that (flux_jit.cpp 713-717).
Link(p, a) ==
    /\ linked' = [linked EXCEPT ![p][a.anon] = IF @ = None THEN a ELSE @]
    /\ m_lastAnonExprName' = [m_lastAnonExprName EXCEPT ![p] = a.anon]
    /\ compiled' = [compiled EXCEPT ![p] = [script |-> script[p], begun |-> begun[p]]]
    /\ Done(p)

----------------------------------------------------------------------------
\* Mutant: the imported modules are left out of the key.
CompileScriptNoImports(p, s) ==
    /\ pc[p] = "idle"
    /\ LET k == <<s, 0>> IN
       /\ script' = [script EXCEPT ![p] = s] /\ key' = [key EXCEPT ![p] = k]
       /\ begun' = [begun EXCEPT ![p] = library]
       /\ Goto(p, IF m_cacheEnabled[p] /\ bc[k] # None THEN "load" ELSE "compile")
    /\ compiled' = [compiled EXCEPT ![p] = None]
    /\ overlapped' = (overlapped \/ \E q \in Procs : pc[q] # "idle")
    /\ UNCHANGED <<files, engine, art, fd, foreign>>

\* compileScript: the key covers the imported module if the import leads.
CompileScript(p, s) ==
    /\ pc[p] = "idle"
    /\ LET k == <<s, IF leads[s] THEN library ELSE 0>> IN
       /\ script' = [script EXCEPT ![p] = s] /\ key' = [key EXCEPT ![p] = k]
       /\ begun' = [begun EXCEPT ![p] = library]
       /\ Goto(p, IF m_cacheEnabled[p] /\ bc[k] # None THEN "load" ELSE "compile")
    /\ compiled' = [compiled EXCEPT ![p] = None]
    /\ overlapped' = (overlapped \/ \E q \in Procs : pc[q] # "idle")
    /\ UNCHANGED <<files, engine, art, fd, foreign>>

\* Mutant: a file that does not parse is taken for a module.
LoadBitcodeUnchecked(p) ==
    /\ pc[p] = "load"
    /\ IF bc[key[p]] = None
         THEN /\ Remove({key[p]})
              /\ Goto(p, "compile")
              /\ UNCHANGED <<art, foreign>>
         ELSE /\ art' = [art EXCEPT ![p] = bc[key[p]]]
              /\ Goto(p, "types")
              /\ UNCHANGED <<bc, meta, fd, foreign>>
    /\ UNCHANGED <<library, engine, script, key, begun, compiled, overlapped>>

\* A file that does not parse is removed with its companion, and the script
\* compiled after all.
LoadBitcode(p) ==
    /\ pc[p] = "load"
    /\ IF bc[key[p]] \in {None, Torn}
         THEN /\ Remove({key[p]})
              /\ Goto(p, "compile")
              /\ UNCHANGED <<art, foreign>>
         ELSE /\ art' = [art EXCEPT ![p] = bc[key[p]]]
              /\ foreign' = [foreign EXCEPT ![p] = @ \/ bc[key[p]].by # <<p, life[p]>>]
              /\ Goto(p, "types")
              /\ UNCHANGED <<bc, meta, fd>>
    /\ UNCHANGED <<library, engine, script, key, begun, compiled, overlapped>>

\* Mutant: the return types are not read on a hit.
LoadTypesNone(p) ==
    /\ pc[p] = "types"
    /\ Link(p, art[p])
    /\ UNCHANGED <<files, life, m_cacheEnabled, compilations, anonCounter,
                   m_functionReturnTypes, fd, history>>

\* Return types that cannot be opened leave the last ones in place.
LoadTypes(p) ==
    /\ pc[p] = "types"
    /\ m_functionReturnTypes' =
         [m_functionReturnTypes EXCEPT ![p] = IF meta[key[p]] = None THEN @ ELSE meta[key[p]]]
    /\ Link(p, art[p])
    /\ UNCHANGED <<files, life, m_cacheEnabled, compilations, anonCounter, fd, history>>

\* Mutant: the module is not read again when it was read by an earlier call.
CompileModuleKept(p) ==
    /\ pc[p] = "compile"
    /\ compilations < MaxCompilations /\ compilations' = compilations + 1
    /\ LET t == m_functionReturnTypes[p]
           a == [script |-> script[p], library |-> IF t = Empty THEN library ELSE t.library,
                 anon |-> anonCounter[p], by |-> <<p, life[p]>>] IN
       /\ anonCounter' = [anonCounter EXCEPT ![p] = @ + 1]
       /\ m_functionReturnTypes' = [m_functionReturnTypes EXCEPT ![p] = a]
       /\ IF m_cacheEnabled[p]
            THEN /\ art' = [art EXCEPT ![p] = a] /\ Goto(p, "open")
                 /\ UNCHANGED <<linked, m_lastAnonExprName, script, key, begun, compiled>>
            ELSE Link(p, a)
    /\ UNCHANGED <<files, life, m_cacheEnabled, fd, history>>

\* compileToIR reads the module's file and numbers the expression.
Compile(p) ==
    /\ pc[p] = "compile"
    /\ compilations < MaxCompilations /\ compilations' = compilations + 1
    /\ LET a == [script |-> script[p], library |-> library,
                 anon |-> anonCounter[p], by |-> <<p, life[p]>>] IN
       /\ anonCounter' = [anonCounter EXCEPT ![p] = @ + 1]
       /\ m_functionReturnTypes' = [m_functionReturnTypes EXCEPT ![p] = a]
       /\ IF m_cacheEnabled[p]
            THEN /\ art' = [art EXCEPT ![p] = a] /\ Goto(p, "open")
                 /\ UNCHANGED <<linked, m_lastAnonExprName, script, key, begun, compiled>>
            ELSE Link(p, a)
    /\ UNCHANGED <<files, life, m_cacheEnabled, fd, history>>

\* The script does not compile; by then its expression may have a number.
CompileFails(p) ==
    /\ pc[p] = "compile"
    /\ compilations < MaxCompilations /\ compilations' = compilations + 1
    /\ \E n \in 0 .. 1 : anonCounter' = [anonCounter EXCEPT ![p] = @ + n]
    /\ Done(p)
    /\ UNCHANGED <<files, life, m_cacheEnabled, linked, m_lastAnonExprName,
                   m_functionReturnTypes, fd, compiled, history>>
----------------------------------------------------------------------------
\* saveBitcodeToFile and saveReturnTypes: each file is opened and written.
OpenBitcode(p) ==
    /\ pc[p] = "open"
    /\ bc' = [bc EXCEPT ![key[p]] = Torn]
    /\ fd' = [fd EXCEPT ![p] = TRUE]
    /\ Goto(p, "write")
    /\ UNCHANGED <<library, meta, engine, call, compiled, history>>

WriteBitcode(p) ==
    /\ pc[p] = "write"
    /\ bc' = IF fd[p] THEN [bc EXCEPT ![key[p]] = art[p]] ELSE bc
    /\ fd' = [fd EXCEPT ![p] = FALSE]
    /\ Goto(p, "openTypes")
    /\ UNCHANGED <<library, meta, engine, call, compiled, history>>

OpenTypes(p) ==
    /\ pc[p] = "openTypes"
    /\ meta' = [meta EXCEPT ![key[p]] = Empty]
    /\ fd' = [fd EXCEPT ![p] = TRUE]
    /\ Goto(p, "writeTypes")
    /\ UNCHANGED <<library, bc, engine, call, compiled, history>>

WriteTypes(p) ==
    /\ pc[p] = "writeTypes"
    /\ meta' = IF fd[p] THEN [meta EXCEPT ![key[p]] = art[p]] ELSE meta
    /\ fd' = [fd EXCEPT ![p] = FALSE]
    /\ Link(p, art[p])
    /\ UNCHANGED <<library, bc, life, m_cacheEnabled, compilations, anonCounter,
                   m_functionReturnTypes, history>>
----------------------------------------------------------------------------
SetJITCacheEnabled(p, e) ==
    /\ pc[p] = "idle"
    /\ m_cacheEnabled' = [m_cacheEnabled EXCEPT ![p] = e]
    /\ UNCHANGED <<files, life, compilations, anonCounter, linked, m_lastAnonExprName,
                   m_functionReturnTypes, pc, call, fd, compiled, history>>

\* finalize and initialize: a new FluxJIT, the cache off, the types as before.
Reinitialize(p) ==
    /\ pc[p] = "idle"
    /\ linked' = [linked EXCEPT ![p] = Fresh]
    /\ m_lastAnonExprName' = [m_lastAnonExprName EXCEPT ![p] = None]
    /\ m_cacheEnabled' = [m_cacheEnabled EXCEPT ![p] = FALSE]
    /\ compiled' = [compiled EXCEPT ![p] = None]
    /\ UNCHANGED <<files, life, compilations, anonCounter, m_functionReturnTypes, pc, call,
                   fd, history>>

\* clearJITCache, from any process.
ClearJITCache ==
    /\ Remove(Keys)
    /\ overlapped' = (overlapped \/ \E q \in Procs : pc[q] # "idle")
    /\ UNCHANGED <<library, engine, pc, call, compiled, foreign>>

Edit ==
    /\ \A p \in Procs : library + life[p] < MaxEvents
    /\ library' = library + 1
    /\ UNCHANGED <<bc, meta, engine, pc, call, fd, compiled, history>>

\* p ends or dies, and is started again; a file it was writing stays as it is.
Restart(p) ==
    /\ \A q \in Procs : library + life[q] < MaxEvents
    /\ life' = [life EXCEPT ![p] = @ + 1]
    /\ m_cacheEnabled' = [m_cacheEnabled EXCEPT ![p] = FALSE]
    /\ anonCounter' = [anonCounter EXCEPT ![p] = 0]
    /\ linked' = [linked EXCEPT ![p] = Fresh]
    /\ m_lastAnonExprName' = [m_lastAnonExprName EXCEPT ![p] = None]
    /\ m_functionReturnTypes' = [m_functionReturnTypes EXCEPT ![p] = Empty]
    /\ Done(p)
    /\ fd' = [fd EXCEPT ![p] = FALSE]
    /\ compiled' = [compiled EXCEPT ![p] = None]
    /\ foreign' = [foreign EXCEPT ![p] = FALSE]
    /\ UNCHANGED <<files, compilations, overlapped>>

Step(p) ==
    \/ \E s \in Scripts : CompileScript(p, s)
    \/ LoadBitcode(p) \/ LoadTypes(p) \/ Compile(p) \/ CompileFails(p)
    \/ OpenBitcode(p) \/ WriteBitcode(p) \/ OpenTypes(p) \/ WriteTypes(p)
    \/ \E e \in BOOLEAN : SetJITCacheEnabled(p, e)
    \/ Reinitialize(p) \/ Restart(p)

Next == (\E p \in Procs : Step(p)) \/ ClearJITCache \/ Edit

Spec == Init /\ [][Next]_vars
----------------------------------------------------------------------------
TypeOK ==
    /\ library \in 0 .. MaxEvents
    /\ bc \in [Keys -> Artifacts \cup {None, Torn}]
    /\ meta \in [Keys -> Artifacts \cup {None, Empty}]
    /\ life \in [Procs -> Lives]
    /\ m_cacheEnabled \in [Procs -> BOOLEAN]
    /\ compilations \in 0 .. MaxCompilations
    /\ anonCounter \in [Procs -> 0 .. MaxCompilations]
    /\ linked \in [Procs -> [Anons -> Artifacts \cup {None}]]
    /\ m_lastAnonExprName \in [Procs -> Anons \cup {None}]
    /\ m_functionReturnTypes \in [Procs -> Artifacts \cup {Empty}]
    /\ pc \in [Procs -> {"idle", "load", "types", "compile", "open", "write", "openTypes", "writeTypes"}]
    /\ script \in [Procs -> Scripts \cup {None}]
    /\ key \in [Procs -> Keys \cup {None}]
    /\ begun \in [Procs -> 0 .. MaxEvents \cup {None}]
    /\ art \in [Procs -> Artifacts \cup {None}]
    /\ fd \in [Procs -> BOOLEAN]
    /\ compiled \in [Procs -> [script : Scripts, begun : 0 .. MaxEvents] \cup {None}]
    /\ foreign \in [Procs -> BOOLEAN]

\* What callFunction("__anon_expr") calls then, and as which type: a name
\* without a return type is taken for a Double.
CodeRun(p) == linked[p][m_lastAnonExprName[p]]
TypeUsed(p) ==
    LET t == m_functionReturnTypes[p] IN
    IF t # Empty /\ t.anon = m_lastAnonExprName[p] THEN kind[t.script] ELSE "Double"

(* Whatever processes race for a key, or die at it, a bitcode file never    *)
(* holds the code of another script, nor code made before an edit of the    *)
(* module its key covers.                                                   *)
EntryFitsKey ==
    \A k \in Keys : bc[k] \notin {None, Torn} =>
        /\ bc[k].script = k[1]
        /\ leads[k[1]] => bc[k].library >= k[2]

(* The code that is run after compileScript is that of its script, and no   *)
(* older than the call if the import leads: as long as the process has only *)
(* loaded bitcode it made, whose expressions have the numbers it gave.      *)
RunsWhatItCompiled ==
    \A p \in Procs : compiled[p] # None /\ ~foreign[p] =>
        /\ CodeRun(p) # None
        /\ CodeRun(p).script = compiled[p].script
        /\ leads[compiled[p].script] => CodeRun(p).library >= compiled[p].begun

(* Processes that take turns, and load only bitcode they made since they    *)
(* started, find the types that belong to their code: callFunction calls it *)
(* with the type it was compiled to return.                                 *)
TypesFitCode ==
    \A p \in Procs : compiled[p] # None /\ ~foreign[p] /\ ~overlapped =>
        TypeUsed(p) = kind[CodeRun(p).script]
=============================================================================
