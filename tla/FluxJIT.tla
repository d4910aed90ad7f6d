------------------------------- MODULE FluxJIT -------------------------------
(***************************************************************************)
(* The tiers of src/jit/flux_jit.cpp.  A module is added once and its code *)
(* runs as it is compiled (plain); a function that was looked up Threshold *)
(* times, or that promoteFunction is called for, is compiled again from IR *)
(* saved when its module was added (promoted), and a jump to the new code  *)
(* is written over the old.                                                *)
(*                                                                         *)
(* The code under a name is of one of three kinds, "host" all native code: *)
(* what the host registers and what the process defines.  addModule runs   *)
(* under JITEngine's compile mutex, one call at a time; registerFunction,  *)
(* getPointerToFunction and promoteFunction run on any thread, during an   *)
(* addModule too.  A section under m_fnMapMutex is an action, and so is a  *)
(* call of ORC.  m_savedModules and m_callCounts are also used without the *)
(* mutex; each use is taken to be atomic.  Profiling is off, its default.  *)
(***************************************************************************)
EXTENDS Naturals, FiniteSets

CONSTANTS
    Names,      \* functions that modules, the host or the process define
    Modules,
    Threads,    \* threads that register, look up and promote functions
    None,
    defines,    \* defines[m]: the external functions of module m
    callee,     \* callee[m]: which function each of them calls, or None
    fate,       \* fate[m]: "ok", "invalid" (verifier), "clash" (addIRModule fails)
    Threshold,  \* m_autoPromoteThreshold
    Redirectable  \* the kinds of code a jump of 32 bits can be written over

Host == "host"
Kinds == {"plain", "host", "promoted"}

ASSUME ConstantsAssumption ==
    /\ None \notin Names \cup Modules \cup Threads \cup Kinds \cup Nat
    /\ Host \notin Modules
    /\ Threshold \in Nat \ {0}
    /\ Redirectable \subseteq {"plain", "host"}
ASSUME ModulesAssumption ==
    /\ defines \in [Modules -> SUBSET Names]
    /\ callee \in [Modules -> [Names -> Names \cup {None}]]
    /\ fate \in [Modules -> {"ok", "invalid", "clash"}]

VARIABLES
    added,            \* the modules addModule was called with
    adding,           \* the one it is working on, or None
    addPc,            \* what it does next
    unchecked,        \* the functions it has not compared with m_moduleSymbols
    private,          \* private[m]: the names internalised in m
    m_savedModules,   \* the first module whose IR of each name was saved
    home,             \* what ORC has under each name: a module, Host or None
    processSymbols,   \* the names dlsym finds
    m_moduleSymbols,
    m_functionPtrs,
    m_promotedPtrs,   \* the names with an entry
    promotedFrom,     \* the module a name's promoted code was made from
    m_callCounts,     \* None: no entry
    patched,          \* the old code that has become a jump: kind and name
    native,           \* history: names under which native code was found
    first,            \* history: names registered before any module exports them
    unseen,           \* history: names promoted though no pointer was cached
    pc, name, ptr, original  \* of each thread inside a function

moduleVars == <<added, adding, addPc, unchecked, private, m_savedModules>>
symbolVars == <<home, processSymbols, m_moduleSymbols, first>>
tierVars == <<m_promotedPtrs, promotedFrom, patched, unseen>>
cacheVars == <<m_functionPtrs, m_callCounts, native>>
threadVars == <<pc, name, ptr, original>>
vars == <<moduleVars, symbolVars, tierVars, cacheVars, threadVars>>

\* The process may define any of the names.
Init ==
    /\ added = {} /\ adding = None /\ addPc = "check" /\ unchecked = {}
    /\ private = [m \in Modules |-> {}]
    /\ m_savedModules = [n \in Names |-> None]
    /\ home = [n \in Names |-> None]
    /\ processSymbols \in SUBSET Names
    /\ m_moduleSymbols = {}
    /\ m_functionPtrs = [n \in Names |-> None]
    /\ m_promotedPtrs = {}
    /\ promotedFrom = [n \in Names |-> None]
    /\ m_callCounts = [n \in Names |-> None]
    /\ patched = {} /\ native = {} /\ first = {} /\ unseen = {}
    /\ pc = [th \in Threads |-> "idle"]
    /\ name = [th \in Threads |-> None]
    /\ ptr = [th \in Threads |-> None]
    /\ original = [th \in Threads |-> None]
----------------------------------------------------------------------------
\* addModule.
AddModule(m) ==
    /\ adding = None
    /\ m \notin added
    /\ added' = added \cup {m}
    /\ adding' = m /\ addPc' = "check"
    /\ unchecked' = defines[m]
    /\ UNCHANGED <<private, m_savedModules, symbolVars, tierVars, cacheVars, threadVars>>

\* Mutant: a function whose name is taken stays external.
AddCheckKeep(n) ==
    /\ n \in unchecked
    /\ unchecked' = unchecked \ {n}
    /\ UNCHANGED <<added, adding, addPc, private, m_savedModules,
                   symbolVars, tierVars, cacheVars, threadVars>>

\* A function whose name is taken becomes private to the module.
AddCheck(n) ==
    /\ n \in unchecked
    /\ unchecked' = unchecked \ {n}
    /\ private' = IF n \in m_moduleSymbols
                    THEN [private EXCEPT ![adding] = @ \cup {n}] ELSE private
    /\ UNCHANGED <<added, adding, addPc, m_savedModules,
                   symbolVars, tierVars, cacheVars, threadVars>>

Exported(m) == defines[m] \ private[m]

\* Mutant: the IR saved last is kept, that of private duplicates included.
AddSaveLast ==
    /\ adding # None /\ addPc = "check" /\ unchecked = {}
    /\ m_savedModules' = [n \in Names |-> IF n \in defines[adding]
                                             THEN adding ELSE m_savedModules[n]]
    /\ IF fate[adding] = "invalid"
         THEN adding' = None /\ UNCHANGED addPc
         ELSE addPc' = "link" /\ UNCHANGED adding
    /\ UNCHANGED <<added, unchecked, private, symbolVars, tierVars, cacheVars, threadVars>>

\* The IR of each other function is saved, also when the verifier then refuses
\* the module.
AddSave ==
    /\ adding # None /\ addPc = "check" /\ unchecked = {}
    /\ m_savedModules' = [n \in Names |-> IF n \in Exported(adding) /\ m_savedModules[n] = None
                                             THEN adding ELSE m_savedModules[n]]
    /\ IF fate[adding] = "invalid"
         THEN adding' = None /\ UNCHANGED addPc
         ELSE addPc' = "link" /\ UNCHANGED adding
    /\ UNCHANGED <<added, unchecked, private, symbolVars, tierVars, cacheVars, threadVars>>

\* ORC takes the module, or refuses all of it if it defines a name again.
AddLink ==
    /\ adding # None /\ addPc = "link"
    /\ IF fate[adding] = "clash" \/ \E n \in Exported(adding) : home[n] # None
         THEN adding' = None /\ UNCHANGED <<addPc, home>>
         ELSE /\ home' = [n \in Names |-> IF n \in Exported(adding) THEN adding ELSE home[n]]
              /\ addPc' = "symbols" /\ UNCHANGED adding
    /\ UNCHANGED <<added, unchecked, private, m_savedModules, processSymbols,
                   m_moduleSymbols, first, tierVars, cacheVars, threadVars>>

AddSymbols ==
    /\ adding # None /\ addPc = "symbols"
    /\ addPc' = "counts"
    /\ m_moduleSymbols' = m_moduleSymbols \cup Exported(adding)
    /\ UNCHANGED <<added, adding, unchecked, private, m_savedModules, home, processSymbols,
                   first, tierVars, cacheVars, threadVars>>

AddCounts ==
    /\ adding # None /\ addPc = "counts"
    /\ adding' = None
    /\ m_callCounts' = [n \in Names |-> IF n \in Exported(adding) THEN 0 ELSE m_callCounts[n]]
    /\ UNCHANGED <<added, addPc, unchecked, private, m_savedModules, symbolVars, tierVars,
                   m_functionPtrs, native, threadVars>>
----------------------------------------------------------------------------
Goto(th, l) == pc' = [pc EXCEPT ![th] = l]
\* th has its pointer and is not inside a function any more.
Return(th) == Goto(th, "idle")

\* registerFunction caches the host's address, ...
RegisterPointer(th, n) ==
    /\ pc[th] = "idle"
    /\ Goto(th, "define")
    /\ name' = [name EXCEPT ![th] = n]
    /\ ptr' = [ptr EXCEPT ![th] = None]
    /\ original' = [original EXCEPT ![th] = None]
    /\ m_functionPtrs' = [m_functionPtrs EXCEPT ![n] = "host"]
    /\ native' = native \cup {n}
    /\ UNCHANGED <<moduleVars, symbolVars, tierVars, m_callCounts>>

\* ... defines it, which does nothing if ORC has the name, for ORC and for
\* dlsym, ...
RegisterDefine(th) ==
    /\ pc[th] = "define"
    /\ Goto(th, "symbol")
    /\ home' = [home EXCEPT ![name[th]] = IF @ = None THEN Host ELSE @]
    /\ processSymbols' = processSymbols \cup {name[th]}
    /\ UNCHANGED <<moduleVars, m_moduleSymbols, first, tierVars, cacheVars, name, ptr, original>>

\* Each module that defines n has been made to keep it private, or will be.
Reserved(n) ==
    \A m \in added : n \in defines[m] => n \in private[m] \/ (m = adding /\ n \in unchecked)

\* ... and reserves the name.
RegisterSymbol(th) ==
    /\ pc[th] = "symbol"
    /\ Return(th)
    /\ m_moduleSymbols' = m_moduleSymbols \cup {name[th]}
    /\ first' = IF Reserved(name[th]) THEN first \cup {name[th]} ELSE first
    /\ UNCHANGED <<moduleVars, home, processSymbols, tierVars, cacheVars, name, ptr, original>>
----------------------------------------------------------------------------
\* getPointerToFunction: the cached pointer, or a lookup.
Lookup(th, n) ==
    /\ pc[th] = "idle"
    /\ name' = [name EXCEPT ![th] = n]
    /\ original' = [original EXCEPT ![th] = None]
    /\ ptr' = [ptr EXCEPT ![th] = m_functionPtrs[n]]
    /\ Goto(th, IF m_functionPtrs[n] = None THEN "resolve" ELSE "count")
    /\ UNCHANGED <<moduleVars, symbolVars, tierVars, cacheVars>>

\* ORC's answer.
Resolve(th) ==
    /\ pc[th] = "resolve"
    /\ IF home[name[th]] = None
         THEN Goto(th, "fallback") /\ UNCHANGED ptr
         ELSE /\ ptr' = [ptr EXCEPT ![th] = IF home[name[th]] = Host THEN "host" ELSE "plain"]
              /\ Goto(th, "store")
    /\ UNCHANGED <<moduleVars, symbolVars, tierVars, cacheVars, name, original>>

\* Without one, dlsym's; without that the call fails.
Fallback(th) ==
    /\ pc[th] = "fallback"
    /\ IF name[th] \in processSymbols
         THEN /\ ptr' = [ptr EXCEPT ![th] = "host"]
              /\ native' = native \cup {name[th]}
              /\ Goto(th, "store")
         ELSE Return(th) /\ UNCHANGED <<ptr, native>>
    /\ UNCHANGED <<moduleVars, symbolVars, tierVars, m_functionPtrs, m_callCounts, name, original>>

\* It is cached, whatever the cache holds by now.
Store(th) ==
    /\ pc[th] = "store"
    /\ m_functionPtrs' = [m_functionPtrs EXCEPT ![name[th]] = ptr[th]]
    /\ Goto(th, "count")
    /\ UNCHANGED <<moduleVars, symbolVars, tierVars, m_callCounts, native, name, ptr, original>>

\* The call is counted if the name has a counter; the counter stops here at
\* Threshold.
Count(th) ==
    /\ pc[th] = "count"
    /\ LET n == name[th] IN
       IF m_callCounts[n] = None
         THEN Return(th) /\ UNCHANGED m_callCounts
         ELSE /\ m_callCounts' = [m_callCounts EXCEPT ![n] = IF @ < Threshold THEN @ + 1 ELSE @]
              /\ IF m_callCounts'[n] = Threshold /\ n \notin m_promotedPtrs
                   THEN Goto(th, "promote")
                   ELSE Return(th)
    /\ UNCHANGED <<moduleVars, symbolVars, tierVars, m_functionPtrs, native, name, ptr, original>>

ResetCallCounts ==
    /\ m_callCounts' = [n \in Names |-> IF m_callCounts[n] = None THEN None ELSE 0]
    /\ UNCHANGED <<moduleVars, symbolVars, tierVars, m_functionPtrs, native, threadVars>>
----------------------------------------------------------------------------
\* promoteFunction, called for any name, looked up before or not.
PromoteCall(th, n) ==
    /\ pc[th] = "idle"
    /\ Goto(th, "promote")
    /\ name' = [name EXCEPT ![th] = n]
    /\ ptr' = [ptr EXCEPT ![th] = None]
    /\ original' = [original EXCEPT ![th] = None]
    /\ UNCHANGED <<moduleVars, symbolVars, tierVars, cacheVars>>

\* It returns what another thread has made ...
PromoteCheck(th) ==
    /\ pc[th] = "promote"
    /\ IF name[th] \in m_promotedPtrs
         THEN Return(th) /\ ptr' = [ptr EXCEPT ![th] = "promoted"]
         ELSE Goto(th, "original") /\ UNCHANGED ptr
    /\ UNCHANGED <<moduleVars, symbolVars, tierVars, cacheVars, name, original>>

\* ... or takes the address to redirect, ...
PromoteOriginal(th) ==
    /\ pc[th] = "original"
    /\ original' = [original EXCEPT ![th] = m_functionPtrs[name[th]]]
    /\ Goto(th, "saved")
    /\ UNCHANGED <<moduleVars, symbolVars, tierVars, cacheVars, name, ptr>>

\* ... and the saved IR, ...
PromoteSaved(th) ==
    /\ pc[th] = "saved"
    /\ IF m_savedModules[name[th]] = None THEN Return(th) ELSE Goto(th, "link")
    /\ UNCHANGED <<moduleVars, symbolVars, tierVars, cacheVars, name, ptr, original>>

\* The promoted code of n, made from the saved IR, is the one used from now on.
Promoted(th, n) ==
    /\ promotedFrom' = [promotedFrom EXCEPT ![n] = IF @ = None THEN m_savedModules[n] ELSE @]
    /\ m_promotedPtrs' = m_promotedPtrs \cup {n}
    /\ m_functionPtrs' = [m_functionPtrs EXCEPT ![n] = "promoted"]
    /\ ptr' = [ptr EXCEPT ![th] = "promoted"]

\* Mutant: the address to redirect is read when it has been overwritten.
PromoteLinkOriginalAfter(th) ==
    /\ pc[th] = "link"
    /\ \/ UNCHANGED <<tierVars, m_functionPtrs, ptr, original>>
       \/ /\ Promoted(th, name[th])
          /\ unseen' = IF original[th] = None /\ name[th] \notin m_promotedPtrs
                         THEN unseen \cup {name[th]} ELSE unseen
          /\ original' = [original EXCEPT ![th] = "promoted"]
          /\ UNCHANGED patched
    /\ Return(th)
    /\ UNCHANGED <<moduleVars, symbolVars, m_callCounts, native, name>>

\* Mutant: whatever address was found is redirected, the new code included.
PromoteLinkSelf(th) ==
    /\ pc[th] = "link"
    /\ \/ Return(th) /\ UNCHANGED <<tierVars, m_functionPtrs, ptr>>
       \/ /\ Promoted(th, name[th])
          /\ unseen' = IF original[th] = None /\ name[th] \notin m_promotedPtrs
                         THEN unseen \cup {name[th]} ELSE unseen
          /\ IF original[th] = None THEN Return(th) ELSE Goto(th, "redirect")
          /\ UNCHANGED patched
    /\ UNCHANGED <<moduleVars, symbolVars, m_callCounts, native, name, original>>

\* ... links a copy under a new name (a second copy is refused, and the first
\* found), or fails: the plain code stays, and the next call tries again.
PromoteLink(th) ==
    /\ pc[th] = "link"
    /\ \/ Return(th) /\ UNCHANGED <<tierVars, m_functionPtrs, ptr>>
       \/ /\ Promoted(th, name[th])
          /\ unseen' = IF original[th] = None /\ name[th] \notin m_promotedPtrs
                         THEN unseen \cup {name[th]} ELSE unseen
          /\ IF original[th] \in {None, "promoted"} THEN Return(th) ELSE Goto(th, "redirect")
          /\ UNCHANGED patched
    /\ UNCHANGED <<moduleVars, symbolVars, m_callCounts, native, name, original>>

\* redirectFunction writes the jump, unless the code is out of its reach.
Redirect(th) ==
    /\ pc[th] = "redirect"
    /\ patched' = IF original[th] \in Redirectable \cup {"promoted"}
                    THEN patched \cup {<<original[th], name[th]>>} ELSE patched
    /\ Return(th)
    /\ UNCHANGED <<moduleVars, symbolVars, m_promotedPtrs, promotedFrom, unseen, cacheVars,
                   name, ptr, original>>

AddStep ==
    \/ \E m \in Modules : AddModule(m)
    \/ \E n \in unchecked : AddCheck(n)
    \/ AddSave \/ AddLink \/ AddSymbols \/ AddCounts

CallStep(th) ==
    \/ RegisterDefine(th) \/ RegisterSymbol(th)
    \/ Resolve(th) \/ Fallback(th) \/ Store(th) \/ Count(th)
    \/ PromoteCheck(th) \/ PromoteOriginal(th) \/ PromoteSaved(th) \/ PromoteLink(th)
    \/ Redirect(th)

Call(th, n) == RegisterPointer(th, n) \/ Lookup(th, n) \/ PromoteCall(th, n)

Next ==
    \/ AddStep
    \/ \E th \in Threads : CallStep(th) \/ \E n \in Names : Call(th, n)
    \/ ResetCallCounts

Spec == Init /\ [][Next]_vars
----------------------------------------------------------------------------
Pcs == {"idle", "define", "symbol", "resolve", "fallback", "store", "count",
        "promote", "original", "saved", "link", "redirect"}

TypeOK ==
    /\ added \in SUBSET Modules /\ adding \in Modules \cup {None}
    /\ addPc \in {"check", "link", "symbols", "counts"} /\ unchecked \in SUBSET Names
    /\ private \in [Modules -> SUBSET Names]
    /\ m_savedModules \in [Names -> Modules \cup {None}]
    /\ home \in [Names -> Modules \cup {Host, None}]
    /\ processSymbols \in SUBSET Names /\ m_moduleSymbols \in SUBSET Names
    /\ m_functionPtrs \in [Names -> Kinds \cup {None}]
    /\ m_promotedPtrs \in SUBSET Names
    /\ promotedFrom \in [Names -> Modules \cup {None}]
    /\ m_callCounts \in [Names -> 0 .. Threshold \cup {None}]
    /\ patched \in SUBSET ({"plain", "host"} \X Names)
    /\ native \in SUBSET Names /\ first \in SUBSET Names /\ unseen \in SUBSET Names
    /\ pc \in [Threads -> Pcs]
    /\ name \in [Threads -> Names \cup {None}]
    /\ ptr \in [Threads -> Kinds \cup {None}]
    /\ original \in [Threads -> Kinds \cup {None}]

\* The pointers to n that threads hold or will be given, and those in the code
\* of the modules that call it.
Pointers(n) ==
    {m_functionPtrs[n]} \cup {ptr[th] : th \in {x \in Threads : name[x] = n}}
        \cup (IF home[n] \in Modules THEN {"plain"} ELSE {})

(* flux_jit.cpp 927, "This redirects ALL existing callers (JIT-to-JIT calls *)
(* that embedded the O0 address)": once a function is promoted, and nobody  *)
(* is about to write the jump, each pointer to it leads to the promoted     *)
(* code: one embedded in a module, and one looked up before and cached      *)
(* after.  Not so where promoteFunction was called before any pointer was   *)
(* cached (line 928 writes no jump then), and where native code was found   *)
(* under the name.                                                          *)
AllCallersRedirected ==
    \A n \in m_promotedPtrs \ (native \cup unseen) :
        "plain" \in Redirectable /\ (\A th \in Threads : name[th] = n => pc[th] # "redirect") =>
            \A p \in Pointers(n) \ {None, "promoted"} : <<p, n>> \in patched

(* Registering a function reserves its name (flux_jit.cpp 1089, "to prevent *)
(* duplicate definition conflicts when addModule tries to define a function *)
(* with the same name"): if registerFunction ended before any module had    *)
(* the name past its check, ORC and the cache keep the host's code, and it  *)
(* is never overwritten by a jump, whatever is looked up, promoted and      *)
(* added after, or is being added.                                          *)
HostCodeIntact ==
    \A n \in first :
        /\ home[n] = Host /\ m_functionPtrs[n] = "host"
        /\ <<"host", n>> \notin patched

(* A function that is counted can be promoted: its IR was saved.  What is   *)
(* compiled then is a definition its module exported, never a private       *)
(* duplicate: that of the module its plain code is of, or of one that was   *)
(* refused before.                                                          *)
PromotedFromDefinition ==
    \A n \in Names :
        /\ m_callCounts[n] # None => m_savedModules[n] # None
        /\ promotedFrom[n] # None /\ home[n] \in Modules =>
               /\ n \in Exported(promotedFrom[n])
               /\ promotedFrom[n] = home[n] \/ \A k \in Names : home[k] # promotedFrom[n]

(* flux_jit.cpp 659, "stdlib duplicates become private per-module": the     *)
(* promoted code of a function comes from the module its plain code is of,  *)
(* and calls what that calls: the module's own duplicate, if it has one.    *)
PromotionKeepsBehaviour ==
    \A n \in m_promotedPtrs \ native :
        home[n] \in Modules =>
            /\ promotedFrom[n] = home[n]
            /\ callee[home[n]][n] \notin private[home[n]]
=============================================================================
