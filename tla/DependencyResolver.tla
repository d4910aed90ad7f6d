-------------------------- MODULE DependencyResolver --------------------------
(***************************************************************************)
(* DependencyResolver::resolve (src/package/dependency_resolver.cpp): for  *)
(* each root dependency in turn, and depth first for theirs, the highest   *)
(* version that fits is taken and never reconsidered.                      *)
(*                                                                         *)
(* The recursion of resolveRecursive is a stack: one action enters a call, *)
(* one calls it for the next dependency, one returns from it, and one      *)
(* unwinds everything when a call fails.  Versions are numbered in their   *)
(* order, 0 being 0.0.0, the value that stands for "none" in the code.     *)
(***************************************************************************)
EXTENDS Naturals, Sequences, FiniteSets

CONSTANTS
    Packages,
    LastVersion,
    None,
    Constraints,  \* the constraints dependencies may have
    Registries,   \* what may have been registered: for each package and
                  \* version None or the sequence of its dependencies
    Roots,        \* what may be asked for: sequences of dependencies
    MaxDepth      \* 100

Versions == 0 .. LastVersion
Types == {"Any", "Exact", "GTE", "LTE", "GT", "LT", "Caret", "Tilde", "Range"}
Dependencies == [name : Packages, constraint : Constraints]
Highest(V) == CHOOSE v \in V : \A w \in V : w <= v

ASSUME ConstantsAssumption ==
    /\ LastVersion \in Nat /\ MaxDepth \in Nat
    /\ None \notin Versions \cup Dependencies \cup Seq(Dependencies) \cup {"success", "failure"}
    /\ Constraints \subseteq [type : Types, min_version : Versions, max_version : Nat]
ASSUME RegistriesAssumption ==
    /\ Registries \subseteq [Packages \X Versions -> Seq(Dependencies) \cup {None}]
    /\ Roots \subseteq Seq(Dependencies)

VARIABLES
    m_registry,
    root_deps, done,  \* the request, and how many of its dependencies are resolved
    resolved,
    stack,   \* the packages being resolved, each with its next dependency
    calling, \* the dependency resolveRecursive was just called for, or None
    result

vars == <<m_registry, root_deps, done, resolved, stack, calling, result>>

Init ==
    /\ m_registry \in Registries
    /\ root_deps \in Roots
    /\ done = 0
    /\ resolved = [p \in Packages |-> None]
    /\ stack = <<>> /\ calling = None
    /\ result = None
----------------------------------------------------------------------------
Satisfies(c, v) ==
    \/ c.type = "Any"
    \/ c.type = "Exact" /\ v = c.min_version
    \/ c.type = "GTE" /\ v >= c.min_version
    \/ c.type = "LTE" /\ v <= c.min_version
    \/ c.type = "GT" /\ v > c.min_version
    \/ c.type = "LT" /\ v < c.min_version
    \/ c.type \in {"Caret", "Tilde", "Range"} /\ c.min_version <= v /\ v < c.max_version

DependenciesOf(p, v) == {m_registry[p, v][i] : i \in DOMAIN m_registry[p, v]}
Available(p) == {v \in Versions : m_registry[p, v] # None}

\* The versions selectBestVersion chooses from.
Candidates(d) ==
    {v \in Available(d.name) :
        /\ Satisfies(d.constraint, v)
        /\ \A e \in DependenciesOf(d.name, v) :
               resolved[e.name] # None => Satisfies(e.constraint, resolved[e.name])}

\* Mutant: the versions are gone through from the lowest.
selectBestVersionLowest(d) ==
    IF Candidates(d) = {} THEN 0 ELSE CHOOSE v \in Candidates(d) : \A w \in Candidates(d) : v <= w

selectBestVersion(d) == IF Candidates(d) = {} THEN 0 ELSE Highest(Candidates(d))

Top == stack[Len(stack)]
----------------------------------------------------------------------------
\* resolve calls resolveRecursive for its next root.
CallRoot ==
    /\ result = None /\ calling = None /\ stack = <<>>
    /\ IF done < Len(root_deps)
         THEN calling' = root_deps[done + 1] /\ UNCHANGED result
         ELSE result' = "success" /\ UNCHANGED calling
    /\ UNCHANGED <<m_registry, root_deps, done, resolved, stack>>

\* Mutant: the loop over the dependencies stays at the first.
CallDependencyAgain ==
    /\ calling = None /\ stack # <<>>
    /\ LET deps == m_registry[Top.name, resolved[Top.name]] IN
       /\ Top.next <= Len(deps)
       /\ calling' = deps[Top.next]
    /\ UNCHANGED <<m_registry, root_deps, done, resolved, stack, result>>

\* resolveRecursive calls itself for the next dependency of its package ...
CallDependency ==
    /\ calling = None /\ stack # <<>>
    /\ LET deps == m_registry[Top.name, resolved[Top.name]] IN
       /\ Top.next <= Len(deps)
       /\ calling' = deps[Top.next]
       /\ stack' = [stack EXCEPT ![Len(stack)].next = @ + 1]
    /\ UNCHANGED <<m_registry, root_deps, done, resolved, result>>

\* A call of the root level has returned true.
DoneIfRoot == done' = IF Len(stack') = 0 THEN done + 1 ELSE done

\* ... or returns when there is none left.
Return ==
    /\ calling = None /\ stack # <<>>
    /\ Top.next > Len(m_registry[Top.name, resolved[Top.name]])
    /\ stack' = SubSeq(stack, 1, Len(stack) - 1)
    /\ DoneIfRoot
    /\ UNCHANGED <<m_registry, root_deps, resolved, calling, result>>

\* Mutant: a package that is resolved already fits any constraint.
EnterResolvedUnchecked ==
    /\ calling # None
    /\ Len(stack) <= MaxDepth
    /\ resolved[calling.name] # None
    /\ calling' = None
    /\ UNCHANGED stack
    /\ DoneIfRoot
    /\ UNCHANGED <<m_registry, root_deps, resolved, result>>

\* The package is resolved already, to a version that fits.
EnterResolved ==
    /\ calling # None
    /\ Len(stack) <= MaxDepth
    /\ resolved[calling.name] # None
    /\ Satisfies(calling.constraint, resolved[calling.name])
    /\ calling' = None
    /\ UNCHANGED stack
    /\ DoneIfRoot
    /\ UNCHANGED <<m_registry, root_deps, resolved, result>>

\* Mutant: a package that is resolved already is gone through again.
EnterSelectAgain ==
    /\ calling # None
    /\ Len(stack) <= MaxDepth
    /\ selectBestVersion(calling) # 0
    /\ resolved' = [resolved EXCEPT ![calling.name] = selectBestVersion(calling)]
    /\ stack' = Append(stack, [name |-> calling.name, next |-> 1])
    /\ calling' = None
    /\ UNCHANGED <<m_registry, root_deps, done, result>>

\* A version is selected; its dependencies follow.
EnterSelect ==
    /\ calling # None
    /\ Len(stack) <= MaxDepth
    /\ resolved[calling.name] = None
    /\ selectBestVersion(calling) # 0
    /\ resolved' = [resolved EXCEPT ![calling.name] = selectBestVersion(calling)]
    /\ stack' = Append(stack, [name |-> calling.name, next |-> 1])
    /\ calling' = None
    /\ UNCHANGED <<m_registry, root_deps, done, result>>

\* The call fails, and with it the ones around it, each forgetting its package.
EnterFail ==
    /\ calling # None
    /\ \/ Len(stack) > MaxDepth
       \/ IF resolved[calling.name] = None
            THEN selectBestVersion(calling) = 0
            ELSE ~Satisfies(calling.constraint, resolved[calling.name])
    /\ result' = "failure"
    /\ resolved' = [p \in Packages |-> IF \E i \in DOMAIN stack : stack[i].name = p
                                         THEN None ELSE resolved[p]]
    /\ stack' = <<>> /\ calling' = None
    /\ UNCHANGED <<m_registry, root_deps, done>>

Next == CallRoot \/ CallDependency \/ Return \/ EnterResolved \/ EnterSelect \/ EnterFail

Spec == Init /\ [][Next]_vars /\ WF_vars(Next)
----------------------------------------------------------------------------
TypeOK ==
    /\ m_registry \in [Packages \X Versions -> Seq(Dependencies) \cup {None}]
    /\ root_deps \in Seq(Dependencies)
    /\ done \in 0 .. Len(root_deps)
    /\ resolved \in [Packages -> Versions \cup {None}]
    /\ stack \in Seq([name : Packages, next : Nat \ {0}])
    /\ calling \in Dependencies \cup {None}
    /\ result \in {None, "success", "failure"}

\* S gives a version to some packages, and what these depend on is among them.
IsSolution(S) ==
    /\ \A i \in DOMAIN root_deps :
           LET d == root_deps[i] IN S[d.name] # None /\ Satisfies(d.constraint, S[d.name])
    /\ \A p \in Packages : S[p] # None =>
           /\ S[p] \in Available(p)
           /\ \A e \in DependenciesOf(p, S[p]) :
                  S[e.name] # None /\ Satisfies(e.constraint, S[e.name])

(* A resolution that succeeds meets every constraint of the roots and of    *)
(* the packages it selected, whatever was resolved before they were looked  *)
(* at and however they depend on each other.                                *)
SuccessIsASolution == result = "success" => IsSolution(resolved)

\* The newest version of the packages of P.
Newest(P) == [p \in Packages |-> IF p \in P THEN Highest(Available(p)) ELSE None]

(* If there are packages whose newest versions agree with each other and    *)
(* the roots, the resolution does not fail: taking the highest version      *)
(* leads away from a solution only where an older version is needed.        *)
NewestAreFound ==
    result = "failure" =>
        \A P \in SUBSET {p \in Packages : Available(p) \notin {{}, {0}}} : ~IsSolution(Newest(P))

\* The dependencies of all versions that are registered ...
Edges == UNION {{x} \X DOMAIN m_registry[x] : x \in {y \in Packages \X Versions : m_registry[y] # None}}

\* ... and those resolveRecursive has called itself for.
Called == {e \in Edges : LET p == e[1][1] IN
               /\ resolved[p] = e[1][2]
               /\ \A i \in DOMAIN stack : stack[i].name = p => e[2] < stack[i].next}
RootsCalled == IF calling # None \/ stack # <<>> THEN done + 1 ELSE done
Returned == {p \in Packages : resolved[p] # None /\ \A i \in DOMAIN stack : stack[i].name # p}

\* The calls that were made and those of them that were entered, and the
\* packages all of whose dependencies have been gone through.
Effort == 2 * (RootsCalled + Cardinality(Called)) + Cardinality(Returned)
            - (IF calling # None THEN 1 ELSE 0)
EffortLimit == 2 * (Len(root_deps) + Cardinality(Edges)) + Cardinality(Packages)

(* No dependency of a package is gone through twice, however many others    *)
(* depend on the package and whether they do in a circle or not: each step  *)
(* of a resolution uses up one that the registry and the request allow, so  *)
(* that there are no more of them than twice the dependencies and once the  *)
(* packages.                                                                *)
SearchAdvances == [][result' = None => Effort' = Effort + 1 /\ Effort' <= EffortLimit]_vars

(* Every resolution ends, cycles among the packages included.               *)
ResolutionEnds == <>(result # None)
=============================================================================
