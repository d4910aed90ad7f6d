----------------------- MODULE DependencyResolverProofs -----------------------
(***************************************************************************)
(* Proofs about DependencyResolver, for any packages, registries, requests *)
(* and any number of versions. SearchInv says what holds in the middle of  *)
(* the recursion: the dependencies a call has gone through are met, but    *)
(* for the one it is just calling itself for, and so are all dependencies  *)
(* of the packages that are resolved and not on the stack.                 *)
(*                                                                         *)
(* SearchAdvances, for a finite set of packages, counts the calls made,    *)
(* entered and returned from. It needs that no package is on the stack     *)
(* twice (StackInv), and that a package that has returned stays resolved.  *)
(***************************************************************************)
EXTENDS DependencyResolver, FiniteSetTheorems, SequenceTheorems, WellFoundedInduction, TLAPS

Frame == [name : Packages, next : Nat \ {0}]

\* Highest is what its name says: sets of versions have a greatest element.
LEMMA HasHighest ==
    ASSUME NEW V, V \subseteq Versions, V # {}
    PROVE  Highest(V) \in V /\ \A w \in V : w <= Highest(V)
<1> DEFINE T == {LastVersion - v : v \in V}
           R == {ss \in Nat \X Nat : ss[1] < ss[2]}
<1>0. LastVersion \in Nat /\ V \subseteq 0 .. LastVersion
  BY ConstantsAssumption DEF Versions
<1>1. IsWellFoundedOn(R, Nat)
  BY NatLessThanWellFounded DEF OpToRel
<1>2. T \subseteq Nat /\ T # {}
  <2>1. \A v \in V : v \in Nat /\ LastVersion - v \in Nat
    BY <1>0
  <2> QED
    BY <2>1
<1>3. PICK x \in T : \A y \in T : ~ (<<y, x>> \in R)
  <2> HIDE DEF R, T
  <2> QED
    BY <1>1, <1>2, WFMin
<1>4. PICK v \in V : x = LastVersion - v
  BY <1>3
<1>5. \A w \in V : w <= v
  <2> SUFFICES ASSUME NEW w \in V PROVE w <= v
    OBVIOUS
  <2>1. LastVersion - w \in T
    OBVIOUS
  <2>2. ~(LastVersion - w < x)
    BY <1>2, <1>3, <2>1
  <2> QED
    BY <1>0, <1>4, <2>2
<1> QED
  BY <1>5 DEF Highest

\* selectBestVersion returns a version that fits, or 0.
LEMMA SelectsCandidate ==
    ASSUME NEW d, selectBestVersion(d) # 0
    PROVE  selectBestVersion(d) \in Candidates(d)
<1>1. Candidates(d) # {} /\ selectBestVersion(d) = Highest(Candidates(d))
  BY DEF selectBestVersion
<1>2. Candidates(d) \subseteq Versions
  BY DEF Candidates, Available
<1> QED
  BY <1>1, <1>2, HasHighest
----------------------------------------------------------------------------
Met(d) == resolved[d.name] # None /\ Satisfies(d.constraint, resolved[d.name])
Deps(p) == m_registry[p, resolved[p]]

\* The frame at i: what it has gone through is met, but for the call under way.
FrameOK(i) ==
    /\ resolved[stack[i].name] # None
    /\ stack[i].next <= Len(Deps(stack[i].name)) + 1
    /\ \A j \in 1 .. stack[i].next - 1 :
           \/ Met(Deps(stack[i].name)[j])
           \/ i = Len(stack) /\ j = stack[i].next - 1 /\ calling = Deps(stack[i].name)[j]

OnStack(p) == \E i \in 1 .. Len(stack) : stack[i].name = p

SelectedInv == \A p \in Packages : resolved[p] # None => resolved[p] \in Available(p)
FramesInv == \A i \in 1 .. Len(stack) : FrameOK(i)
ClosedInv ==
    \A p \in Packages : resolved[p] # None /\ ~OnStack(p) =>
        \A j \in 1 .. Len(Deps(p)) : Met(Deps(p)[j])
RootsInv ==
    /\ \A i \in 1 .. done : Met(root_deps[i])
    /\ stack # <<>> => Met(root_deps[done + 1])
    /\ stack = <<>> /\ calling # None => calling = root_deps[done + 1]
    /\ result = "success" => done = Len(root_deps)

\* While a call is under way a root is being resolved.
ProgressInv == stack # <<>> \/ calling # None => result = None /\ done < Len(root_deps)

SearchInv == SelectedInv /\ FramesInv /\ ClosedInv /\ RootsInv
IInv == TypeOK /\ ProgressInv /\ (result # "failure" => SearchInv)
----------------------------------------------------------------------------
LEMMA DepsType ==
    ASSUME TypeOK, SelectedInv, NEW p \in Packages, resolved[p] # None
    PROVE  /\ resolved[p] \in Versions
           /\ Deps(p) \in Seq(Dependencies)
           /\ Len(Deps(p)) \in Nat
           /\ \A j \in 1 .. Len(Deps(p)) : Deps(p)[j] \in Dependencies /\ Deps(p)[j] # None
<1>1. resolved[p] \in Versions /\ m_registry[p, resolved[p]] # None
  BY DEF TypeOK, SelectedInv, Available
<1>2. Deps(p) \in Seq(Dependencies)
  BY <1>1 DEF TypeOK, Deps
<1>3. Len(Deps(p)) \in Nat /\ \A j \in 1 .. Len(Deps(p)) : Deps(p)[j] \in Dependencies
  BY <1>2, ElementOfSeq, LenProperties
<1>4. None \notin Dependencies
  BY ConstantsAssumption
<1> QED
  BY <1>1, <1>2, <1>3, <1>4

LEMMA NoneIsNoResult == None # "success" /\ None # "failure"
  BY ConstantsAssumption

LEMMA InitIInv == Init => IInv
<1> SUFFICES ASSUME Init PROVE IInv
  OBVIOUS
<1>1. m_registry \in [Packages \X Versions -> Seq(Dependencies) \cup {None}] /\ root_deps \in Seq(Dependencies)
  BY RegistriesAssumption DEF Init
<1>2. TypeOK
  BY <1>1 DEF Init, TypeOK
<1>3. \A p \in Packages : resolved[p] = None
  BY DEF Init
<1>4. stack = <<>> /\ Len(stack) = 0 /\ done = 0 /\ calling = None /\ result = None
  BY DEF Init
<1>5. ProgressInv
  BY <1>4 DEF ProgressInv
<1>6. SelectedInv /\ ClosedInv
  BY <1>3 DEF SelectedInv, ClosedInv
<1>7. FramesInv
  BY <1>4 DEF FramesInv
<1>8. RootsInv
  BY <1>4, NoneIsNoResult DEF RootsInv
<1> QED
  BY <1>2, <1>5, <1>6, <1>7, <1>8 DEF IInv, SearchInv

\* Actions that resolve nothing keep what is met.
LEMMA SameMet ==
    ASSUME resolved' = resolved, m_registry' = m_registry
    PROVE  /\ \A d : Met(d)' = Met(d)
           /\ \A p : Deps(p)' = Deps(p)
           /\ SelectedInv => SelectedInv'
  BY DEF Met, Deps, SelectedInv, Available

LEMMA CallRootStep == ASSUME IInv, CallRoot PROVE IInv'
<1>0. /\ TypeOK /\ SearchInv /\ stack = <<>> /\ calling = None /\ result = None
      /\ UNCHANGED <<m_registry, root_deps, done, resolved, stack>>
      /\ done \in Nat /\ Len(root_deps) \in Nat /\ done <= Len(root_deps)
  <2>1. result # "failure" /\ done \in 0 .. Len(root_deps) /\ root_deps \in Seq(Dependencies)
    BY NoneIsNoResult DEF IInv, CallRoot, TypeOK
  <2> QED
    BY <2>1, LenProperties DEF IInv, CallRoot
<1>1. done < Len(root_deps) => root_deps[done + 1] \in Dependencies /\ root_deps[done + 1] # None
  BY <1>0, ConstantsAssumption DEF TypeOK
<1>2. \/ done < Len(root_deps) /\ calling' = root_deps[done + 1] /\ result' = result
      \/ ~(done < Len(root_deps)) /\ result' = "success" /\ calling' = calling
  BY DEF CallRoot
<1>3. TypeOK'
  BY <1>0, <1>1, <1>2 DEF TypeOK
<1>4. ProgressInv'
  BY <1>0, <1>2 DEF ProgressInv
<1>5. FramesInv' /\ SelectedInv'
  BY <1>0, SameMet DEF FramesInv, SearchInv
<1>6. ClosedInv'
  BY <1>0, SameMet DEF ClosedInv, SearchInv, OnStack
<1>7. RootsInv'
  BY <1>0, <1>2, SameMet DEF RootsInv, SearchInv
<1> QED
  BY <1>3, <1>4, <1>5, <1>6, <1>7 DEF IInv, SearchInv

\* The frame on top of the stack.
LEMMA TopFrame ==
    ASSUME TypeOK, stack # <<>>
    PROVE  /\ Len(stack) \in Nat \ {0}
           /\ Top = stack[Len(stack)] /\ Top \in Frame
           /\ \A i \in 1 .. Len(stack) : stack[i] \in Frame
<1>1. stack \in Seq(Frame)
  BY DEF TypeOK, Frame
<1>2. Len(stack) \in Nat \ {0}
  BY <1>1, EmptySeq
<1> QED
  BY <1>1, <1>2, ElementOfSeq DEF Top

LEMMA CallDependencyStep == ASSUME IInv, CallDependency PROVE IInv'
<1> DEFINE n == Len(stack)
           p == Top.name
<1>0. /\ TypeOK /\ stack # <<>> /\ calling = None /\ result = None /\ done < Len(root_deps)
      /\ SelectedInv /\ FramesInv /\ ClosedInv /\ RootsInv
      /\ UNCHANGED <<m_registry, root_deps, done, resolved, result>>
  BY NoneIsNoResult DEF IInv, CallDependency, ProgressInv, SearchInv
<1>1. n \in Nat \ {0} /\ Top = stack[n] /\ Top \in Frame /\ stack \in Seq(Frame)
        /\ \A i \in 1 .. n : stack[i] \in Frame
  BY <1>0, TopFrame DEF TypeOK, Frame
<1>2. p \in Packages /\ Top.next \in Nat \ {0} /\ resolved[p] # None /\ FrameOK(n)
  BY <1>0, <1>1 DEF Frame, FramesInv, FrameOK
<1>3. /\ Deps(p) \in Seq(Dependencies) /\ Len(Deps(p)) \in Nat
      /\ \A j \in 1 .. Len(Deps(p)) : Deps(p)[j] \in Dependencies /\ Deps(p)[j] # None
  BY <1>0, <1>2, DepsType
<1>4. /\ Top.next <= Len(Deps(p)) /\ calling' = Deps(p)[Top.next]
      /\ stack' = [stack EXCEPT ![n] = [Top EXCEPT !.next = Top.next + 1]]
  BY <1>1 DEF CallDependency, Deps
<1>5. calling' \in Dependencies /\ calling' # None
  BY <1>2, <1>3, <1>4
<1> DEFINE f == [Top EXCEPT !.next = Top.next + 1]
<1>6. f \in Frame /\ f.name = p /\ f.next = Top.next + 1
  BY <1>1, <1>2 DEF Frame
<1>7. /\ stack' \in Seq(Frame) /\ Len(stack') = n
      /\ \A i \in 1 .. n : stack'[i] = IF i = n THEN f ELSE stack[i]
  <2> HIDE DEF f
  <2>1. n \in 1 .. Len(stack)
    BY <1>1
  <2> QED
    BY <1>1, <1>4, <1>6, <2>1, ExceptSeq DEF f
<1> HIDE DEF f
<1>8. stack' # <<>>
  BY <1>1, <1>7
<1>9. TypeOK'
  BY <1>0, <1>5, <1>7 DEF TypeOK, Frame
<1>10. ProgressInv'
  BY <1>0 DEF ProgressInv
<1>11. SelectedInv'
  BY <1>0, SameMet
<1>12. FramesInv'
  <2> SUFFICES ASSUME NEW i \in 1 .. n PROVE FrameOK(i)'
    BY <1>7 DEF FramesInv
  <2>1. CASE i = n
    <3>1. stack'[i] = f /\ Len(stack') = n
      BY <1>7, <2>1
    <3>2. ASSUME NEW j \in 1 .. Top.next - 1 PROVE Met(Deps(p)[j])
      <4>1. Deps(p)[j] # None
        BY <1>2, <1>3, <1>4, <3>2
      <4> QED
        BY <1>0, <1>1, <1>2, <3>2, <4>1 DEF FrameOK
    <3>3. ASSUME NEW j \in 1 .. f.next - 1
          PROVE  Met(Deps(p)[j]) \/ (j = f.next - 1 /\ calling' = Deps(p)[j])
      <4>1. j \in 1 .. Top.next - 1 \/ j = Top.next
        BY <1>2, <1>6, <3>3
      <4> QED
        BY <1>2, <1>4, <1>6, <3>2, <4>1
    <3>4. f.next <= Len(Deps(p)) + 1
      BY <1>2, <1>3, <1>4, <1>6
    <3> QED
      BY <1>0, <1>2, <1>6, <2>1, <3>1, <3>3, <3>4, SameMet DEF FrameOK
  <2>2. CASE i # n
    <3>1. stack'[i] = stack[i] /\ FrameOK(i)
      BY <1>0, <1>7, <2>2 DEF FramesInv
    <3> QED
      BY <1>0, <1>7, <2>2, <3>1, SameMet DEF FrameOK
  <2> QED
    BY <2>1, <2>2
<1>13. ClosedInv'
  <2>1. \A q : OnStack(q) <=> OnStack(q)'
    BY <1>1, <1>6, <1>7 DEF OnStack
  <2> QED
    BY <1>0, <2>1, SameMet DEF ClosedInv
<1>14. RootsInv'
  BY <1>0, <1>8, SameMet DEF RootsInv
<1> QED
  BY <1>9, <1>10, <1>11, <1>12, <1>13, <1>14 DEF IInv, SearchInv

LEMMA ReturnStep == ASSUME IInv, Return PROVE IInv'
<1> DEFINE n == Len(stack)
           p == Top.name
<1>0. /\ TypeOK /\ stack # <<>> /\ calling = None /\ result = None /\ done < Len(root_deps)
      /\ SelectedInv /\ FramesInv /\ ClosedInv /\ RootsInv
      /\ UNCHANGED <<m_registry, root_deps, resolved, calling, result>>
  BY NoneIsNoResult DEF IInv, Return, ProgressInv, SearchInv
<1>1. n \in Nat \ {0} /\ Top = stack[n] /\ Top \in Frame /\ stack \in Seq(Frame)
        /\ \A i \in 1 .. n : stack[i] \in Frame
  BY <1>0, TopFrame DEF TypeOK, Frame
<1>2. p \in Packages /\ Top.next \in Nat \ {0} /\ resolved[p] # None /\ FrameOK(n)
  BY <1>0, <1>1 DEF Frame, FramesInv, FrameOK
<1>3. /\ Deps(p) \in Seq(Dependencies) /\ Len(Deps(p)) \in Nat
      /\ \A j \in 1 .. Len(Deps(p)) : Deps(p)[j] \in Dependencies /\ Deps(p)[j] # None
  BY <1>0, <1>2, DepsType
<1>4. Top.next > Len(Deps(p)) /\ stack' = SubSeq(stack, 1, n - 1)
  BY DEF Return, Deps
<1>5. /\ stack' \in Seq(Frame) /\ Len(stack') = n - 1
      /\ \A i \in 1 .. n - 1 : stack'[i] = stack[i]
  <2>1. 1 \in Int /\ n - 1 \in Int /\ \A i \in 1 .. n - 1 : stack[i] \in Frame
    BY <1>1
  <2>2. /\ SubSeq(stack, 1, n - 1) \in Seq(Frame)
        /\ Len(SubSeq(stack, 1, n - 1)) = IF 1 <= n - 1 THEN n - 1 - 1 + 1 ELSE 0
        /\ \A i \in 1 .. n - 1 - 1 + 1 : SubSeq(stack, 1, n - 1)[i] = stack[1 + i - 1]
    BY <2>1, SubSeqProperties
  <2>3. n - 1 \in Nat /\ n - 1 - 1 + 1 = n - 1 /\ (~(1 <= n - 1) => n - 1 = 0)
          /\ \A i \in 1 .. n - 1 : 1 + i - 1 = i
    <3>1. n \in Nat \ {0}
      BY <1>1
    <3> HIDE DEF n
    <3>2. n - 1 \in Nat /\ n - 1 - 1 + 1 = n - 1
      BY <3>1
    <3>3. ~(1 <= n - 1) => n - 1 = 0
      BY <3>1
    <3>4. \A i \in 1 .. n - 1 : 1 + i - 1 = i
      OBVIOUS
    <3> QED
      BY <3>2, <3>3, <3>4
  <2> DEFINE s == SubSeq(stack, 1, n - 1)
             m == n - 1
  <2>4. Len(s) = m /\ \A i \in 1 .. m : s[i] = stack[i]
    <3>1. /\ Len(s) = IF 1 <= m THEN m - 1 + 1 ELSE 0
          /\ \A i \in 1 .. m - 1 + 1 : s[i] = stack[1 + i - 1]
          /\ m \in Nat /\ m - 1 + 1 = m /\ (~(1 <= m) => m = 0)
          /\ \A i \in 1 .. m : 1 + i - 1 = i
      BY <2>2, <2>3
    <3> HIDE DEF s, m
    <3> QED
      BY <3>1
  <2> QED
    BY <1>4, <2>2, <2>3, <2>4
<1>6. \A j \in 1 .. Len(Deps(p)) : Met(Deps(p)[j])
  <2> SUFFICES ASSUME NEW j \in 1 .. Len(Deps(p)) PROVE Met(Deps(p)[j])
    OBVIOUS
  <2>1. Deps(p)[j] # None /\ j \in 1 .. Top.next - 1
    BY <1>2, <1>3, <1>4
  <2> QED
    BY <1>0, <1>1, <1>2, <2>1 DEF FrameOK
<1>7. done' = IF Len(stack') = 0 THEN done + 1 ELSE done
  BY DEF Return, DoneIfRoot
<1>7a. done \in Nat /\ Len(root_deps) \in Nat
  BY <1>0 DEF TypeOK
<1>8. TypeOK'
  <2>1. done' \in 0 .. Len(root_deps)
    BY <1>0, <1>7, <1>7a
  <2> QED
    BY <1>0, <1>5, <2>1 DEF TypeOK, Frame
<1>9. Len(stack') = 0 <=> stack' = <<>>
  BY <1>5, EmptySeq
<1>10. ProgressInv'
  BY <1>0, <1>7, <1>9 DEF ProgressInv
<1>11. SelectedInv'
  BY <1>0, SameMet
<1>12. FramesInv'
  <2> SUFFICES ASSUME NEW i \in 1 .. n - 1 PROVE FrameOK(i)'
    BY <1>5 DEF FramesInv
  <2>1. stack'[i] = stack[i] /\ FrameOK(i) /\ i # n
    BY <1>0, <1>1, <1>5 DEF FramesInv
  <2> QED
    BY <1>0, <2>1, SameMet DEF FrameOK
<1>13. ClosedInv'
  <2> SUFFICES ASSUME NEW q \in Packages, resolved[q] # None, ~OnStack(q)'
               PROVE  \A j \in 1 .. Len(Deps(q)) : Met(Deps(q)[j])
    BY <1>0, SameMet DEF ClosedInv
  <2>1. CASE q = p
    BY <1>6, <2>1
  <2>2. CASE q # p
    <3>1. ~OnStack(q)
      BY <1>1, <1>5, <2>2 DEF OnStack
    <3> QED
      BY <1>0, <3>1 DEF ClosedInv
  <2> QED
    BY <2>1, <2>2
<1>14. RootsInv'
  <2>1. \A i \in 1 .. done' : Met(root_deps[i])
    BY <1>0, <1>7, <1>7a DEF RootsInv
  <2>2. stack' # <<>> => Met(root_deps[done' + 1])
    BY <1>0, <1>7, <1>9 DEF RootsInv
  <2> QED
    BY <1>0, <2>1, <2>2, SameMet DEF RootsInv
<1> QED
  BY <1>8, <1>10, <1>11, <1>12, <1>13, <1>14 DEF IInv, SearchInv

LEMMA EnterResolvedStep == ASSUME IInv, EnterResolved PROVE IInv'
<1>0. /\ TypeOK /\ calling # None /\ result = None /\ done < Len(root_deps)
      /\ SelectedInv /\ FramesInv /\ ClosedInv /\ RootsInv
      /\ calling' = None /\ Met(calling)
      /\ UNCHANGED <<m_registry, root_deps, resolved, stack, result>>
  BY NoneIsNoResult DEF IInv, EnterResolved, ProgressInv, SearchInv, Met
<1>1. done' = IF stack = <<>> THEN done + 1 ELSE done
  <2>1. done' = IF Len(stack) = 0 THEN done + 1 ELSE done
    BY <1>0 DEF EnterResolved, DoneIfRoot
  <2> QED
    BY <1>0, <2>1, EmptySeq DEF TypeOK
<1>2. done \in Nat /\ Len(root_deps) \in Nat
  BY <1>0, LenProperties DEF TypeOK
<1>3. TypeOK'
  <2>1. done' \in 0 .. Len(root_deps)
    BY <1>0, <1>1, <1>2
  <2> QED
    BY <1>0, <2>1 DEF TypeOK
<1>4. ProgressInv'
  BY <1>0, <1>1 DEF ProgressInv
<1>5. SelectedInv'
  BY <1>0, SameMet
<1>6. FramesInv'
  <2> SUFFICES ASSUME NEW i \in 1 .. Len(stack) PROVE FrameOK(i)'
    BY <1>0 DEF FramesInv
  <2>1. FrameOK(i)
    BY <1>0 DEF FramesInv
  <2> QED
    BY <1>0, <2>1, SameMet DEF FrameOK
<1>7. ClosedInv'
  BY <1>0, SameMet DEF ClosedInv, OnStack
<1>8. RootsInv'
  <2>1. \A i \in 1 .. done' : Met(root_deps[i])
    BY <1>0, <1>1, <1>2 DEF RootsInv
  <2>2. stack # <<>> => Met(root_deps[done' + 1])
    BY <1>0, <1>1 DEF RootsInv
  <2> QED
    BY <1>0, <2>1, <2>2, SameMet, NoneIsNoResult DEF RootsInv
<1> QED
  BY <1>3, <1>4, <1>5, <1>6, <1>7, <1>8 DEF IInv, SearchInv

\* Selecting a version takes nothing back.
LEMMA EnterSelectStep == ASSUME IInv, EnterSelect PROVE IInv'
<1> DEFINE n == Len(stack)
<1>a. PICK c : c = calling
  OBVIOUS
<1>b. PICK v : v = selectBestVersion(c)
  OBVIOUS
<1> DEFINE p == c.name
           f == [name |-> p, next |-> 1]
<1>0. /\ TypeOK /\ calling # None /\ result = None /\ done < Len(root_deps)
      /\ SelectedInv /\ FramesInv /\ ClosedInv /\ RootsInv
      /\ calling' = None /\ resolved[p] = None /\ v # 0
      /\ resolved' = [resolved EXCEPT ![p] = v]
      /\ stack' = Append(stack, f)
      /\ UNCHANGED <<m_registry, root_deps, done, result>>
  BY <1>a, <1>b, NoneIsNoResult DEF IInv, EnterSelect, ProgressInv, SearchInv
<1>1. c \in Dependencies /\ p \in Packages
  BY <1>0, <1>a DEF TypeOK, Dependencies
<1>2. v \in Available(p) /\ Satisfies(c.constraint, v)
  BY <1>0, <1>b, SelectsCandidate DEF Candidates
<1>3. v \in Versions /\ v # None /\ m_registry[p, v] \in Seq(Dependencies)
  BY <1>0, <1>1, <1>2, ConstantsAssumption DEF Available, TypeOK
<1>4. /\ \A q \in Packages : q # p => resolved'[q] = resolved[q] /\ Deps(q)' = Deps(q)
      /\ resolved'[p] = v /\ Deps(p)' = m_registry[p, v]
  BY <1>0, <1>1 DEF TypeOK, Deps
<1>5. \A d \in Dependencies : Met(d) => Met(d)'
  BY <1>0, <1>4 DEF Met, Dependencies
<1>6. Met(c)'
  BY <1>2, <1>3, <1>4 DEF Met
<1>7. stack \in Seq(Frame) /\ f \in Frame /\ n \in Nat
  BY <1>0, <1>1, LenProperties DEF TypeOK, Frame
<1>8. /\ stack' \in Seq(Frame) /\ Len(stack') = n + 1 /\ stack'[n + 1] = f
      /\ \A i \in 1 .. n : stack'[i] = stack[i]
  <2> HIDE DEF f
  <2> QED
    BY <1>0, <1>7, AppendProperties
<1>9. \A q \in Packages : resolved[q] # None =>
          /\ q # p /\ resolved'[q] # None /\ Deps(q)' = Deps(q) /\ Len(Deps(q)) \in Nat
          /\ \A j \in 1 .. Len(Deps(q)) : Met(Deps(q)[j]) => Met(Deps(q)[j])'
  <2> SUFFICES ASSUME NEW q \in Packages, resolved[q] # None
               PROVE  /\ q # p /\ resolved'[q] # None /\ Deps(q)' = Deps(q) /\ Len(Deps(q)) \in Nat
                      /\ \A j \in 1 .. Len(Deps(q)) : Met(Deps(q)[j]) => Met(Deps(q)[j])'
    OBVIOUS
  <2>1. q # p /\ resolved'[q] # None /\ Deps(q)' = Deps(q)
    BY <1>0, <1>4
  <2>2. Len(Deps(q)) \in Nat /\ \A j \in 1 .. Len(Deps(q)) : Deps(q)[j] \in Dependencies
    BY <1>0, DepsType
  <2>3. ASSUME NEW j \in 1 .. Len(Deps(q)), Met(Deps(q)[j]) PROVE Met(Deps(q)[j])'
    <3>1. PICK d \in Dependencies : d = Deps(q)[j]
      BY <2>2
    <3>2. Met(d)' /\ d = Deps(q)[j]'
      BY <1>5, <2>1, <2>3, <3>1
    <3> QED
      BY <3>2 DEF Met
  <2> QED
    BY <2>1, <2>2, <2>3
<1>10. TypeOK'
  BY <1>0, <1>1, <1>3, <1>8 DEF TypeOK, Frame
<1>11. ProgressInv'
  BY <1>0 DEF ProgressInv
<1>12. SelectedInv'
  BY <1>0, <1>2, <1>4 DEF SelectedInv, Available
<1>13. FramesInv'
  <2> SUFFICES ASSUME NEW i \in 1 .. n + 1 PROVE FrameOK(i)'
    BY <1>8 DEF FramesInv
  <2>1. CASE i = n + 1
    <3>1. stack'[i].name = p /\ stack'[i].next = 1
      BY <1>8, <2>1
    <3>2. Len(Deps(p)') \in Nat
      BY <1>3, <1>4, LenProperties
    <3>3. 1 <= Len(Deps(p)') + 1 /\ \A j \in 1 .. 1 - 1 : FALSE
      BY <3>2
    <3> QED
      BY <1>3, <1>4, <3>1, <3>3 DEF FrameOK
  <2>2. CASE i \in 1 .. n
    <3>1. PICK q : q = stack[i].name
      OBVIOUS
    <3>2. PICK k : k = stack[i].next
      OBVIOUS
    <3>3. stack'[i].name = q /\ stack'[i].next = k /\ q \in Packages /\ k \in Nat \ {0}
      <4>1. stack[i] \in Frame
        BY <1>7, <2>2, ElementOfSeq
      <4> QED
        BY <1>8, <2>2, <3>1, <3>2, <4>1 DEF Frame
    <3>4. FrameOK(i) /\ resolved[q] # None /\ k <= Len(Deps(q)) + 1
      BY <1>0, <2>2, <3>1, <3>2 DEF FramesInv, FrameOK
    <3>5. ASSUME NEW j \in 1 .. k - 1 PROVE Met(Deps(q)[j])'
      <4>1. j \in 1 .. Len(Deps(q)) /\ Deps(q)' = Deps(q)
        BY <1>9, <3>3, <3>4
      <4>2. CASE Met(Deps(q)[j])
        BY <1>9, <3>3, <3>4, <4>1, <4>2
      <4>3. CASE c = Deps(q)[j]
        BY <1>6, <4>1, <4>3 DEF Met
      <4> QED
        BY <1>a, <3>1, <3>2, <3>4, <4>2, <4>3 DEF FrameOK
    <3> QED
      BY <1>9, <3>3, <3>4, <3>5 DEF FrameOK
  <2> QED
    BY <1>7, <2>1, <2>2
<1>14. ClosedInv'
  <2> SUFFICES ASSUME NEW q \in Packages, (resolved[q] # None)', ~OnStack(q)'
               PROVE  (\A j \in 1 .. Len(Deps(q)) : Met(Deps(q)[j]))'
    BY DEF ClosedInv
  <2>1. q # p
    <3>1. n + 1 \in 1 .. Len(stack') /\ stack'[n + 1].name = p
      BY <1>7, <1>8
    <3> QED
      BY <3>1 DEF OnStack
  <2>2. resolved[q] # None
    BY <1>4, <2>1
  <2>3. ~OnStack(q)
    BY <1>7, <1>8 DEF OnStack
  <2>4. \A j \in 1 .. Len(Deps(q)) : Met(Deps(q)[j])
    BY <1>0, <2>2, <2>3 DEF ClosedInv
  <2> QED
    BY <1>9, <2>2, <2>4
<1>15. RootsInv'
  <2>1. done \in Nat /\ Len(root_deps) \in Nat
          /\ \A i \in 1 .. Len(root_deps) : root_deps[i] \in Dependencies
    BY <1>0, LenProperties, ElementOfSeq DEF TypeOK
  <2>2. \A i \in 1 .. done : Met(root_deps[i])'
    <3> SUFFICES ASSUME NEW i \in 1 .. done PROVE Met(root_deps[i])'
      OBVIOUS
    <3>1. PICK d \in Dependencies : d = root_deps[i]
      BY <1>0, <2>1
    <3>2. Met(d)'
      BY <1>0, <1>5, <3>1 DEF RootsInv
    <3> QED
      BY <1>0, <3>1, <3>2
  <2>3. Met(root_deps[done + 1])'
    <3>1. PICK d \in Dependencies : d = root_deps[done + 1]
      BY <1>0, <2>1
    <3>2. Met(d)'
      BY <1>0, <1>5, <1>6, <1>a, <3>1 DEF RootsInv
    <3> QED
      BY <1>0, <3>1, <3>2
  <2> QED
    BY <1>0, <2>2, <2>3, NoneIsNoResult DEF RootsInv
<1> QED
  BY <1>10, <1>11, <1>12, <1>13, <1>14, <1>15 DEF IInv, SearchInv

LEMMA EnterFailStep == ASSUME IInv, EnterFail PROVE IInv'
<1>1. /\ TypeOK /\ result' = "failure" /\ stack' = <<>> /\ calling' = None
      /\ UNCHANGED <<m_registry, root_deps, done>>
      /\ resolved' \in [Packages -> Versions \cup {None}]
  BY DEF IInv, EnterFail, TypeOK
<1>2. TypeOK'
  BY <1>1 DEF TypeOK
<1> QED
  BY <1>1, <1>2 DEF IInv, ProgressInv

LEMMA NextIInv == IInv /\ [Next]_vars => IInv'
<1> SUFFICES ASSUME IInv, [Next]_vars PROVE IInv'
  OBVIOUS
<1>1. CASE UNCHANGED vars
  <2>1. UNCHANGED <<m_registry, root_deps, done, resolved, stack, calling, result>>
    BY <1>1 DEF vars
  <2>2. TypeOK => TypeOK'
    BY <2>1 DEF TypeOK
  <2>3. (FramesInv => FramesInv') /\ (ClosedInv => ClosedInv') /\ (RootsInv => RootsInv')
    BY <2>1, SameMet DEF FramesInv, FrameOK, ClosedInv, OnStack, RootsInv
  <2>4. (ProgressInv => ProgressInv') /\ (SelectedInv => SelectedInv')
    BY <2>1, SameMet DEF ProgressInv
  <2> QED
    BY <2>1, <2>2, <2>3, <2>4 DEF IInv, SearchInv
<1>2. CASE Next
  BY <1>2, CallRootStep, CallDependencyStep, ReturnStep, EnterResolvedStep, EnterSelectStep,
     EnterFailStep DEF Next
<1> QED
  BY <1>1, <1>2
----------------------------------------------------------------------------
THEOREM Invariance == Spec => []IInv
  BY InitIInv, NextIInv, PTL DEF Spec

(* No step leaves the types: the stack holds packages with the place they   *)
(* have reached in their dependencies, and no more roots are done than were *)
(* asked for.                                                               *)
THEOREM TypeCorrect == Spec => []TypeOK
<1>1. IInv => TypeOK
  BY DEF IInv
<1> QED
  BY <1>1, Invariance, PTL

LEMMA SolvedInv == IInv => SuccessIsASolution
<1> SUFFICES ASSUME IInv, result = "success" PROVE IsSolution(resolved)
  BY DEF SuccessIsASolution
<1>1. /\ TypeOK /\ SelectedInv /\ ClosedInv /\ RootsInv /\ stack = <<>> /\ done = Len(root_deps)
  BY NoneIsNoResult DEF IInv, SearchInv, ProgressInv, RootsInv
<1>2. ASSUME NEW i \in DOMAIN root_deps PROVE Met(root_deps[i])
  BY <1>1, LenProperties DEF TypeOK, RootsInv
<1>3. ASSUME NEW p \in Packages, resolved[p] # None
      PROVE  /\ resolved[p] \in Available(p)
             /\ \A e \in DependenciesOf(p, resolved[p]) : Met(e)
  <2>1. resolved[p] \in Available(p)
    BY <1>1, <1>3 DEF SelectedInv
  <2>2. ~OnStack(p)
    BY <1>1 DEF OnStack
  <2>3. \A j \in 1 .. Len(Deps(p)) : Met(Deps(p)[j])
    BY <1>1, <1>3, <2>2 DEF ClosedInv
  <2>4. DOMAIN Deps(p) = 1 .. Len(Deps(p))
    BY <1>1, <1>3, DepsType, LenProperties
  <2>5. ASSUME NEW e \in DependenciesOf(p, resolved[p]) PROVE Met(e)
    <3>1. PICK j \in DOMAIN Deps(p) : e = Deps(p)[j]
      BY DEF DependenciesOf, Deps
    <3> QED
      BY <2>3, <2>4, <3>1
  <2> QED
    BY <2>1, <2>5
<1> QED
  BY <1>2, <1>3 DEF IsSolution, Met

(* A resolution that succeeds meets the constraints of the roots and of all *)
(* packages it selected, for any registry: resolveRecursive checks a        *)
(* package against what is resolved when it looks, and this is enough       *)
(* although more is resolved later.                                         *)
THEOREM SuccessSolves == Spec => []SuccessIsASolution
  BY Invariance, SolvedInv, PTL
----------------------------------------------------------------------------
\* P is a set of packages whose newest versions agree: the search stays in it.
Latest(p) == Highest(Available(p))
Good == {p \in Packages : Available(p) \notin {{}, {0}}}
Follows(P) ==
    /\ result # "failure"
    /\ \A p \in Packages : resolved[p] # None => p \in P /\ resolved[p] = Latest(p)
    /\ calling # None => calling.name \in P /\ Satisfies(calling.constraint, Latest(calling.name))
FollowsInv == \A P \in SUBSET Good : IsSolution(Newest(P)) => Follows(P)

\* No package is on the stack twice.
StackInv == \A i, j \in 1 .. Len(stack) : stack[i].name = stack[j].name => i = j

SmallEnough == IsFiniteSet(Packages) /\ Cardinality(Packages) <= MaxDepth

LEMMA LatestOfGood ==
    ASSUME NEW p \in Good
    PROVE  /\ Latest(p) \in Available(p) /\ Latest(p) \in Versions /\ Latest(p) # 0 /\ Latest(p) # None
           /\ \A v \in Available(p) : v <= Latest(p)
<1>1. p \in Packages /\ Available(p) # {} /\ Available(p) # {0} /\ Available(p) \subseteq Versions
  BY DEF Good, Available
<1>2. Latest(p) \in Available(p) /\ \A v \in Available(p) : v <= Latest(p)
  BY <1>1, HasHighest DEF Latest
<1>3. PICK v \in Available(p) : v # 0
  BY <1>1
<1>4. v \in Nat /\ Latest(p) \in Nat /\ v <= Latest(p)
  BY <1>1, <1>2, ConstantsAssumption DEF Versions
<1>5. Latest(p) # 0
  BY <1>3, <1>4
<1> QED
  BY <1>1, <1>2, <1>5, ConstantsAssumption

\* What IsSolution(Newest(P)) says of a dependency and of a package of P.
LEMMA SolutionSays ==
    ASSUME TypeOK, NEW P \in SUBSET Good, IsSolution(Newest(P))
    PROVE  /\ \A i \in DOMAIN root_deps :
                  /\ root_deps[i].name \in P
                  /\ Satisfies(root_deps[i].constraint, Latest(root_deps[i].name))
           /\ \A p \in P : \A e \in DependenciesOf(p, Latest(p)) :
                  e.name \in P /\ Satisfies(e.constraint, Latest(e.name))
<1>1. \A p \in Packages : Newest(P)[p] = IF p \in P THEN Latest(p) ELSE None
  BY DEF Newest, Latest
<1>2. \A p \in P : p \in Packages /\ Newest(P)[p] = Latest(p) /\ Latest(p) # None
  BY <1>1, LatestOfGood DEF Good
<1>3. ASSUME NEW d \in Dependencies, Newest(P)[d.name] # None
      PROVE  d.name \in P /\ Newest(P)[d.name] = Latest(d.name)
  BY <1>1, <1>3 DEF Dependencies
<1>4. ASSUME NEW i \in DOMAIN root_deps
      PROVE  root_deps[i].name \in P /\ Satisfies(root_deps[i].constraint, Latest(root_deps[i].name))
  <2>1. root_deps[i] \in Dependencies
    BY LenProperties, ElementOfSeq DEF TypeOK
  <2>2. /\ Newest(P)[root_deps[i].name] # None
        /\ Satisfies(root_deps[i].constraint, Newest(P)[root_deps[i].name])
    BY DEF IsSolution
  <2> QED
    BY <1>3, <2>1, <2>2
<1>5. ASSUME NEW p \in P, NEW e \in DependenciesOf(p, Latest(p))
      PROVE  e.name \in P /\ Satisfies(e.constraint, Latest(e.name))
  <2>1. Newest(P)[e.name] # None /\ Satisfies(e.constraint, Newest(P)[e.name])
    BY <1>2 DEF IsSolution
  <2>2. e \in Dependencies
    <3>1. p \in Packages /\ Latest(p) \in Available(p) /\ Latest(p) \in Versions
      BY <1>2, LatestOfGood
    <3>2. m_registry[p, Latest(p)] \in Seq(Dependencies)
      BY <3>1 DEF TypeOK, Available
    <3>3. PICK i \in DOMAIN m_registry[p, Latest(p)] : e = m_registry[p, Latest(p)][i]
      BY DEF DependenciesOf
    <3>4. i \in 1 .. Len(m_registry[p, Latest(p)])
      BY <3>2, <3>3, LenProperties
    <3> QED
      BY <3>2, <3>3, <3>4, ElementOfSeq
  <2> QED
    BY <1>3, <2>1, <2>2
<1> QED
  BY <1>4, <1>5

\* A call for a package of P takes its newest version.
LEMMA SelectsLatest ==
    ASSUME TypeOK, NEW P \in SUBSET Good, IsSolution(Newest(P)), Follows(P), calling # None
    PROVE  selectBestVersion(calling) = Latest(calling.name) /\ selectBestVersion(calling) # 0
<1> DEFINE p == calling.name
           C == Candidates(calling)
<1>1. p \in P /\ Satisfies(calling.constraint, Latest(p))
  BY DEF Follows
<1>2. /\ Latest(p) \in Available(p) /\ Latest(p) # 0 /\ \A v \in Available(p) : v <= Latest(p)
  BY <1>1, LatestOfGood
<1>3. \A e \in DependenciesOf(p, Latest(p)) :
          resolved[e.name] # None => Satisfies(e.constraint, resolved[e.name])
  <2> SUFFICES ASSUME NEW e \in DependenciesOf(p, Latest(p)), resolved[e.name] # None
               PROVE  Satisfies(e.constraint, resolved[e.name])
    OBVIOUS
  <2>1. e.name \in P /\ Satisfies(e.constraint, Latest(e.name))
    BY <1>1, SolutionSays
  <2>2. resolved[e.name] = Latest(e.name)
    BY <2>1 DEF Follows, Good
  <2> QED
    BY <2>1, <2>2
<1>4. Latest(p) \in C
  BY <1>1, <1>2, <1>3 DEF Candidates
<1>5. C \subseteq Available(p) /\ C \subseteq Versions /\ Versions \subseteq Nat
  <2>1. C \subseteq Available(p)
    BY DEF Candidates
  <2>2. Available(p) \subseteq Versions
    BY DEF Available
  <2>3. Versions \subseteq Nat
    BY ConstantsAssumption DEF Versions
  <2> QED
    BY <2>1, <2>2, <2>3
<1>6. Highest(C) \in C /\ Latest(p) <= Highest(C)
  <2> HIDE DEF C
  <2> QED
    BY <1>4, <1>5, HasHighest
<1>7. Highest(C) <= Latest(p) /\ Highest(C) \in Nat /\ Latest(p) \in Nat
  BY <1>2, <1>4, <1>5, <1>6
<1>8. Highest(C) = Latest(p)
  BY <1>6, <1>7
<1> QED
  BY <1>2, <1>4, <1>8 DEF selectBestVersion

\* The registry and the request stay, and with them what solves the request.
LEMMA SameSolutions ==
    ASSUME m_registry' = m_registry, root_deps' = root_deps
    PROVE  /\ Good' = Good
           /\ \A p : Latest(p)' = Latest(p)
           /\ \A P : IsSolution(Newest(P))' <=> IsSolution(Newest(P))
<1>1. \A p : Available(p)' = Available(p)
  BY DEF Available
<1>2. Good' = Good /\ \A p : Latest(p)' = Latest(p)
  BY <1>1 DEF Good, Latest
<1>3. \A P : Newest(P)' = Newest(P)
  BY <1>1 DEF Newest
<1>4. \A p, v : DependenciesOf(p, v)' = DependenciesOf(p, v)
  BY DEF DependenciesOf
<1>5. \A P : IsSolution(Newest(P))' <=> IsSolution(Newest(P))
  BY <1>1, <1>3, <1>4 DEF IsSolution
<1> QED
  BY <1>2, <1>5

\* Few packages never make the stack deeper than the limit of the recursion.
LEMMA StackIsLow == ASSUME SmallEnough, TypeOK, StackInv PROVE Len(stack) <= MaxDepth
<1> DEFINE n == Len(stack)
           f == [i \in 1 .. n |-> stack[i].name]
<1>1. n \in Nat /\ \A i \in 1 .. n : stack[i].name \in Packages
  <2>1. stack \in Seq(Frame)
    BY DEF TypeOK, Frame
  <2>2. n \in Nat /\ \A i \in 1 .. n : stack[i] \in Frame
    BY <2>1, LenProperties, ElementOfSeq
  <2> QED
    BY <2>2 DEF Frame
<1>2. f \in [1 .. n -> Packages]
  BY <1>1
<1>3. \A a, b \in DOMAIN f : f[a] = f[b] => a = b
  BY DEF StackInv
<1>4. f \in Injection(1 .. n, Packages)
  <2> HIDE DEF f, n
  <2> QED
    BY <1>2, <1>3 DEF Injection, IsInjective
<1>5. Cardinality(1 .. n) <= Cardinality(Packages)
  <2> HIDE DEF f, n
  <2> QED
    BY <1>4, FS_Injection DEF SmallEnough
<1>6. Cardinality(1 .. n) = IF 1 > n THEN 0 ELSE n - 1 + 1
  <2> HIDE DEF n
  <2> QED
    BY <1>1, FS_Interval
<1>7. Cardinality(Packages) \in Nat /\ Cardinality(Packages) <= MaxDepth /\ MaxDepth \in Nat
  BY FS_CardinalityType, ConstantsAssumption DEF SmallEnough
<1> HIDE DEF n
<1>8. n <= MaxDepth
  BY <1>1, <1>5, <1>6, <1>7
<1> QED
  BY <1>8 DEF n

\* How the steps change the names on the stack.
LEMMA StackShrinks ==
    ASSUME StackInv, Len(stack) \in Nat, Len(stack') \in Nat, Len(stack') <= Len(stack),
           \A i \in 1 .. Len(stack') : stack'[i].name = stack[i].name
    PROVE  StackInv'
  BY DEF StackInv

LEMMA CallDependencyStack == ASSUME TypeOK, StackInv, CallDependency PROVE StackInv'
<1> DEFINE n == Len(stack)
           g == [Top EXCEPT !.next = Top.next + 1]
<1>1. n \in Nat \ {0} /\ stack # <<>> /\ Top = stack[n] /\ Top \in Frame /\ stack \in Seq(Frame)
  BY TopFrame DEF CallDependency, TypeOK, Frame
<1>2. stack' = [stack EXCEPT ![n] = g]
  BY <1>1 DEF CallDependency
<1>3. g \in Frame /\ g.name = stack[n].name /\ n \in 1 .. Len(stack)
  BY <1>1 DEF Frame
<1>4. Len(stack') = n /\ \A i \in 1 .. n : stack'[i] = IF i = n THEN g ELSE stack[i]
  <2> HIDE DEF g
  <2> QED
    BY <1>1, <1>2, <1>3, ExceptSeq
<1>5. \A i \in 1 .. n : stack'[i].name = stack[i].name
  BY <1>3, <1>4
<1> QED
  BY <1>1, <1>4, <1>5, StackShrinks

LEMMA ReturnStack == ASSUME TypeOK, StackInv, Return PROVE StackInv'
<1> DEFINE n == Len(stack)
           m == n - 1
<1>1. n \in Nat \ {0} /\ stack \in Seq(Frame) /\ \A i \in 1 .. n : stack[i] \in Frame
  BY TopFrame DEF Return, TypeOK, Frame
<1>2. stack' = SubSeq(stack, 1, m)
  BY DEF Return
<1>3. m \in Nat /\ m < n /\ m <= n /\ (~(1 <= m) => m = 0) /\ m - 1 + 1 = m
  <2>1. n \in Nat \ {0}
    BY <1>1
  <2> HIDE DEF n
  <2>2. m \in Nat /\ m < n /\ m <= n
    BY <2>1
  <2>3. (~(1 <= m) => m = 0) /\ m - 1 + 1 = m
    <3> HIDE DEF m
    <3> QED
      BY <2>2
  <2> QED
    BY <2>2, <2>3
<1>4. 1 \in Int /\ m \in Int /\ \A i \in 1 .. m : stack[i] \in Frame
  BY <1>1
<1>5. /\ Len(stack') = IF 1 <= m THEN m - 1 + 1 ELSE 0
      /\ \A i \in 1 .. m - 1 + 1 : stack'[i] = stack[1 + i - 1]
  <2> HIDE DEF m
  <2> QED
    BY <1>2, <1>4, SubSeqProperties
<1>6. Len(stack') = m /\ \A i \in 1 .. m : stack'[i] = stack[i]
  <2>1. \A i \in 1 .. m : 1 + i - 1 = i
    OBVIOUS
  <2> HIDE DEF m
  <2> QED
    BY <1>3, <1>5, <2>1
<1>7. Len(stack) \in Nat /\ Len(stack') \in Nat /\ Len(stack') <= Len(stack)
  BY <1>1, <1>3, <1>6
<1> QED
  BY <1>6, <1>7, StackShrinks

LEMMA EnterSelectStack == ASSUME IInv, StackInv, EnterSelect PROVE StackInv'
<1> DEFINE n == Len(stack)
<1>1. /\ TypeOK /\ FramesInv /\ calling # None /\ resolved[calling.name] = None
      /\ stack' = Append(stack, [name |-> calling.name, next |-> 1])
  BY NoneIsNoResult DEF IInv, SearchInv, ProgressInv, EnterSelect
<1>2. PICK q \in Packages : q = calling.name
  BY <1>1 DEF TypeOK, Dependencies
<1> DEFINE g == [name |-> q, next |-> 1]
<1>3. stack \in Seq(Frame) /\ g \in Frame /\ g.name = q /\ stack' = Append(stack, g)
  BY <1>1, <1>2 DEF TypeOK, Frame
<1> HIDE DEF g
<1>4. /\ n \in Nat /\ Len(stack') = n + 1 /\ stack'[n + 1] = g
      /\ \A i \in 1 .. n : stack'[i] = stack[i]
  BY <1>3, LenProperties, AppendProperties
<1>5. \A i \in 1 .. n : stack[i].name # q
  BY <1>1, <1>2 DEF FramesInv, FrameOK
<1> HIDE DEF n
<1>6. ASSUME NEW i \in 1 .. n + 1, NEW j \in 1 .. n + 1, stack'[i].name = stack'[j].name
      PROVE  i = j
  <2>1. (i \in 1 .. n \/ i = n + 1) /\ (j \in 1 .. n \/ j = n + 1)
    BY <1>4
  <2>2. CASE i \in 1 .. n /\ j \in 1 .. n
    BY <1>4, <1>6, <2>2 DEF StackInv, n
  <2>3. CASE i = n + 1 /\ j \in 1 .. n
    BY <1>3, <1>4, <1>5, <1>6, <2>3
  <2>4. CASE j = n + 1 /\ i \in 1 .. n
    BY <1>3, <1>4, <1>5, <1>6, <2>4
  <2> QED
    BY <2>1, <2>2, <2>3, <2>4
<1> QED
  BY <1>4, <1>6 DEF StackInv

LEMMA NextStackInv == IInv /\ StackInv /\ [Next]_vars => StackInv'
<1> SUFFICES ASSUME IInv, StackInv, [Next]_vars PROVE StackInv'
  OBVIOUS
<1>0. TypeOK
  BY DEF IInv
<1>1. CASE UNCHANGED stack
  BY <1>1 DEF StackInv
<1>2. CASE stack' = <<>>
  BY <1>2 DEF StackInv
<1>3. \/ UNCHANGED stack \/ stack' = <<>> \/ CallDependency \/ Return \/ EnterSelect
  BY DEF Next, vars, CallRoot, EnterResolved, EnterFail
<1> QED
  BY <1>0, <1>1, <1>2, <1>3, CallDependencyStack, ReturnStack, EnterSelectStack

\* The steps while the search has only taken newest versions.
LEMMA CallRootFollows ==
    ASSUME IInv, NEW P \in SUBSET Good, IsSolution(Newest(P)), Follows(P), CallRoot
    PROVE  Follows(P)'
<1>1. /\ TypeOK /\ result = None /\ calling = None
      /\ UNCHANGED <<m_registry, root_deps, done, resolved, stack>>
      /\ done \in Nat /\ Len(root_deps) \in Nat /\ DOMAIN root_deps = 1 .. Len(root_deps)
  <2>1. done \in 0 .. Len(root_deps) /\ root_deps \in Seq(Dependencies)
    BY DEF IInv, TypeOK
  <2> QED
    BY <2>1, LenProperties DEF IInv, CallRoot
<1>2. \A p : Latest(p)' = Latest(p)
  BY <1>1, SameSolutions
<1>3. CASE done < Len(root_deps)
  <2>1. calling' = root_deps[done + 1] /\ result' = result
    BY <1>3 DEF CallRoot
  <2>2. done + 1 \in DOMAIN root_deps
    BY <1>1, <1>3
  <2>3. /\ root_deps[done + 1].name \in P
        /\ Satisfies(root_deps[done + 1].constraint, Latest(root_deps[done + 1].name))
    BY <1>1, <2>2, SolutionSays
  <2>4. PICK c : c = root_deps[done + 1]
    OBVIOUS
  <2>5. calling' = c /\ c.name \in P /\ Satisfies(c.constraint, Latest(c.name))
    BY <2>1, <2>3, <2>4
  <2> QED
    BY <1>1, <1>2, <2>1, <2>5 DEF Follows
<1>4. CASE ~(done < Len(root_deps))
  <2>1. calling' = None /\ result' = "success"
    BY <1>1, <1>4 DEF CallRoot
  <2> QED
    BY <1>1, <1>2, <2>1 DEF Follows
<1> QED
  BY <1>3, <1>4

LEMMA CallDependencyFollows ==
    ASSUME IInv, NEW P \in SUBSET Good, IsSolution(Newest(P)), Follows(P), CallDependency
    PROVE  Follows(P)'
<1>1. /\ TypeOK /\ FramesInv /\ SelectedInv /\ stack # <<>> /\ calling = None
      /\ UNCHANGED <<m_registry, root_deps, done, resolved, result>>
      /\ calling' = Deps(Top.name)[Top.next] /\ Top.next <= Len(Deps(Top.name))
  BY NoneIsNoResult DEF IInv, SearchInv, ProgressInv, CallDependency, Follows, Deps
<1>2. /\ Top \in Frame /\ Top.name \in Packages /\ Top.next \in Nat \ {0}
      /\ resolved[Top.name] # None
  <2>1. Len(stack) \in Nat \ {0} /\ Top = stack[Len(stack)] /\ Top \in Frame
    BY <1>1, TopFrame
  <2>2. FrameOK(Len(stack))
    BY <1>1, <2>1 DEF FramesInv
  <2>3. Top.name \in Packages /\ Top.next \in Nat \ {0}
    BY <2>1 DEF Frame
  <2> QED
    BY <2>1, <2>2, <2>3 DEF FrameOK
<1>3. PICK p \in Packages : p = Top.name
  BY <1>2
<1>4. p \in P /\ resolved[p] = Latest(p)
  BY <1>2, <1>3 DEF Follows
<1>5. Deps(p) \in Seq(Dependencies)
  BY <1>1, <1>2, <1>3, DepsType
<1>6. Top.next \in DOMAIN Deps(p)
  <2>1. Len(Deps(p)) \in Nat /\ DOMAIN Deps(p) = 1 .. Len(Deps(p))
    BY <1>5, LenProperties
  <2> QED
    BY <1>1, <1>2, <1>3, <2>1
<1>7. PICK c : c = Deps(p)[Top.next]
  OBVIOUS
<1>8. c \in DependenciesOf(p, Latest(p))
  BY <1>4, <1>6, <1>7 DEF DependenciesOf, Deps
<1>9. c.name \in P /\ Satisfies(c.constraint, Latest(c.name))
  BY <1>1, <1>4, <1>8, SolutionSays
<1>10. \A q : Latest(q)' = Latest(q)
  BY <1>1, SameSolutions
<1> QED
  BY <1>1, <1>3, <1>7, <1>9, <1>10 DEF Follows

LEMMA EnterSelectFollows ==
    ASSUME IInv, NEW P \in SUBSET Good, IsSolution(Newest(P)), Follows(P), EnterSelect
    PROVE  Follows(P)'
<1>1. /\ TypeOK /\ calling # None /\ calling' = None
      /\ UNCHANGED <<m_registry, root_deps, done, result>>
      /\ resolved' = [resolved EXCEPT ![calling.name] = selectBestVersion(calling)]
  BY DEF IInv, EnterSelect
<1>2. selectBestVersion(calling) = Latest(calling.name)
  BY <1>1, SelectsLatest
<1>3. PICK q : q = calling.name
  OBVIOUS
<1>4. q \in P /\ resolved' = [resolved EXCEPT ![q] = Latest(q)]
  BY <1>1, <1>2, <1>3 DEF Follows
<1>5. \A p \in Packages : resolved'[p] = IF p = q THEN Latest(q) ELSE resolved[p]
  BY <1>1, <1>4 DEF TypeOK
<1>6. \A p : Latest(p)' = Latest(p)
  BY <1>1, SameSolutions
<1> QED
  BY <1>1, <1>4, <1>5, <1>6 DEF Follows

LEMMA NeverFails ==
    ASSUME SmallEnough, IInv, StackInv, NEW P \in SUBSET Good, IsSolution(Newest(P)), Follows(P)
    PROVE  ~EnterFail
<1> SUFFICES ASSUME EnterFail PROVE FALSE
  OBVIOUS
<1>1. TypeOK /\ calling # None /\ Len(stack) \in Nat /\ MaxDepth \in Nat
  <2>1. stack \in Seq(Frame)
    BY DEF IInv, TypeOK, Frame
  <2> QED
    BY <2>1, LenProperties, ConstantsAssumption DEF IInv, EnterFail
<1>2. Len(stack) <= MaxDepth
  BY <1>1, StackIsLow
<1>3. calling.name \in P /\ calling.name \in Packages /\ Satisfies(calling.constraint, Latest(calling.name))
  BY <1>1 DEF Follows, Good
<1>4. CASE resolved[calling.name] = None
  <2>1. selectBestVersion(calling) # 0
    BY <1>1, SelectsLatest
  <2> QED
    BY <1>1, <1>2, <1>4, <2>1 DEF EnterFail
<1>5. CASE resolved[calling.name] # None
  <2>1. resolved[calling.name] = Latest(calling.name)
    BY <1>3, <1>5 DEF Follows
  <2> QED
    BY <1>1, <1>2, <1>3, <1>5, <2>1 DEF EnterFail
<1> QED
  BY <1>4, <1>5

LEMMA NextFollowsInv ==
    ASSUME SmallEnough, IInv, StackInv, FollowsInv, [Next]_vars
    PROVE  FollowsInv'
<1>1. m_registry' = m_registry /\ root_deps' = root_deps
  BY DEF Next, vars, CallRoot, CallDependency, Return, EnterResolved, EnterSelect, EnterFail
<1>2. /\ Good' = Good /\ \A p : Latest(p)' = Latest(p)
      /\ \A P : IsSolution(Newest(P))' <=> IsSolution(Newest(P))
  BY <1>1, SameSolutions
<1>3. ASSUME NEW P \in SUBSET Good, IsSolution(Newest(P)) PROVE Follows(P)'
  <2>1. Follows(P)
    BY <1>3 DEF FollowsInv
  <2>2. CASE UNCHANGED <<resolved, result>> /\ (UNCHANGED calling \/ calling' = None)
    <3>1. /\ result' # "failure"
          /\ \A p \in Packages : resolved'[p] # None => p \in P /\ resolved'[p] = Latest(p)'
      BY <1>2, <2>1, <2>2 DEF Follows
    <3>2. PICK c : c = calling
      OBVIOUS
    <3>3. c # None => c.name \in P /\ Satisfies(c.constraint, Latest(c.name)')
      BY <1>2, <2>1, <3>2 DEF Follows
    <3>4. calling' = c \/ calling' = None
      BY <2>2, <3>2
    <3> QED
      BY <3>1, <3>3, <3>4 DEF Follows
  <2>3. ~EnterFail
    BY <1>3, <2>1, NeverFails
  <2>4. \/ CallRoot \/ CallDependency \/ EnterSelect
        \/ UNCHANGED <<resolved, result>> /\ (UNCHANGED calling \/ calling' = None)
    BY <2>3 DEF Next, vars, Return, EnterResolved
  <2> QED
    BY <1>3, <2>1, <2>2, <2>4, CallRootFollows, CallDependencyFollows, EnterSelectFollows
<1> QED
  BY <1>2, <1>3 DEF FollowsInv

(* If there are packages whose newest versions agree with each other and    *)
(* the roots, resolve does not fail, for any registry of no more packages   *)
(* than the recursion may be deep: every call takes the newest version, and *)
(* the stack holds each package once.                                       *)
THEOREM NewestFound == ASSUME SmallEnough PROVE Spec => []NewestAreFound
<1>1. Init => StackInv /\ FollowsInv
  <2> SUFFICES ASSUME Init PROVE StackInv /\ FollowsInv
    OBVIOUS
  <2>1. Len(stack) = 0 /\ result # "failure" /\ calling = None /\ \A p \in Packages : resolved[p] = None
    BY NoneIsNoResult DEF Init
  <2> QED
    BY <2>1 DEF StackInv, FollowsInv, Follows
<1>2. IInv /\ StackInv /\ FollowsInv /\ [Next]_vars => IInv' /\ StackInv' /\ FollowsInv'
  BY NextIInv, NextStackInv, NextFollowsInv
<1>3. FollowsInv => NewestAreFound
  BY DEF FollowsInv, Follows, NewestAreFound, Good
<1> QED
  BY <1>1, <1>2, <1>3, InitIInv, PTL DEF Spec

----------------------------------------------------------------------------
\* What Effort counts is finite.
Registered == {y \in Packages \X Versions : m_registry[y] # None}

LEMMA EdgesFinite == ASSUME IsFiniteSet(Packages), TypeOK PROVE IsFiniteSet(Edges)
<1> DEFINE f == [x \in Registered |-> {x} \X DOMAIN m_registry[x]]
           T == {{x} \X DOMAIN m_registry[x] : x \in Registered}
<1>1. IsFiniteSet(Versions)
  BY FS_Interval, ConstantsAssumption DEF Versions
<1>2. IsFiniteSet(Packages \X Versions)
  BY <1>1, FS_Product
<1>3. IsFiniteSet(Registered)
  BY <1>2, FS_Subset DEF Registered
<1>4. ASSUME NEW x \in Registered PROVE IsFiniteSet({x} \X DOMAIN m_registry[x])
  <2>1. m_registry[x] \in Seq(Dependencies)
    BY DEF Registered, TypeOK
  <2>2. DOMAIN m_registry[x] = 1 .. Len(m_registry[x]) /\ Len(m_registry[x]) \in Nat
    BY <2>1, LenProperties
  <2>3. IsFiniteSet(DOMAIN m_registry[x])
    BY <2>2, FS_Interval
  <2> QED
    BY <2>3, FS_Singleton, FS_Product
<1>5. f \in Surjection(Registered, T)
  BY DEF Surjection
<1>6. IsFiniteSet(T)
  <2> HIDE DEF f, T
  <2> QED
    BY <1>3, <1>5, FS_Surjection
<1>7. \A S \in T : IsFiniteSet(S)
  BY <1>4
<1>8. Edges = UNION T
  BY DEF Edges, Registered
<1> QED
  <2> HIDE DEF T
  <2> QED
    BY <1>6, <1>7, <1>8, FS_UNION

LEMMA CountsFinite ==
    ASSUME IsFiniteSet(Packages), TypeOK
    PROVE  /\ IsFiniteSet(Called) /\ IsFiniteSet(Returned)
           /\ Cardinality(Called) \in Nat /\ Cardinality(Returned) \in Nat
           /\ Cardinality(Edges) \in Nat /\ Cardinality(Packages) \in Nat
           /\ Cardinality(Called) <= Cardinality(Edges)
           /\ Cardinality(Returned) <= Cardinality(Packages)
<1>1. IsFiniteSet(Edges) /\ Called \subseteq Edges /\ Returned \subseteq Packages
  BY EdgesFinite DEF Called, Returned
<1> QED
  BY <1>1, FS_Subset, FS_CardinalityType

LEMMA WithinLimit ==
    IInv /\ IsFiniteSet(Packages) => Effort \in Int /\ Effort <= EffortLimit
<1> SUFFICES ASSUME IInv, IsFiniteSet(Packages) PROVE Effort \in Int /\ Effort <= EffortLimit
  OBVIOUS
<1>1. TypeOK /\ ProgressInv
  BY DEF IInv
<1>2. Len(root_deps) \in Nat /\ done \in 0 .. Len(root_deps)
  BY <1>1, LenProperties DEF TypeOK
<1>3. RootsCalled \in Nat /\ RootsCalled <= Len(root_deps)
  BY <1>1, <1>2 DEF RootsCalled, ProgressInv
<1> DEFINE c == Cardinality(Called)
           r == Cardinality(Returned)
           e == Cardinality(Edges)
           k == Cardinality(Packages)
<1>4. c \in Nat /\ r \in Nat /\ e \in Nat /\ k \in Nat /\ c <= e /\ r <= k
  BY <1>1, CountsFinite
<1>5. /\ Effort = 2 * (RootsCalled + c) + r - (IF calling # None THEN 1 ELSE 0)
      /\ EffortLimit = 2 * (Len(root_deps) + e) + k
  BY DEF Effort, EffortLimit
<1> HIDE DEF c, r, e, k
<1> QED
  BY <1>2, <1>3, <1>4, <1>5

\* The frame of a package on the stack.
LEMMA CalledIs ==
    ASSUME NEW p \in Packages, NEW v \in Versions, m_registry[p, v] # None,
           NEW j \in DOMAIN m_registry[p, v]
    PROVE  <<<<p, v>>, j>> \in Edges
<1> DEFINE x == <<p, v>>
<1>1. x \in Packages \X Versions /\ m_registry[x] # None /\ <<x, j>> \in {x} \X DOMAIN m_registry[x]
  OBVIOUS
<1> HIDE DEF x
<1>2. <<x, j>> \in Edges
  BY <1>1 DEF Edges
<1> QED
  BY <1>2 DEF x
----------------------------------------------------------------------------
LEMMA CallRootAdvances ==
    ASSUME IInv, IsFiniteSet(Packages), CallRoot, result' = None PROVE Effort' = Effort + 1
<1>1. /\ calling = None /\ calling' # None /\ stack = <<>>
      /\ UNCHANGED <<m_registry, root_deps, done, resolved, stack>>
  BY NoneIsNoResult, ConstantsAssumption DEF CallRoot, IInv, TypeOK
<1>2. Called' = Called /\ Returned' = Returned
  BY <1>1 DEF Called, Edges, Returned
<1>3. RootsCalled = done /\ RootsCalled' = done + 1 /\ done \in Nat
  BY <1>1 DEF RootsCalled, IInv, TypeOK
<1> DEFINE c == Cardinality(Called)
           r == Cardinality(Returned)
<1>4. c \in Nat /\ r \in Nat
  BY CountsFinite DEF IInv
<1>5. Effort = 2 * (done + c) + r - 0 /\ Effort' = 2 * (done + 1 + c) + r - 1
  BY <1>1, <1>2, <1>3 DEF Effort
<1> HIDE DEF c, r
<1> QED
  BY <1>3, <1>4, <1>5

\* A step that adds k to the calls, returns s more packages and ends or makes a call.
LEMMA EffortIs ==
    ASSUME IInv, IsFiniteSet(Packages)
    PROVE  /\ Cardinality(Called) \in Nat /\ Cardinality(Returned) \in Nat /\ done \in Nat
           /\ calling = None => Effort = 2 * (RootsCalled + Cardinality(Called)) + Cardinality(Returned)
           /\ calling # None => Effort = 2 * (RootsCalled + Cardinality(Called)) + Cardinality(Returned) - 1
<1> DEFINE c == Cardinality(Called)
           r == Cardinality(Returned)
<1>1. c \in Nat /\ r \in Nat /\ done \in Nat
  BY CountsFinite DEF IInv, TypeOK
<1>2. RootsCalled \in Nat
  BY <1>1 DEF RootsCalled
<1>3. Effort = 2 * (RootsCalled + c) + r - (IF calling # None THEN 1 ELSE 0)
  BY DEF Effort
<1> HIDE DEF c, r
<1>4. calling = None => Effort = 2 * (RootsCalled + c) + r
  BY <1>1, <1>2, <1>3
<1>5. calling # None => Effort = 2 * (RootsCalled + c) + r - 1
  BY <1>3
<1> QED
  BY <1>1, <1>4, <1>5 DEF c, r

\* When a dependency has been called for, before and after a step.
LEMMA CalledMeans ==
    ASSUME m_registry' = m_registry, NEW p, NEW v, NEW j, <<<<p, v>>, j>> \in Edges
    PROVE  /\ <<<<p, v>>, j>> \in Called
                <=> resolved[p] = v /\ \A i \in DOMAIN stack : stack[i].name = p => j < stack[i].next
           /\ <<<<p, v>>, j>> \in Called'
                <=> resolved'[p] = v /\ \A i \in DOMAIN stack' : stack'[i].name = p => j < stack'[i].next
<1> DEFINE e == <<<<p, v>>, j>>
<1>1. e[1][1] = p /\ e[1][2] = v /\ e[2] = j
  OBVIOUS
<1>2. e \in Edges /\ Edges' = Edges
  BY DEF Edges
<1> HIDE DEF e
<1> QED
  BY <1>1, <1>2 DEF Called, e

LEMMA EdgeIs ==
    ASSUME TypeOK, NEW x \in Edges
    PROVE  \E p \in Packages, v \in Versions, j \in Nat :
              x = <<<<p, v>>, j>> /\ m_registry[p, v] # None /\ j \in DOMAIN m_registry[p, v]
<1>1. PICK y \in Packages \X Versions : m_registry[y] # None /\ x \in {y} \X DOMAIN m_registry[y]
  BY DEF Edges
<1>2. PICK p \in Packages, v \in Versions : y = <<p, v>>
  OBVIOUS
<1>3. m_registry[y] \in Seq(Dependencies)
  BY <1>1 DEF TypeOK
<1>4. DOMAIN m_registry[y] \subseteq Nat
  BY <1>3, LenProperties
<1>5. PICK j \in DOMAIN m_registry[y] : x = <<y, j>>
  BY <1>1
<1> QED
  BY <1>1, <1>2, <1>4, <1>5

LEMMA CallDependencyAdvances ==
    ASSUME IInv, StackInv, IsFiniteSet(Packages), CallDependency PROVE Effort' = Effort + 1
<1> DEFINE n == Len(stack)
           p == Top.name
           e == <<<<p, resolved[p]>>, Top.next>>
           c == Cardinality(Called)
           r == Cardinality(Returned)
<1>0. /\ TypeOK /\ stack # <<>> /\ calling = None
      /\ SelectedInv /\ FramesInv
      /\ UNCHANGED <<m_registry, root_deps, done, resolved, result>>
  BY NoneIsNoResult DEF IInv, CallDependency, ProgressInv, SearchInv
<1>1. n \in Nat \ {0} /\ Top = stack[n] /\ Top \in Frame /\ stack \in Seq(Frame)
        /\ \A i \in 1 .. n : stack[i] \in Frame
  BY <1>0, TopFrame DEF TypeOK, Frame
<1>2. p \in Packages /\ Top.next \in Nat \ {0} /\ resolved[p] # None /\ n \in 1 .. n
  BY <1>0, <1>1 DEF Frame, FramesInv, FrameOK
<1>3. /\ Deps(p) \in Seq(Dependencies) /\ Len(Deps(p)) \in Nat /\ resolved[p] \in Versions
      /\ \A j \in 1 .. Len(Deps(p)) : Deps(p)[j] \in Dependencies /\ Deps(p)[j] # None
  BY <1>0, <1>2, DepsType
<1>4. Top.next <= Len(Deps(p)) /\ calling' = Deps(p)[Top.next] /\ calling' # None
  <2>1. Top.next <= Len(Deps(p)) /\ calling' = Deps(p)[Top.next]
    BY DEF CallDependency, Deps
  <2> QED
    BY <1>2, <1>3, <2>1
<1> DEFINE g == [Top EXCEPT !.next = Top.next + 1]
<1>5. g \in Frame /\ g.name = p /\ g.next = Top.next + 1 /\ stack' = [stack EXCEPT ![n] = g]
  <2>1. stack' = [stack EXCEPT ![n] = g]
    BY <1>1 DEF CallDependency
  <2> QED
    BY <1>1, <2>1 DEF Frame
<1>6. Len(stack') = n /\ DOMAIN stack' = 1 .. n /\ DOMAIN stack = 1 .. n /\ stack' # <<>>
        /\ \A i \in 1 .. n : stack'[i] = IF i = n THEN g ELSE stack[i]
  <2> HIDE DEF g
  <2>1. n \in 1 .. Len(stack) /\ stack \in Seq(Frame)
    BY <1>1, <1>2
  <2>2. stack' \in Seq(Frame) /\ Len(stack') = n /\ \A i \in 1 .. n : stack'[i] = IF i = n THEN g ELSE stack[i]
    BY <1>5, <2>1, ExceptSeq
  <2> QED
    BY <1>1, <2>1, <2>2, LenProperties, EmptySeq
<1>7. e \in Edges
  <2>1. Top.next \in 1 .. Len(Deps(p)) /\ DOMAIN Deps(p) = 1 .. Len(Deps(p))
    BY <1>2, <1>3, <1>4, LenProperties
  <2>2. m_registry[p, resolved[p]] # None
    BY <1>0, <1>2 DEF SelectedInv, Available
  <2> QED
    BY <1>2, <1>3, <2>1, <2>2, CalledIs DEF Deps
<1> HIDE DEF g
<1>8. \A i \in 1 .. n : /\ stack'[i].name = stack[i].name
                        /\ stack[i].name = p <=> i = n
                        /\ i # n => stack'[i] = stack[i]
  BY <1>1, <1>2, <1>5, <1>6 DEF StackInv
<1>9. e \notin Called
  <2>1. ~(Top.next < Top.next)
    BY <1>2
  <2>2. stack[n].name = p /\ stack[n].next = Top.next
    BY <1>1
  <2>3. n \in DOMAIN stack
    BY <1>2, <1>6
  <2> QED
    BY <1>0, <1>7, <2>1, <2>2, <2>3, CalledMeans
<1>10. Called' = Called \cup {e}
  <2>1. ASSUME NEW x \in Edges PROVE x \in Called' <=> x \in Called \/ x = e
    <3>1. PICK q \in Packages, v \in Versions, k \in Nat :
             x = <<<<q, v>>, k>> /\ m_registry[q, v] # None /\ k \in DOMAIN m_registry[q, v]
      <4>1. TypeOK
        BY <1>0
      <4> HIDE DEF n, p, e, c, r
      <4> QED
        BY <2>1, <4>1, EdgeIs
    <3>3. x \in Called <=> resolved[q] = v /\ \A i \in 1 .. n : stack[i].name = q => k < stack[i].next
      BY <1>0, <1>6, <3>1, CalledMeans
    <3>4. x \in Called' <=> resolved[q] = v /\ \A i \in 1 .. n : stack'[i].name = q => k < stack'[i].next
      BY <1>0, <1>6, <3>1, CalledMeans
    <3>5. CASE q # p
      BY <1>8, <3>1, <3>3, <3>4, <3>5
    <3>6. CASE q = p
      <4>1. x \in Called <=> resolved[q] = v /\ k < Top.next
        BY <1>1, <1>2, <1>8, <3>3, <3>6
      <4>2. x \in Called' <=> resolved[q] = v /\ k < Top.next + 1
        BY <1>2, <1>5, <1>6, <1>8, <3>4, <3>6
      <4>3. x = e <=> resolved[q] = v /\ k = Top.next
        BY <3>1, <3>6
      <4>4. k < Top.next + 1 <=> k < Top.next \/ k = Top.next
        BY <1>2
      <4> QED
        BY <4>1, <4>2, <4>3, <4>4
    <3> QED
      BY <3>5, <3>6
  <2>2. Called \subseteq Edges /\ Called' \subseteq Edges
    BY <1>0 DEF Called, Edges
  <2> QED
    BY <1>7, <2>1, <2>2
<1>11. Returned' = Returned
  BY <1>0, <1>6, <1>8 DEF Returned
<1>12. RootsCalled = done + 1 /\ RootsCalled' = done + 1
  BY <1>0, <1>6 DEF RootsCalled
<1>13. Cardinality(Called') = c + 1 /\ IsFiniteSet(Called)
  <2>1. IsFiniteSet(Called)
    BY <1>0, CountsFinite
  <2> QED
    BY <1>9, <1>10, <2>1, FS_AddElement
<1>14. c \in Nat /\ r \in Nat /\ done \in Nat /\ Effort = 2 * (done + 1 + c) + r
  BY <1>0, <1>12, EffortIs
<1>15. Effort' = 2 * (done + 1 + (c + 1)) + r - 1
  BY <1>4, <1>11, <1>12, <1>13 DEF Effort
<1> HIDE DEF c, r
<1> QED
  BY <1>14, <1>15

LEMMA ReturnAdvances ==
    ASSUME IInv, StackInv, IsFiniteSet(Packages), Return PROVE Effort' = Effort + 1
<1> DEFINE n == Len(stack)
           m == n - 1
           p == Top.name
           c == Cardinality(Called)
           r == Cardinality(Returned)
<1>0. /\ TypeOK /\ stack # <<>> /\ calling = None /\ SelectedInv /\ FramesInv
      /\ UNCHANGED <<m_registry, root_deps, resolved, calling, result>>
  BY NoneIsNoResult DEF IInv, Return, ProgressInv, SearchInv
<1>1. n \in Nat \ {0} /\ Top = stack[n] /\ Top \in Frame /\ stack \in Seq(Frame)
        /\ \A i \in 1 .. n : stack[i] \in Frame
  BY <1>0, TopFrame DEF TypeOK, Frame
<1>2. p \in Packages /\ Top.next \in Nat \ {0} /\ resolved[p] # None
  <2>1. FramesInv /\ n \in 1 .. n
    BY <1>0, <1>1
  <2> QED
    BY <1>0, <1>1, <2>1 DEF Frame, FramesInv, FrameOK
<1>3. Top.next > Len(m_registry[p, resolved[p]]) /\ stack' = SubSeq(stack, 1, m)
  BY DEF Return
<1>4. m \in Nat /\ n = m + 1
  BY <1>1
<1>5. Len(stack') = m /\ \A i \in 1 .. m : stack'[i] = stack[i]
  <2>1. 1 \in Int /\ m \in Int /\ \A i \in 1 .. m : stack[i] \in Frame
    BY <1>1, <1>4
  <2>2. /\ Len(stack') = IF 1 <= m THEN m - 1 + 1 ELSE 0
        /\ \A i \in 1 .. m - 1 + 1 : stack'[i] = stack[1 + i - 1]
    <3>1. stack' = SubSeq(stack, 1, m)
      BY <1>3
    <3> HIDE DEF m
    <3> QED
      BY <2>1, <3>1, SubSeqProperties
  <2>3. (~(1 <= m) => m = 0) /\ m - 1 + 1 = m /\ \A i \in 1 .. m : 1 + i - 1 = i
    <3> HIDE DEF m
    <3> QED
      BY <1>4
  <2> HIDE DEF m
  <2> QED
    BY <2>2, <2>3
<1>6. DOMAIN stack = 1 .. n /\ DOMAIN stack' = 1 .. m /\ (stack' = <<>> <=> m = 0)
  <2>1. stack' \in Seq(Frame)
    <3>1. 1 \in Int /\ m \in Int /\ \A i \in 1 .. m : stack[i] \in Frame
      BY <1>1, <1>4
    <3> HIDE DEF m
    <3> QED
      BY <1>3, <3>1, SubSeqProperties
  <2> QED
    BY <1>1, <1>5, <2>1, LenProperties, EmptySeq
<1> HIDE DEF n, m
<1>7. \A i \in 1 .. n : stack[i].name = p <=> i = n
  <2>1. n \in 1 .. n /\ stack[n].name = p
    BY <1>1
  <2> QED
    BY <2>1 DEF StackInv, n
<1>8. \A i \in 1 .. n : i # n <=> i \in 1 .. m
  BY <1>4
<1>9. Called' = Called
  <2>1. ASSUME NEW x \in Edges PROVE x \in Called' <=> x \in Called
    <3>1. PICK q \in Packages, v \in Versions, k \in Nat :
             x = <<<<q, v>>, k>> /\ m_registry[q, v] # None /\ k \in DOMAIN m_registry[q, v]
      <4>1. TypeOK
        BY <1>0
      <4> HIDE DEF p, c, r
      <4> QED
        BY <2>1, <4>1, EdgeIs
    <3>2. x \in Called <=> resolved[q] = v /\ \A i \in 1 .. n : stack[i].name = q => k < stack[i].next
      BY <1>0, <1>6, <3>1, CalledMeans
    <3>3. x \in Called' <=> resolved[q] = v /\ \A i \in 1 .. m : stack'[i].name = q => k < stack'[i].next
      BY <1>0, <1>6, <3>1, CalledMeans
    <3>4. resolved[q] = v /\ q = p => k < Top.next
      <4>1. m_registry[q, v] \in Seq(Dependencies)
        BY <1>0, <3>1 DEF TypeOK
      <4>2. k <= Len(m_registry[q, v]) /\ Len(m_registry[q, v]) \in Nat
        <5> DEFINE s == m_registry[q, v]
        <5>1. k \in DOMAIN s /\ s \in Seq(Dependencies)
          BY <3>1, <4>1
        <5> HIDE DEF s
        <5>2. k <= Len(s) /\ Len(s) \in Nat
          BY <5>1, LenProperties
        <5> QED
          BY <5>2 DEF s
      <4> SUFFICES ASSUME resolved[q] = v, q = p PROVE k < Top.next
        OBVIOUS
      <4>3. m_registry[q, v] = m_registry[p, resolved[p]]
        OBVIOUS
      <4>4. Top.next \in Nat /\ Top.next > Len(m_registry[q, v])
        BY <1>2, <1>3, <4>3
      <4>5. \A a, b, d \in Nat : a <= b /\ d > b => a < d
        OBVIOUS
      <4> QED
        BY <3>1, <4>2, <4>4, <4>5
    <3>5. \A i \in 1 .. n : (i \in 1 .. m /\ stack'[i] = stack[i]) \/ (stack[i].name = p /\ stack[i] = Top)
      BY <1>1, <1>5, <1>7, <1>8
    <3>6. \A i \in 1 .. m : i \in 1 .. n /\ stack'[i] = stack[i]
      BY <1>4, <1>5
    <3> QED
      BY <3>2, <3>3, <3>4, <3>5, <3>6
  <2>2. Called \subseteq Edges /\ Called' \subseteq Edges
    BY <1>0 DEF Called, Edges
  <2> QED
    BY <2>1, <2>2
<1>10. Returned' = Returned \cup {p} /\ p \notin Returned
  <2>1. p \notin Returned
    BY <1>6, <1>7, <1>1 DEF Returned
  <2>2. ASSUME NEW q \in Packages PROVE q \in Returned' <=> q \in Returned \/ q = p
    <3>1. CASE q = p
      <4>1. \A i \in 1 .. m : stack'[i].name # p
        BY <1>4, <1>5, <1>7
      <4> QED
        BY <1>0, <1>2, <1>6, <3>1, <4>1 DEF Returned
    <3>2. CASE q # p
      <4>1. (\E i \in 1 .. n : stack[i].name = q) <=> \E i \in 1 .. m : stack'[i].name = q
        BY <1>4, <1>5, <1>7, <1>8, <3>2
      <4> QED
        BY <1>0, <1>6, <3>2, <4>1 DEF Returned
    <3> QED
      BY <3>1, <3>2
  <2>3. Returned \subseteq Packages /\ Returned' \subseteq Packages
    BY DEF Returned
  <2> QED
    BY <1>2, <2>1, <2>2, <2>3
<1>11. RootsCalled = done + 1 /\ RootsCalled' = done + 1
  <2>1. done' = IF m = 0 THEN done + 1 ELSE done
    BY <1>5 DEF Return, DoneIfRoot
  <2> QED
    BY <1>0, <1>6, <2>1 DEF RootsCalled
<1>12. Cardinality(Returned') = r + 1
  <2>1. IsFiniteSet(Returned)
    BY <1>0, CountsFinite
  <2> QED
    BY <1>10, <2>1, FS_AddElement
<1>13. c \in Nat /\ r \in Nat /\ done \in Nat /\ Effort = 2 * (done + 1 + c) + r
  BY <1>0, <1>11, EffortIs
<1>14. Effort' = 2 * (done + 1 + c) + (r + 1) - 0
  BY <1>0, <1>9, <1>11, <1>12 DEF Effort
<1> HIDE DEF c, r
<1> QED
  BY <1>13, <1>14

LEMMA EnterResolvedAdvances ==
    ASSUME IInv, IsFiniteSet(Packages), EnterResolved PROVE Effort' = Effort + 1
<1> DEFINE c == Cardinality(Called)
           r == Cardinality(Returned)
<1>0. /\ TypeOK /\ calling # None /\ calling' = None
      /\ UNCHANGED <<m_registry, root_deps, resolved, stack>>
  BY DEF IInv, EnterResolved
<1>1. Called' = Called /\ Returned' = Returned
  BY <1>0 DEF Called, Edges, Returned
<1>2. c \in Nat /\ r \in Nat /\ done \in Nat /\ Effort = 2 * (done + 1 + c) + r - 1
  <2>1. RootsCalled = done + 1
    BY <1>0 DEF RootsCalled
  <2> QED
    BY <1>0, <2>1, EffortIs
<1>3. RootsCalled' = done + 1
  <2>1. stack \in Seq(Frame)
    BY <1>0 DEF TypeOK, Frame
  <2>2. stack = <<>> <=> Len(stack) = 0
    BY <2>1, EmptySeq
  <2>3. done' = IF Len(stack) = 0 THEN done + 1 ELSE done
    BY <1>0 DEF EnterResolved, DoneIfRoot
  <2> QED
    BY <1>0, <2>2, <2>3 DEF RootsCalled
<1>4. Effort' = 2 * (done + 1 + c) + r - 0
  BY <1>0, <1>1, <1>3 DEF Effort
<1> HIDE DEF c, r
<1> QED
  BY <1>2, <1>4

LEMMA EnterSelectAdvances ==
    ASSUME IInv, IsFiniteSet(Packages), EnterSelect PROVE Effort' = Effort + 1
<1> DEFINE n == Len(stack)
           c == Cardinality(Called)
           r == Cardinality(Returned)
<1>0. /\ TypeOK /\ FramesInv /\ calling # None /\ calling' = None /\ resolved[calling.name] = None
      /\ stack' = Append(stack, [name |-> calling.name, next |-> 1])
      /\ resolved' = [resolved EXCEPT ![calling.name] = selectBestVersion(calling)]
      /\ UNCHANGED <<m_registry, root_deps, done, result>>
  BY NoneIsNoResult DEF IInv, SearchInv, ProgressInv, EnterSelect
<1>1. PICK p \in Packages : p = calling.name
  BY <1>0 DEF TypeOK, Dependencies
<1> DEFINE g == [name |-> p, next |-> 1]
<1>2. stack \in Seq(Frame) /\ g \in Frame /\ g.name = p /\ g.next = 1 /\ stack' = Append(stack, g)
  BY <1>0, <1>1 DEF TypeOK, Frame
<1> HIDE DEF g
<1>3. /\ n \in Nat /\ DOMAIN stack = 1 .. n /\ DOMAIN stack' = 1 .. n + 1 /\ stack' # <<>>
      /\ stack'[n + 1] = g /\ \A i \in 1 .. n : stack'[i] = stack[i]
  <2>1. stack' \in Seq(Frame) /\ n \in Nat /\ Len(stack') = n + 1
    BY <1>2, LenProperties, AppendProperties
  <2>2. DOMAIN stack = 1 .. n /\ DOMAIN stack' = 1 .. n + 1
    BY <1>2, <2>1, LenProperties
  <2>3. stack' # <<>>
    BY <2>1, EmptySeq
  <2> QED
    BY <1>2, <2>1, <2>2, <2>3, AppendProperties
<1>4. \A i \in 1 .. n : stack[i].name # p
  BY <1>0, <1>1 DEF FramesInv, FrameOK
<1>5. /\ resolved[p] = None
      /\ \A q \in Packages \ {p} : resolved'[q] = resolved[q]
  BY <1>0, <1>1 DEF TypeOK
<1> HIDE DEF n
<1>6. \A i \in 1 .. n + 1 : i \in 1 .. n \/ i = n + 1
  BY <1>3
<1>7. \A i \in 1 .. n : i \in 1 .. n + 1
  BY <1>3
<1>8. n + 1 \in 1 .. n + 1
  BY <1>3
<1>9. Called' = Called
  <2>1. ASSUME NEW x \in Edges PROVE x \in Called' <=> x \in Called
    <3>1. PICK q \in Packages, v \in Versions, k \in Nat :
             x = <<<<q, v>>, k>> /\ m_registry[q, v] # None /\ k \in DOMAIN m_registry[q, v]
      <4>1. TypeOK
        BY <1>0
      <4> HIDE DEF c, r
      <4> QED
        BY <2>1, <4>1, EdgeIs
    <3>0. DOMAIN stack = 1 .. n /\ DOMAIN stack' = 1 .. n + 1 /\ m_registry' = m_registry
      BY <1>0, <1>3
    <3>2. x \in Called <=> resolved[q] = v /\ \A i \in 1 .. n : stack[i].name = q => k < stack[i].next
      BY <3>0, <3>1, CalledMeans
    <3>3. x \in Called' <=> resolved'[q] = v /\ \A i \in 1 .. n + 1 : stack'[i].name = q => k < stack'[i].next
      BY <3>0, <3>1, CalledMeans
    <3>4. CASE q = p
      <4>1. x \notin Called
        BY <1>5, <3>2, <3>4, ConstantsAssumption
      <4>2. k >= 1
        <5> DEFINE s == m_registry[q, v]
        <5>1. k \in DOMAIN s /\ s \in Seq(Dependencies)
          BY <1>0, <3>1 DEF TypeOK
        <5> HIDE DEF s
        <5> QED
          BY <5>1, LenProperties
      <4>3. ~(k < 1)
        <5>1. \A a \in Nat : a >= 1 => ~(a < 1)
          OBVIOUS
        <5> QED
          BY <4>2, <5>1
      <4>4. x \notin Called'
        BY <1>2, <1>3, <1>8, <3>3, <3>4, <4>3
      <4> QED
        BY <4>1, <4>4
    <3>5. CASE q # p
      BY <1>2, <1>3, <1>5, <1>6, <1>7, <3>2, <3>3, <3>5
    <3> QED
      BY <3>4, <3>5
  <2>2. Called \subseteq Edges /\ Called' \subseteq Edges
    BY <1>0 DEF Called, Edges
  <2> QED
    BY <2>1, <2>2
<1>10. Returned' = Returned
  <2>1. ASSUME NEW q \in Packages PROVE q \in Returned' <=> q \in Returned
    <3>1. CASE q = p
      BY <1>2, <1>3, <1>5, <1>8, <3>1 DEF Returned
    <3>2. CASE q # p
      <4>1. (\E i \in 1 .. n : stack[i].name = q) <=> \E i \in 1 .. n + 1 : stack'[i].name = q
        BY <1>2, <1>3, <1>6, <1>7, <3>2
      <4> QED
        BY <1>3, <1>5, <3>2, <4>1 DEF Returned
    <3> QED
      BY <3>1, <3>2
  <2>2. Returned \subseteq Packages /\ Returned' \subseteq Packages
    BY DEF Returned
  <2> QED
    BY <2>1, <2>2
<1>11. RootsCalled = done + 1 /\ RootsCalled' = done + 1
  BY <1>0, <1>3 DEF RootsCalled
<1>12. c \in Nat /\ r \in Nat /\ done \in Nat /\ Effort = 2 * (done + 1 + c) + r - 1
  BY <1>0, <1>11, EffortIs
<1>13. Effort' = 2 * (done + 1 + c) + r - 0
  BY <1>0, <1>9, <1>10, <1>11 DEF Effort
<1> HIDE DEF c, r
<1> QED
  BY <1>12, <1>13
----------------------------------------------------------------------------
(* A resolution makes no more steps than twice the dependencies of the       *)
(* request and of all registered versions and once the packages, however     *)
(* they depend on each other: no dependency is gone through twice, and none  *)
(* of the recursion's calls is made in vain.                                 *)
THEOREM Advances == ASSUME IsFiniteSet(Packages) PROVE Spec => SearchAdvances
<1>1. Init => StackInv
  <2> SUFFICES ASSUME Init PROVE StackInv
    OBVIOUS
  <2>1. Len(stack) = 0
    BY DEF Init
  <2> QED
    BY <2>1 DEF StackInv
<1>2. IInv /\ StackInv /\ [Next]_vars => StackInv'
  BY NextStackInv
<1>3. IInv => Effort \in Int /\ Effort <= EffortLimit
  BY WithinLimit
<1>4. IInv /\ StackInv /\ (Effort <= EffortLimit)' /\ [Next]_vars
        => [result' = None => Effort' = Effort + 1 /\ Effort' <= EffortLimit]_vars
  <2> SUFFICES ASSUME IInv, StackInv, (Effort <= EffortLimit)', Next, result' = None
               PROVE  Effort' = Effort + 1 /\ Effort' <= EffortLimit
    OBVIOUS
  <2>1. EffortLimit' = EffortLimit
    <3>1. UNCHANGED <<m_registry, root_deps>>
      BY DEF Next, CallRoot, CallDependency, Return, EnterResolved, EnterSelect, EnterFail
    <3> QED
      BY <3>1 DEF EffortLimit, Edges
  <2>2. ~EnterFail
    BY NoneIsNoResult DEF EnterFail
  <2>3. Effort' = Effort + 1
    BY <2>2, CallRootAdvances, CallDependencyAdvances, ReturnAdvances, EnterResolvedAdvances,
       EnterSelectAdvances DEF Next
  <2> QED
    BY <2>1, <2>3
<1> QED
  BY <1>1, <1>2, <1>3, <1>4, InitIInv, NextIInv, PTL DEF Spec, SearchAdvances

=============================================================================
