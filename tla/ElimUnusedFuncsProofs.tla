----------------------- MODULE ElimUnusedFuncsProofs -----------------------
(***************************************************************************)
(* Proofs about riscv-elim-unused-funcs for every number of functions and  *)
(* every well-formed binary.                                               *)
(***************************************************************************)
EXTENDS ElimUnusedFuncs, TLAPS

USE DEF canonicalize, markLive

-----------------------------------------------------------------------------
(***************************************************************************)
(* The inductive invariant.                                                *)
(***************************************************************************)

\* The alias map grows in address order and canon follows it.
AliasInv ==
    /\ pc = "aliases" => next \in Func
    /\ pc = "aliases" => \A f \in Func :
                            f >= next => f \notin DOMAIN aliases /\ canon[f] = f
    /\ \A f \in Func : canon[f] <= f
    /\ \A f \in DOMAIN aliases : aliases[f] \in Outers(f)
    /\ CanonicalIsOuter

Seeds == bin.entries \cup {f \in Func : isConservativeRoot(f)}

\* The references recorded once both collectors have run.
Visible == {r \in bin.insts : ~Has(r[1], {"notSimple", "noCFG"})} \cup bin.control

\* What each phase has collected.
RootInv ==
    /\ pc \in {"aliases", "roots"} => protected = {}
    /\ pc = "aliases" => roots = {}
    /\ pc \notin {"aliases", "roots"} => Seeds \subseteq protected
    /\ pc \notin {"aliases", "roots", "insts"} =>
          Canonical({r \in bin.insts : ~Has(r[1], {"notSimple", "noCFG"})})
              \subseteq edges
    /\ pc \notin {"aliases", "roots", "insts", "relocs"} =>
          /\ bin.taken \subseteq protected
          /\ Canonical(bin.control) \subseteq edges
    /\ \A f \in protected : canon[f] \in roots

\* The marking: what left the worklist has its targets marked.
MarkInv ==
    /\ pc \in {"aliases", "roots", "insts", "relocs", "mark"} =>
          live = {} /\ worklist = {}
    /\ pc \in {"propagate", "clear", "done"} =>
          /\ roots \cup protected \subseteq live
          /\ worklist \subseteq live
          /\ \A f \in live \ worklist : Targets(f) \subseteq live
    /\ pc \in {"clear", "done"} => worklist = {}

\* The sweep: the functions before next are decided.
ClearInv ==
    /\ pc \notin {"clear", "done"} => cleared = {}
    /\ pc = "clear" => next \in Func
    /\ pc = "done" => next = N + 1
    /\ pc \in {"clear", "done"} =>
          \A f \in Func : f \in cleared <=> f < next /\ Clears(f)

IInv == TypeOK /\ AliasInv /\ RootInv /\ MarkInv /\ ClearInv

-----------------------------------------------------------------------------
\* The initial state satisfies the invariant.
LEMMA InitIInv == Init => IInv
<1> SUFFICES ASSUME Init PROVE IInv
  OBVIOUS
<1> USE NAssumption DEF Init, Func
<1>1. TypeOK
  BY BinariesAssumption DEF TypeOK
<1>2. AliasInv
  BY DEF AliasInv, CanonicalIsOuter
<1>3. RootInv /\ MarkInv /\ ClearInv
  BY DEF RootInv, MarkInv, ClearInv
<1> QED
  BY <1>1, <1>2, <1>3 DEF IInv

\* The references of a binary are between its functions.
LEMMA BinFields == TypeOK => bin.entries \subseteq Func /\ bin.taken \subseteq Func
  BY DEF TypeOK, Binary

\* Type correctness is preserved by every step.
LEMMA TypeStep == IInv /\ [Next]_vars => TypeOK'
<1> SUFFICES ASSUME IInv, [Next]_vars PROVE TypeOK'
  OBVIOUS
<1> USE NAssumption DEF IInv, TypeOK, Func
<1>1. CASE AliasStep
  <2>1. next \in Func
    BY <1>1 DEF AliasInv, AliasStep
  <2>2. CASE UNCHANGED <<aliases, canon>>
    BY <1>1, <2>1, <2>2 DEF AliasStep, WellFormed
  <2>3. ASSUME NEW o \in Func,
               aliases' = [f \in DOMAIN aliases \cup {next} |->
                             IF f = next THEN o ELSE aliases[f]],
               canon' = [canon EXCEPT ![next] = canon[o]]
        PROVE  TypeOK'
    BY <1>1, <2>1, <2>3 DEF AliasStep, WellFormed
  <2> QED
    BY <1>1, <2>2, <2>3 DEF AliasStep
<1>2. CASE AddRoots
  <2>1. protected' \subseteq Func /\ roots' \subseteq Func
    BY <1>2, BinFields DEF AddRoots
  <2> QED
    BY <1>2, <2>1 DEF AddRoots, WellFormed
<1>3. CASE collectInstructionEdges
  BY <1>3 DEF collectInstructionEdges, Canonical, WellFormed
<1>4. CASE collectRelocationEdgesAndRoots
  <2>1. protected' \subseteq Func /\ roots' \subseteq Func
    BY <1>4, BinFields DEF collectRelocationEdgesAndRoots
  <2> QED
    BY <1>4, <2>1 DEF collectRelocationEdgesAndRoots, Canonical, WellFormed
<1>5. CASE MarkRoots
  BY <1>5 DEF MarkRoots, WellFormed
<1>6. CASE Propagate
  BY <1>6 DEF Propagate, Targets, WellFormed
<1>7. CASE StartClearing
  BY <1>7 DEF StartClearing, WellFormed
<1>8. CASE ClearStep
  <2>1. next \in Func
    BY <1>8 DEF ClearInv, ClearStep
  <2> QED
    BY <1>8, <2>1 DEF ClearStep, WellFormed
<1>9. CASE Done \/ UNCHANGED vars
  BY <1>9 DEF Done, vars, WellFormed
<1> QED
  BY <1>1, <1>2, <1>3, <1>4, <1>5, <1>6, <1>7, <1>8, <1>9 DEF Next

\* Adding an alias keeps canon at the end of every chain.
LEMMA AliasStepInv == IInv /\ [Next]_vars => AliasInv'
<1> SUFFICES ASSUME IInv, [Next]_vars PROVE AliasInv'
  OBVIOUS
<1> USE NAssumption DEF IInv, TypeOK, Func
<1>1. CASE AliasStep
  <2>1. next \in Func
    BY <1>1 DEF AliasInv, AliasStep
  <2>b. \A f : Outers(f)' = Outers(f)
    BY <1>1 DEF AliasStep, Outers, Laid, Has, End
  <2>2. CASE UNCHANGED <<aliases, canon>>
    BY <1>1, <2>1, <2>b, <2>2 DEF AliasStep, AliasInv, CanonicalIsOuter
  <2>3. ASSUME NEW o \in Func, IsBestOuter(o, next),
               aliases' = [f \in DOMAIN aliases \cup {next} |->
                             IF f = next THEN o ELSE aliases[f]],
               canon' = [canon EXCEPT ![next] = canon[o]]
        PROVE  AliasInv'
    <3>1. o < next /\ canon[o] <= o /\ canon[o] \in Func
      BY <2>1, <2>3 DEF IsBestOuter, Outers, AliasInv
    <3>2. \A f \in Func : f # next => canon[f] # next
      BY <1>1, <2>1 DEF AliasStep, AliasInv, CanonicalIsOuter
    <3>3. \A f \in Func : canon'[f] = IF f = next THEN canon[o] ELSE canon[f]
      BY <2>3
    <3>4. DOMAIN aliases' = DOMAIN aliases \cup {next}
      BY <2>3
    <3>5. \A f \in DOMAIN aliases' : aliases'[f] = IF f = next THEN o ELSE aliases[f]
      BY <2>3
    <3>6. \A f \in Func : canon[f] \notin DOMAIN aliases
      BY DEF AliasInv, CanonicalIsOuter
    <3>7. CanonicalIsOuter'
      <4> SUFFICES ASSUME NEW f \in Func
                   PROVE /\ canon'[f] \notin DOMAIN aliases'
                         /\ f \in DOMAIN aliases' => /\ aliases'[f] < f
                                                     /\ canon'[f] = canon'[aliases'[f]]
                         /\ f \notin DOMAIN aliases' => canon'[f] = f
        BY Zenon DEF CanonicalIsOuter
      <4>0. canon[o] # next /\ canon[o] \notin DOMAIN aliases
        <5>1. canon[o] # next
          BY <2>1, <3>1
        <5> QED
          BY <5>1, <3>6
      <4>1. canon'[f] \notin DOMAIN aliases'
        <5>1. CASE f = next
          BY <3>3, <3>4, <4>0, <5>1, Zenon
        <5>2. CASE f # next
          BY <3>2, <3>3, <3>4, <3>6, <5>2, Zenon
        <5> QED
          BY <5>1, <5>2
      <4>2. CASE f = next
        BY <3>1, <3>3, <3>4, <3>5, <4>1, <4>2
      <4>3. CASE f # next
        <5>1. f \in DOMAIN aliases => /\ aliases[f] < f
                                      /\ canon[f] = canon[aliases[f]]
                                      /\ aliases[f] # next
          BY <1>1, <4>3, <2>1 DEF AliasStep, AliasInv, CanonicalIsOuter
        <5>2. f \in DOMAIN aliases => aliases[f] \in Func
          OBVIOUS
        <5>3. f \notin DOMAIN aliases => canon[f] = f
          BY DEF AliasInv, CanonicalIsOuter
        <5> QED
          BY <3>3, <3>4, <3>5, <4>1, <4>3, <5>1, <5>2, <5>3, Zenon
      <4> QED
        BY <4>2, <4>3
    <3>8. \A f \in Func : canon'[f] <= f
      <4>1. \A f \in Func : canon[f] <= f
        BY DEF AliasInv
      <4>2. canon[o] <= next
        BY <2>1, <3>1
      <4> QED
        BY <3>3, <4>1, <4>2
    <3>9. pc' = "aliases" => next' \in Func /\ \A f \in Func :
                            f >= next' => f \notin DOMAIN aliases' /\ canon'[f] = f
      <4>1. next' = next + 1 /\ (pc' = "aliases" => next # N)
        BY <1>1 DEF AliasStep
      <4>2. \A f \in Func : f >= next => f \notin DOMAIN aliases /\ canon[f] = f
        BY <1>1 DEF AliasStep, AliasInv
      <4>3. \A f \in Func : f >= next' => f # next /\ f >= next
        BY <2>1, <4>1
      <4>4. \A f \in Func : f >= next' => f \notin DOMAIN aliases' /\ canon'[f] = f
        BY <3>3, <3>4, <4>2, <4>3, Zenon
      <4> QED
        BY <2>1, <4>1, <4>4
    <3>10. \A f \in DOMAIN aliases' : aliases'[f] \in Outers(f)'
      <4>1. \A f \in DOMAIN aliases : aliases[f] \in Outers(f)
        BY DEF AliasInv
      <4>2. o \in Outers(next)
        BY <2>3 DEF IsBestOuter
      <4> QED
        BY <2>b, <3>4, <3>5, <4>1, <4>2, Zenon
    <3> QED
      BY <3>7, <3>8, <3>9, <3>10 DEF AliasInv
  <2> QED
    BY <1>1, <2>2, <2>3 DEF AliasStep
<1>2. CASE ~AliasStep
  <2>1. \/ UNCHANGED <<aliases, canon>> /\ pc' # "aliases"
        \/ UNCHANGED <<aliases, canon, pc, next>>
    BY <1>2 DEF Next, vars, AddRoots, collectInstructionEdges,
       collectRelocationEdgesAndRoots, MarkRoots, Propagate, StartClearing,
       ClearStep, Done
  <2>2. bin' = bin
    BY <1>2 DEF Next, vars, AddRoots, collectInstructionEdges,
       collectRelocationEdgesAndRoots, MarkRoots, Propagate, StartClearing,
       ClearStep, Done
  <2>3. \A f : Outers(f)' = Outers(f)
    BY <2>2 DEF Outers, Laid, Has, End
  <2> QED
    BY <2>1, <2>3 DEF AliasInv, CanonicalIsOuter
<1> QED
  BY <1>1, <1>2

\* The collectors record every root and every visible reference.
LEMMA RootStep == IInv /\ [Next]_vars => RootInv'
<1> SUFFICES ASSUME IInv, [Next]_vars PROVE RootInv'
  OBVIOUS
<1> USE DEF IInv, RootInv, Seeds
<1>1. CASE AliasStep
  BY <1>1 DEF AliasStep, TypeOK
<1>2. CASE AddRoots
  BY <1>2 DEF AddRoots, TypeOK, isConservativeRoot, Has
<1>3. CASE collectInstructionEdges
  BY <1>3 DEF collectInstructionEdges, isConservativeRoot, Has, Canonical
<1>4. CASE collectRelocationEdgesAndRoots
  BY <1>4 DEF collectRelocationEdgesAndRoots, isConservativeRoot, Has, Canonical
<1>5. CASE MarkRoots
  BY <1>5 DEF MarkRoots, isConservativeRoot, Has, Canonical
<1>6. CASE Propagate
  BY <1>6 DEF Propagate, isConservativeRoot, Has, Canonical
<1>7. CASE StartClearing
  BY <1>7 DEF StartClearing, isConservativeRoot, Has, Canonical
<1>8. CASE ClearStep
  BY <1>8 DEF ClearStep, isConservativeRoot, Has, Canonical
<1>9. CASE Done \/ UNCHANGED vars
  BY <1>9 DEF Done, vars, isConservativeRoot, Has, Canonical
<1> QED
  BY <1>1, <1>2, <1>3, <1>4, <1>5, <1>6, <1>7, <1>8, <1>9 DEF Next

\* The worklist holds exactly the marked functions not yet expanded.
LEMMA MarkStep == IInv /\ [Next]_vars => MarkInv'
<1> SUFFICES ASSUME IInv, [Next]_vars PROVE MarkInv'
  OBVIOUS
<1> USE DEF IInv, MarkInv
<1>1. CASE AliasStep
  BY <1>1 DEF AliasStep
<1>2. CASE AddRoots
  BY <1>2 DEF AddRoots
<1>3. CASE collectInstructionEdges
  BY <1>3 DEF collectInstructionEdges
<1>4. CASE collectRelocationEdgesAndRoots
  BY <1>4 DEF collectRelocationEdgesAndRoots
<1>5. CASE MarkRoots
  BY <1>5 DEF MarkRoots
<1>6. CASE Propagate
  <2> PICK f \in worklist :
          /\ live' = live \cup Targets(f)
          /\ worklist' = (worklist \ {f}) \cup markLive(Targets(f))
    BY <1>6 DEF Propagate
  <2>1. UNCHANGED <<pc, roots, protected, canon, edges>> /\ pc = "propagate"
    BY <1>6 DEF Propagate
  <2>2. \A g : Targets(g)' = Targets(g)
    BY <2>1 DEF Targets
  <2> QED
    BY <2>1, <2>2
<1>7. CASE StartClearing
  BY <1>7 DEF StartClearing, Targets
<1>8. CASE ClearStep
  BY <1>8 DEF ClearStep, Targets
<1>9. CASE Done \/ UNCHANGED vars
  BY <1>9 DEF Done, vars, Targets
<1> QED
  BY <1>1, <1>2, <1>3, <1>4, <1>5, <1>6, <1>7, <1>8, <1>9 DEF Next

\* The sweep clears exactly the functions that Clears selects.
LEMMA ClearStepInv == IInv /\ [Next]_vars => ClearInv'
<1> SUFFICES ASSUME IInv, [Next]_vars PROVE ClearInv'
  OBVIOUS
<1> USE NAssumption DEF IInv, ClearInv, Func, TypeOK
<1>1. CASE ClearStep
  <2>1. \A f : Clears(f)' = Clears(f)
    BY <1>1 DEF ClearStep, Clears, canClearBody, Has
  <2>2. next \in Func
    BY <1>1 DEF ClearStep
  <2>3. \A f \in Func : f \in cleared' <=> f < next' /\ Clears(f)
    BY <1>1, <2>2 DEF ClearStep
  <2> QED
    BY <1>1, <2>1, <2>2, <2>3 DEF ClearStep
<1>2. CASE StartClearing
  BY <1>2 DEF StartClearing
<1>3. CASE Done \/ UNCHANGED vars
  BY <1>3 DEF Done, vars, Clears, canClearBody, Has
<1>4. CASE ~ClearStep /\ ~StartClearing /\ ~Done /\ ~UNCHANGED vars
  BY <1>4 DEF Next, AliasStep, AddRoots, collectInstructionEdges,
     collectRelocationEdgesAndRoots, MarkRoots, Propagate
<1> QED
  BY <1>1, <1>2, <1>3, <1>4

\* The invariant holds of every behaviour of the pass.
THEOREM IInvHolds == Spec => []IInv
<1>1. IInv /\ [Next]_vars => IInv'
  BY TypeStep, AliasStepInv, RootStep, MarkStep, ClearStepInv DEF IInv
<1> QED
  BY InitIInv, <1>1, PTL DEF Spec

-----------------------------------------------------------------------------
\* A live function that is no alias, or that is protected, is kept with the
\* function its references are recorded under.
LEMMA KeptIsLive ==
    ASSUME IInv, pc = "done", NEW f \in Func, f \notin cleared,
           "noInstructions" \notin bin.flags[f]
    PROVE  f \in live /\ canon[f] \in live
<1> USE DEF IInv
<1>1. ~Clears(f)
  BY NAssumption DEF ClearInv, Func
<1>2. CASE ~canClearBody(f)
  <2>1. isConservativeRoot(f)
    BY <1>2 DEF canClearBody, isConservativeRoot, Has, Flag
  <2>2. f \in protected
    BY <2>1 DEF RootInv, Seeds
  <2> QED
    BY <2>2 DEF RootInv, MarkInv
<1>3. CASE canClearBody(f)
  <2>1. f \in live /\ (f \notin DOMAIN aliases \/ f \in protected)
    BY <1>1, <1>3 DEF Clears
  <2>2. f \notin DOMAIN aliases => canon[f] = f
    BY DEF AliasInv, CanonicalIsOuter
  <2>3. f \in protected => canon[f] \in live
    BY DEF RootInv, MarkInv
  <2> QED
    BY <2>1, <2>2, <2>3
<1> QED
  BY <1>2, <1>3

\* Type correctness, for every number of functions.
THEOREM TypeCorrect == Spec => []TypeOK
<1>1. IInv => TypeOK
  BY DEF IInv
<1> QED
  BY IInvHolds, <1>1, PTL

\* The walk of canonicalize always ends outside the alias map.
THEOREM CanonicalEnds == Spec => []CanonicalIsOuter
<1>1. IInv => CanonicalIsOuter
  BY DEF IInv, AliasInv
<1> QED
  BY IInvHolds, <1>1, PTL

\* A referenced function of a kept one has its canonical function kept.
LEMMA CanonicalKept == IInv => NoDanglingReference
<1>1. ASSUME IInv PROVE NoDanglingReference
  <2> SUFFICES ASSUME pc = "done", NEW f \in Func, NEW g \in Func,
                      <<f, g>> \in bin.insts \cup bin.control, f \notin cleared
               PROVE  canon[g] \notin cleared
    BY DEF NoDanglingReference
  <2> USE <1>1
  <2>1. WellFormed(bin)
    BY DEF IInv, TypeOK
  <2>2. "noInstructions" \notin bin.flags[f]
    BY <2>1 DEF WellFormed
  <2>3. f \in live /\ canon[f] \in live
    BY <2>2, KeptIsLive
  <2>4. canon[f] \in Func /\ canon[g] \in Func
    BY DEF IInv, TypeOK
  <2>5. canon[canon[f]] = canon[f] /\ canon[g] \notin DOMAIN aliases
    BY <2>4 DEF IInv, AliasInv, CanonicalIsOuter
  <2>6. <<f, g>> \in {r \in bin.insts : ~Has(r[1], {"notSimple", "noCFG"})}
        \/ <<f, g>> \in bin.control
    BY <2>1 DEF WellFormed, Has
  <2>7. canon[f] = canon[g] \/ <<canon[f], canon[g]>> \in edges
    BY <2>4, <2>6 DEF IInv, RootInv, Canonical
  <2>8. canon[g] \in live
    BY <2>3, <2>4, <2>5, <2>7 DEF IInv, MarkInv, Targets
  <2> QED
    BY <2>4, <2>5, <2>8 DEF IInv, ClearInv, Clears
<1> QED
  BY <1>1

\* A function kept by the pass never refers to a canonical function that was
\* cleared, for every binary and every order of the worklist.
THEOREM ReferencesSafe == Spec => []NoDanglingReference
  BY IInvHolds, CanonicalKept, PTL

\* The bytes of a referenced function stay in the body of a kept function
\* when its outer function is no alias.
THEOREM CodeSafe == Spec => []CodeStaysCovered
<1>1. ASSUME IInv PROVE CodeStaysCovered
  <2> SUFFICES ASSUME pc = "done", NEW f \in Func, NEW g \in Func,
                      <<f, g>> \in bin.insts \cup bin.control, f \notin cleared,
                      Laid(g),
                      g \in DOMAIN aliases => aliases[g] \notin DOMAIN aliases
               PROVE  \E h \in Func \ cleared :
                         bin.addr[h] <= bin.addr[g] /\ bin.addr[g] < End(h)
    BY DEF CodeStaysCovered
  <2> USE <1>1
  <2>1. canon[g] \in Func \ cleared
    BY CanonicalKept DEF NoDanglingReference, IInv, TypeOK
  <2>2. bin.addr \in [Func -> Nat] /\ bin.size \in [Func -> Nat]
    BY DEF IInv, TypeOK, Binary
  <2>3. CASE g \in DOMAIN aliases
    <3>1. aliases[g] \in Outers(g) /\ aliases[g] \in Func
      BY <2>3 DEF IInv, AliasInv, TypeOK
    <3>2. canon[g] = aliases[g]
      BY <2>3, <3>1 DEF IInv, AliasInv, CanonicalIsOuter
    <3>3. bin.addr[canon[g]] <= bin.addr[g] /\ bin.addr[g] < End(canon[g])
      BY <2>1, <2>2, <3>1, <3>2 DEF Outers, End
    <3> QED
      BY <2>1, <3>3
  <2>4. CASE g \notin DOMAIN aliases
    <3>1. canon[g] = g
      BY <2>4 DEF IInv, AliasInv, CanonicalIsOuter
    <3>2. bin.addr[g] < End(g)
      BY <2>2 DEF End, Laid
    <3> QED
      BY <2>1, <2>2, <3>1, <3>2
  <2> QED
    BY <2>3, <2>4
<1> QED
  BY IInvHolds, <1>1, PTL

\* Entry points, address-taken functions and conservative roots keep their
\* bodies in every state of the pass.
THEOREM OutsideSafe == Spec => []OutsideReferencesKept
<1>1. ASSUME IInv PROVE OutsideReferencesKept
  <2> SUFFICES ASSUME NEW f \in cleared,
                      \/ f \in bin.entries \/ f \in bin.taken
                      \/ f \in Func /\ isConservativeRoot(f)
               PROVE  FALSE
    BY DEF OutsideReferencesKept
  <2> USE <1>1 DEF IInv
  <2>1. f \in Func /\ pc \in {"clear", "done"}
    BY DEF ClearInv, TypeOK
  <2>2. f \in protected
    BY <2>1 DEF RootInv, Seeds
  <2>3. f \in live
    BY <2>1, <2>2 DEF MarkInv
  <2> QED
    BY <2>1, <2>2, <2>3 DEF ClearInv, Clears
<1> QED
  BY IInvHolds, <1>1, PTL
\* The marked set stays inside every set of functions that holds the roots
\* and is closed under the recorded edges.
THEOREM MarkingExact == Spec => []LiveIsLeast
<1>1. Init => LiveIsLeast
  BY DEF Init, LiveIsLeast
<1>2. ASSUME IInv, LiveIsLeast, [Next]_vars PROVE LiveIsLeast'
  <2> SUFFICES ASSUME NEW S \in SUBSET Func, roots' \cup protected' \subseteq S,
                      \A f \in S : Targets(f)' \subseteq S
               PROVE  live' \subseteq S
    BY DEF LiveIsLeast
  <2> USE <1>2
  <2>1. CASE pc \in {"aliases", "roots", "insts", "relocs"}
    <3>1. live' = {}
      BY <2>1 DEF IInv, MarkInv, Next, vars, AliasStep, AddRoots,
         collectInstructionEdges, collectRelocationEdgesAndRoots, MarkRoots,
         Propagate, StartClearing, ClearStep, Done
    <3> QED
      BY <3>1
  <2>2. CASE MarkRoots
    BY <2>2 DEF MarkRoots
  <2>3. CASE ~MarkRoots /\ pc \notin {"aliases", "roots", "insts", "relocs"}
    <3>1. UNCHANGED <<canon, edges, roots, protected>>
      BY <2>3 DEF Next, vars, AliasStep, AddRoots, collectInstructionEdges,
         collectRelocationEdgesAndRoots, Propagate, StartClearing, ClearStep, Done
    <3>2. \A f : Targets(f)' = Targets(f)
      BY <3>1 DEF Targets
    <3>3. live \subseteq S
      BY <3>1, <3>2 DEF LiveIsLeast
    <3>4. CASE Propagate
      <4> PICK f \in worklist : live' = live \cup Targets(f)
        BY <3>4 DEF Propagate
      <4>1. f \in S
        BY <3>3, <3>4 DEF Propagate, IInv, MarkInv
      <4> QED
        BY <3>2, <3>3, <4>1
    <3>5. CASE ~Propagate
      <4>1. live' = live
        BY <2>3, <3>5 DEF Next, vars, AliasStep, AddRoots, collectInstructionEdges,
           collectRelocationEdgesAndRoots, StartClearing, ClearStep, Done
      <4> QED
        BY <3>3, <4>1
    <3> QED
      BY <3>4, <3>5
  <2> QED
    BY <2>1, <2>2, <2>3
<1> QED
  BY IInvHolds, <1>1, <1>2, PTL DEF Spec
=============================================================================
