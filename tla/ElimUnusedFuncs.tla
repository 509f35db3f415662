-------------------------- MODULE ElimUnusedFuncs --------------------------
(***************************************************************************)
(* The pass riscv-elim-unused-funcs of the RISC-V size pipeline            *)
(* (bolt/lib/Passes/RISCV/RISCVElimUnusedFuncs.cpp): a mark and sweep over *)
(* the functions of a linked binary.  It finds overlapping functions       *)
(* ("aliases"), collects roots and call edges from instructions and from   *)
(* relocations, marks what the roots reach, and clears the bodies of the   *)
(* other functions.                                                        *)
(*                                                                         *)
(* A function is its position in BC.getBinaryFunctions(), a map keyed by   *)
(* address: positions are address order.  The binary is an input chosen in *)
(* Init; a reference is abstracted to the two functions it connects.       *)
(***************************************************************************)
EXTENDS Integers, FiniteSets

CONSTANTS N,         \* number of functions of the binary
          Section,   \* origin sections
          Binaries   \* the input binaries considered

ASSUME NAssumption == N \in Nat \ {0}

Func == 1 .. N

(***************************************************************************)
(* What the BinaryFunction predicates answer.  A function with no flag is  *)
(* simple, has a CFG, external-reference relocations and instructions.     *)
(***************************************************************************)
Flag == {"ignored", "pseudo", "folded", "fragment", "notSimple", "noCFG",
         "multiEntry", "unknownCF", "noExternalRefRelocs", "ehRanges", "cfi",
         "personality", "jumpTables", "noInstructions"}

(***************************************************************************)
(* insts:  <<f, g>> when an instruction of f calls or branches into g;     *)
(* control: <<f, g>> when the text of f has a direct control relocation    *)
(*          against g;                                                     *)
(* taken:  targets of every other relocation (data, %hi/%lo, dynamic);     *)
(* entries: the functions at StartFunctionAddress and FiniFunctionAddress. *)
(***************************************************************************)
Binary == [addr : [Func -> Nat], size : [Func -> Nat],
           section : [Func -> Section], flags : [Func -> SUBSET Flag],
           insts : SUBSET (Func \X Func), control : SUBSET (Func \X Func),
           taken : SUBSET Func, entries : SUBSET Func]

(***************************************************************************)
(* Binaries are sorted by address, a function without instructions refers  *)
(* to nothing, and where BOLT built no CFG the linker's relocations cover  *)
(* the calls (lld runs with --emit-relocs).                                *)
(***************************************************************************)
WellFormed(b) ==
    /\ \A f, g \in Func : f < g => b.addr[f] < b.addr[g]
    /\ \A f, g \in Func :
          /\ <<f, g>> \in b.insts \cup b.control => "noInstructions" \notin b.flags[f]
          /\ <<f, g>> \in b.insts /\ b.flags[f] \cap {"notSimple", "noCFG"} # {}
                => <<f, g>> \in b.control

ASSUME BinariesAssumption == \A b \in Binaries : b \in Binary /\ WellFormed(b)

VARIABLES bin,        \* the input binary
          pc,         \* phase of runOnFunctions
          next,       \* position of the loop over getBinaryFunctions()
          aliases,    \* AliasMap
          canon,      \* what canonicalize answers for the functions looked at
          edges,      \* EdgeMap
          roots, protected, live, worklist, cleared

vars == <<bin, pc, next, aliases, canon, edges, roots, protected, live,
          worklist, cleared>>

Has(f, fs) == bin.flags[f] \cap fs # {}

End(f) == bin.addr[f] + bin.size[f]

\* The functions computeOverlappingAliases looks at (injected ones are not
\* in the map).
Laid(f) == bin.size[f] # 0 /\ ~Has(f, {"pseudo"})

\* Seeded fault: a function that only touches f counts as overlapping it.
OutersTouching(f) == {g \in 1 .. (f - 1) :
                        /\ Laid(g)
                        /\ bin.section[g] = bin.section[f]
                        /\ bin.addr[g] < bin.addr[f]
                        /\ End(g) >= bin.addr[f]}

\* The candidates for BestOuter of f.
Outers(f) == {g \in 1 .. (f - 1) :
                /\ Laid(g)
                /\ bin.section[g] = bin.section[f]
                /\ bin.addr[g] < bin.addr[f]
                /\ End(g) > bin.addr[f]}

\* The loop keeps the outer with the largest end, the lowest address on a tie.
IsBestOuter(o, f) ==
    /\ o \in Outers(f)
    /\ \A g \in Outers(f) : \/ End(g) < End(o)
                            \/ End(g) = End(o) /\ bin.addr[o] <= bin.addr[g]

\* Seeded fault: functions BOLT could not fully disassemble are no roots.
isConservativeRootIfSimple(f) == Has(f, Flag \ {"noInstructions", "notSimple"})

isConservativeRoot(f) == Has(f, Flag \ {"noInstructions"})

\* canClearBody(f, RequireExternalRefRelocs = true), its only call.
canClearBody(f) == ~Has(f, Flag \ {"jumpTables"})

Init ==
    /\ bin \in Binaries
    /\ pc = "aliases" /\ next = 1
    /\ aliases = [f \in {} |-> 0]
    /\ canon = [f \in Func |-> f]
    /\ edges = {} /\ roots = {} /\ protected = {} /\ live = {}
    /\ worklist = {} /\ cleared = {}

\* Seeded fault: canonicalize follows one link only.
canonicalizeOnce(f) == f

\* The walk along the alias map, ended by a function that is no alias.
canonicalize(f) == canon[f]

(***************************************************************************)
(* One iteration of the outer loop of computeOverlappingAliases.  An alias *)
(* points to an earlier function, whose own entry is final, so the walk of *)
(* canonicalize from f is known once f is done: canon keeps its end.       *)
(***************************************************************************)
AliasStep ==
    /\ pc = "aliases"
    /\ \/ /\ Laid(next)
          /\ \E o \in Func :
                /\ IsBestOuter(o, next)
                /\ aliases' = [f \in DOMAIN aliases \cup {next} |->
                                 IF f = next THEN o ELSE aliases[f]]
                /\ canon' = [canon EXCEPT ![next] = canonicalize(o)]
       \/ /\ ~Laid(next) \/ Outers(next) = {}
          /\ UNCHANGED <<aliases, canon>>
    /\ next' = next + 1
    /\ pc' = IF next = N THEN "roots" ELSE "aliases"
    /\ UNCHANGED <<bin, edges, roots, protected, live, worklist, cleared>>

\* addRoot(BF, Protect = true) for the entry points and conservative roots.
AddRoots ==
    /\ pc = "roots"
    /\ LET seeds == bin.entries \cup {f \in Func : isConservativeRoot(f)}
       IN  /\ protected' = protected \cup seeds
           /\ roots' = roots \cup {canonicalize(f) : f \in seeds}
    /\ pc' = "insts"
    /\ UNCHANGED <<bin, next, aliases, canon, edges, live, worklist, cleared>>

\* addEdge over a set of references.
Canonical(refs) ==
    {e \in Func \X Func : e[1] # e[2] /\
        \E r \in refs : e = <<canonicalize(r[1]), canonicalize(r[2])>>}

collectInstructionEdges ==
    /\ pc = "insts"
    /\ edges' = edges \cup
         Canonical({r \in bin.insts : ~Has(r[1], {"notSimple", "noCFG"})})
    /\ pc' = "relocs"
    /\ UNCHANGED <<bin, next, aliases, canon, roots, protected, live,
                   worklist, cleared>>

collectRelocationEdgesAndRoots ==
    /\ pc = "relocs"
    /\ edges' = edges \cup Canonical(bin.control)
    /\ protected' = protected \cup bin.taken
    /\ roots' = roots \cup {canonicalize(f) : f \in bin.taken}
    /\ pc' = "mark"
    /\ UNCHANGED <<bin, next, aliases, canon, live, worklist, cleared>>

\* Seeded fault: overlapping functions are marked whether reached or not.
MarkRootsAndAliases ==
    /\ pc = "mark"
    /\ live' = roots \cup protected \cup DOMAIN aliases
    /\ worklist' = roots \cup protected \cup DOMAIN aliases
    /\ pc' = "propagate"
    /\ UNCHANGED <<bin, next, aliases, canon, edges, roots, protected, cleared>>

MarkRoots ==
    /\ pc = "mark"
    /\ live' = roots \cup protected
    /\ worklist' = roots \cup protected
    /\ pc' = "propagate"
    /\ UNCHANGED <<bin, next, aliases, canon, edges, roots, protected, cleared>>

\* The functions the popped one marks.
Targets(f) == {g \in Func : <<canonicalize(f), g>> \in edges}

\* Seeded fault: markLive pushes functions that are live already.
markLiveAgain(gs) == gs

\* The functions markLive pushes: the ones Live.insert had not seen.
markLive(gs) == gs \ live

(***************************************************************************)
(* The loop over the worklist.  Roots and Protected are SmallPtrSets, so   *)
(* the order of the worklist depends on addresses: any member may be next. *)
(***************************************************************************)
Propagate ==
    /\ pc = "propagate"
    /\ \E f \in worklist :
          /\ live' = live \cup Targets(f)
          /\ worklist' = (worklist \ {f}) \cup markLive(Targets(f))
    /\ UNCHANGED <<bin, pc, next, aliases, canon, edges, roots, protected, cleared>>

\* Seeded fault: the sweep starts one position too early.
StartClearingEarly ==
    /\ pc = "propagate" /\ worklist = {}
    /\ pc' = "clear" /\ next' = 0
    /\ UNCHANGED <<bin, aliases, canon, edges, roots, protected, live,
                   worklist, cleared>>

StartClearing ==
    /\ pc = "propagate" /\ worklist = {}
    /\ pc' = "clear" /\ next' = 1
    /\ UNCHANGED <<bin, aliases, canon, edges, roots, protected, live,
                   worklist, cleared>>

\* Seeded fault: an address-taken alias is cleared like any other.
ClearsProtected(f) == canClearBody(f) /\ ~(f \notin DOMAIN aliases /\ f \in live)

\* The body of the final loop clears f.
Clears(f) ==
    /\ canClearBody(f)
    /\ ~((f \notin DOMAIN aliases \/ f \in protected) /\ f \in live)

ClearStep ==
    /\ pc = "clear"
    /\ cleared' = IF Clears(next) THEN cleared \cup {next} ELSE cleared
    /\ next' = next + 1
    /\ pc' = IF next = N THEN "done" ELSE "clear"
    /\ UNCHANGED <<bin, aliases, canon, edges, roots, protected, live, worklist>>

Done == pc = "done" /\ UNCHANGED vars

Next == \/ AliasStep \/ AddRoots \/ collectInstructionEdges
        \/ collectRelocationEdgesAndRoots \/ MarkRoots \/ Propagate
        \/ StartClearing \/ ClearStep \/ Done

\* runOnFunctions runs to its end on one thread.
Spec == Init /\ [][Next]_vars /\ WF_vars(Next)
-----------------------------------------------------------------------------
TypeOK ==
    /\ bin \in Binary /\ WellFormed(bin)
    /\ pc \in {"aliases", "roots", "insts", "relocs", "mark", "propagate",
               "clear", "done"}
    /\ next \in 1 .. (N + 1)
    /\ DOMAIN aliases \subseteq Func
    /\ aliases \in [DOMAIN aliases -> Func]
    /\ canon \in [Func -> Func]
    /\ edges \subseteq Func \X Func
    /\ roots \subseteq Func /\ protected \subseteq Func
    /\ live \subseteq Func /\ worklist \subseteq Func
    /\ cleared \subseteq Func

(***************************************************************************)
(* canonicalize terminates: every alias points to a function at a lower    *)
(* address, and the answer is the end of the chain, itself not an alias.   *)
(***************************************************************************)
CanonicalIsOuter ==
    \A f \in Func :
        /\ canon[f] \notin DOMAIN aliases
        /\ f \in DOMAIN aliases => /\ aliases[f] < f
                                   /\ canon[f] = canon[aliases[f]]
        /\ f \notin DOMAIN aliases => canon[f] = f

(***************************************************************************)
(* A function that keeps its body never refers to code that was lost: the  *)
(* function that owns the target's range (its canonical function) keeps    *)
(* its body too, whichever way the reference was found.                    *)
(***************************************************************************)
NoDanglingReference ==
    pc = "done" =>
        \A f, g \in Func :
            <<f, g>> \in bin.insts \cup bin.control
            /\ f \notin cleared => canon[g] \notin cleared

(***************************************************************************)
(* Clearing an overlapping function loses no code that is still referred   *)
(* to: its bytes are in the body of the outer function, which is kept.     *)
(* Where the outer function is itself an alias the pass promises less: the *)
(* end of the chain need not cover the bytes.                              *)
(***************************************************************************)
CodeStaysCovered ==
    pc = "done" =>
        \A f, g \in Func :
            /\ <<f, g>> \in bin.insts \cup bin.control /\ f \notin cleared
            /\ Laid(g)
            /\ g \in DOMAIN aliases => aliases[g] \notin DOMAIN aliases
            => \E h \in Func \ cleared :
                  bin.addr[h] <= bin.addr[g] /\ bin.addr[g] < End(h)

(***************************************************************************)
(* What can be reached from outside the call graph - the entry points, the *)
(* functions whose address is taken, the functions BOLT does not fully     *)
(* understand - keeps its body, overlapping or not.                        *)
(***************************************************************************)
OutsideReferencesKept ==
    cleared \cap (bin.entries \cup bin.taken
                  \cup {f \in Func : isConservativeRoot(f)}) = {}

(***************************************************************************)
(* The marking is exact: it stays inside every set that holds the roots    *)
(* and is closed under the edges, so dead cycles of mutually recursive     *)
(* functions are cleared.                                                  *)
(***************************************************************************)
LiveIsLeast ==
    \A S \in SUBSET Func :
        /\ roots \cup protected \subseteq S
        /\ \A f \in S : Targets(f) \subseteq S
        => live \subseteq S

\* The marking loop ends although the call graph may have cycles.
Terminates == <>(pc = "done")
=============================================================================
