---------------------------- MODULE BlockPasses ----------------------------
(***************************************************************************)
(* The passes of bolt/lib/Passes/RISCV that rewrite a few neighbouring     *)
(* instructions: riscv-stack-push-opt, riscv-gp-relax,                     *)
(* riscv-reuse-lui-aggressive, riscv-memory-ssa, riscv-reuse-lui-relative  *)
(* and riscv-reuse-lui-absolute.  One behaviour is one of the passes over  *)
(* one function.                                                           *)
(*                                                                         *)
(* A function is a sequence of instructions in which BB stands between two *)
(* blocks.  A block is a vector: erasing an instruction moves the later    *)
(* ones of its block one place down, under the iterators that are kept.    *)
(***************************************************************************)
EXTENDS RVMachine, FiniteSets, SequencesExt

CONSTANTS Functions,  \* the input functions of each pass
          Addr,       \* the addresses of the symbols (getSymbolValue)
          Gp,         \* the register x3
          GP          \* the address in it, of __global_pointer$

VARIABLES pass,
          code,   \* the function being rewritten
          ii,     \* the iterator II, as an index
          chain,  \* the open chain of riscv-reuse-lui-aggressive
          seen,   \* the pattern riscv-reuse-lui-relative remembers
          orig    \* the input, for the properties

vars == <<pass, code, ii, chain, seen, orig>>

Passes == {"push", "gp", "chain", "memory", "relative", "absolute"}
None == <<>>

Here == ii <= Len(code)
At(k, op) == k \in DOMAIN code /\ code[k].op = op

\* Seeded fault: one more than a signed immediate of 12 bits holds.
isInt12Wide(d) == d >= -(Page \div 2) /\ d <= Page \div 2

isInt12(d) == d >= -(Page \div 2) /\ d < Page \div 2

\* code without the instructions at the positions ps.
Without(c, ps) ==
    LET left == SelectSeq([k \in DOMAIN c |-> k], LAMBDA k : k \notin ps)
    IN  [k \in DOMAIN left |-> c[left[k]]]

Init == /\ pass \in Passes
        /\ orig \in Functions[pass]
        /\ code = orig /\ ii = 1 /\ chain = None /\ seen = None

-----------------------------------------------------------------------------
(***************************************************************************)
(* riscv-stack-push-opt: four stores of a zero byte that fill an aligned   *)
(* word become one store of a word.                                        *)
(***************************************************************************)
ZeroByte(k) == At(k, "SB") /\ code[k].rt = 0 /\ code[k].sym = 0

AlignedBase(off) == off - (off % 4)

\* The scan from II reaches k.
SameWord(k) ==
    \A j \in ii .. k : /\ ZeroByte(j) /\ code[j].rs = code[ii].rs
                       /\ AlignedBase(code[j].imm) = AlignedBase(code[ii].imm)

\* The first store of each byte of the word.
Candidates == {k \in ii .. Len(code) :
    SameWord(k) /\ \A j \in ii .. k - 1 : code[j].imm # code[k].imm}

MergeZeroBytes ==
    /\ pass = "push" /\ Here /\ Cardinality(Candidates) = 4
    /\ code' = Without([code EXCEPT ![ii] = SW(0, @.rs, AlignedBase(@.imm))],
                       Candidates \ {ii})
    /\ ii' = ii + 1
    /\ UNCHANGED <<pass, chain, seen, orig>>

KeepBytes ==
    /\ pass = "push" /\ Here /\ Cardinality(Candidates) # 4
    /\ ii' = ii + 1
    /\ UNCHANGED <<pass, code, chain, seen, orig>>

-----------------------------------------------------------------------------
(***************************************************************************)
(* riscv-gp-relax: LUI %hi and the sinks with %lo behind it become sinks   *)
(* relative to gp.                                                         *)
(***************************************************************************)
isIFormatGPSink(i) == i.op \in {"ADDI", "LW", "LB"}
isSFormatGPSink(i) == i.op \in {"SW", "SB"}

\* A sink of register r with a %lo operand.
LoSink(k, r) ==
    /\ k \in DOMAIN code /\ (isIFormatGPSink(code[k]) \/ isSFormatGPSink(code[k]))
    /\ code[k].rs = r /\ code[k].sym # 0

\* A store of the address register itself: nothing is relaxed.
StoresBase(k, r) == LoSink(k, r) /\ isSFormatGPSink(code[k]) /\ code[k].rt = r

GPOffset(k) == Addr[code[k].sym] + code[k].imm - GP

definesReg(k, r) == isIFormatGPSink(code[k]) /\ code[k].rd = r

\* The scan from the LUI at II relaxes the sink at k.
Relaxed(k) ==
    LET r == code[ii].rd
    IN  /\ \A j \in ii + 1 .. k :
              /\ LoSink(j, r) /\ ~StoresBase(j, r) /\ code[j].sym = code[ii].sym
              /\ isInt12(GPOffset(j))
        /\ \A j \in ii + 1 .. k - 1 : ~definesReg(j, r)

RelaxedSinks == {k \in ii + 1 .. Len(code) : Relaxed(k)}
ScanEnd == ii + Cardinality(RelaxedSinks) + 1

\* Seeded fault: the scan does not stop at the end of the block.
RedefinedAnywhere(r, k) ==
    \E n \in k .. Len(code) :
        /\ r \in Defs(code[n]) \ Uses(code[n])
        /\ \A j \in k .. (n - 1) : r \notin Uses(code[j])

isRegRedefinedBeforeUse(r, k) ==
    \E n \in k .. Len(code) :
        /\ r \in Defs(code[n]) \ Uses(code[n])
        /\ \A j \in k .. (n - 1) : r \notin Uses(code[j]) /\ code[j].op # "BB"

RelaxesHere ==
    LET r == code[ii].rd
        kills == definesReg(ScanEnd - 1, r)
    IN  /\ At(ii, "LUI") /\ code[ii].sym # 0 /\ RelaxedSinks # {}
        /\ kills \/ ~StoresBase(ScanEnd, r)
        /\ kills \/ isRegRedefinedBeforeUse(r, ScanEnd)

GPRelax ==
    /\ pass = "gp" /\ Here /\ RelaxesHere
    /\ code' = RemoveAt([k \in DOMAIN code |->
                   IF k \in RelaxedSinks
                   THEN [code[k] EXCEPT !.rs = Gp, !.imm = GPOffset(k), !.sym = 0]
                   ELSE code[k]], ii)
    /\ UNCHANGED <<pass, ii, chain, seen, orig>>

KeepAbsolute ==
    /\ pass = "gp" /\ Here /\ ~RelaxesHere
    /\ ii' = ii + 1
    /\ UNCHANGED <<pass, code, chain, seen, orig>>

-----------------------------------------------------------------------------
(***************************************************************************)
(* riscv-reuse-lui-aggressive: in a run of LUI+ADDI pairs every address    *)
(* after the first is computed from the one before it.                     *)
(***************************************************************************)

\* The next instruction, in the next block that has one when this one ends;
\* Len + 1 at the end of the function.
nextInst(k) == CHOOSE p \in k + 1 .. Len(code) + 1 :
                  ~At(p, "BB") /\ \A j \in k + 1 .. p - 1 : At(j, "BB")

HiLUI(k) == At(k, "LUI") /\ code[k].sym # 0
LoADDI(k) == At(k, "ADDI") /\ code[k].sym # 0

PlainSym(k) == code[k].sym # 0 /\ code[k].imm = 0

StartsChain ==
    /\ HiLUI(ii) /\ PlainSym(ii)
    /\ LoADDI(nextInst(ii)) /\ PlainSym(nextInst(ii))
    /\ code[ii].sym = code[nextInst(ii)].sym

StartChain ==
    /\ pass = "chain" /\ Here /\ chain = None /\ StartsChain
    /\ LET a == nextInst(ii)
       IN  chain' = [at |-> a, hi |-> code[ii].rd, reg |-> code[a].rd,
                     val |-> Addr[code[a].sym]]
    /\ UNCHANGED <<pass, code, ii, seen, orig>>

NoChain ==
    /\ pass = "chain" /\ Here /\ chain = None /\ ~StartsChain
    /\ ii' = nextInst(ii)
    /\ UNCHANGED <<pass, code, chain, seen, orig>>

NextLUI == nextInst(chain.at)
NextADDI == nextInst(NextLUI)
Diff == Addr[code[NextADDI].sym] - chain.val

Links ==
    /\ HiLUI(NextLUI) /\ code[NextLUI].rd = chain.hi
    /\ LoADDI(NextADDI) /\ PlainSym(NextADDI)
    /\ isInt12(Diff)

\* Seeded fault: the base of the next link is the first register for ever.
LinkedFirst(at) == [chain EXCEPT !.at = at, !.val = Addr[code[NextADDI].sym]]

Linked(at) == [chain EXCEPT !.at = at, !.reg = code[NextADDI].rd,
                            !.val = Addr[code[NextADDI].sym]]

(***************************************************************************)
(* The ADDI is replaced and then the LUI is erased.  ReplacePos was taken  *)
(* before: when both are in one block it now designates the instruction    *)
(* behind the new ADDI, in the next block when there is none.  That block  *)
(* must not be empty: the code increments its end.                         *)
(***************************************************************************)
ReplacePos ==
    IF NextADDI = NextLUI + 2 THEN NextADDI - 1
    ELSE IF At(NextADDI + 1, "BB") THEN NextADDI + 1 ELSE NextADDI

LinkChain ==
    /\ pass = "chain" /\ chain # None /\ Links
    /\ code' = RemoveAt([code EXCEPT ![NextADDI] = ADDI(@.rd, chain.reg, Diff)], NextLUI)
    /\ chain' = Linked(ReplacePos)
    /\ UNCHANGED <<pass, ii, seen, orig>>

EndChain ==
    /\ pass = "chain" /\ chain # None /\ ~Links
    /\ ii' = chain.at /\ chain' = None
    /\ UNCHANGED <<pass, code, seen, orig>>

-----------------------------------------------------------------------------
(***************************************************************************)
(* riscv-memory-ssa: a load of the word that was just stored.              *)
(***************************************************************************)
LoadsBack ==
    /\ At(ii, "SW") /\ At(ii + 1, "LW") /\ code[ii].sym = 0 /\ code[ii + 1].sym = 0
    /\ code[ii].rs = code[ii + 1].rs /\ code[ii].imm = code[ii + 1].imm

\* The function when the load behind the store at k is forwarded.
Forwarded(k) ==
    IF code[k + 1].rd \in {0, code[k].rt} THEN RemoveAt(code, k + 1)
    ELSE IF code[k].rt = 0 THEN code
    ELSE [code EXCEPT ![k + 1] = I("C_MV", @.rd, code[k].rt, 0, 0, 0)]

ForwardLoad ==
    /\ pass = "memory" /\ Here
    /\ code' = IF LoadsBack THEN Forwarded(ii) ELSE code
    /\ ii' = ii + 1
    /\ UNCHANGED <<pass, chain, seen, orig>>

-----------------------------------------------------------------------------
(***************************************************************************)
(* riscv-reuse-lui-relative: C_LUI, SUB, LW with the address of the last   *)
(* such triple of the block loses the C_LUI and the SUB.                   *)
(***************************************************************************)
Triple ==
    LET r == code[ii].rd
    IN  /\ At(ii, "C_LUI") /\ At(ii + 1, "SUB") /\ At(ii + 2, "LW")
        /\ code[ii + 1].rd = r /\ code[ii + 1].rt = r /\ code[ii + 2].rs = r

Pattern == [reg |-> code[ii].rd, imm |-> code[ii].imm, lhs |-> code[ii + 1].rs]

RemoveTriple ==
    /\ pass = "relative" /\ Here /\ Triple /\ seen = Pattern
    /\ code' = Without(code, {ii, ii + 1})
    /\ UNCHANGED <<pass, ii, chain, seen, orig>>

RememberTriple ==
    /\ pass = "relative" /\ Here /\ Triple /\ seen # Pattern
    /\ seen' = Pattern /\ ii' = ii + 3
    /\ UNCHANGED <<pass, code, chain, orig>>

NoTriple ==
    /\ pass = "relative" /\ Here /\ ~Triple
    /\ seen' = IF At(ii, "BB") THEN None ELSE seen
    /\ ii' = ii + 1
    /\ UNCHANGED <<pass, code, chain, orig>>

-----------------------------------------------------------------------------
(***************************************************************************)
(* riscv-reuse-lui-absolute: of two LUIs in a row with addresses in one    *)
(* page, the second copies the first.                                      *)
(***************************************************************************)
PageOf(k) == Addr[code[k].sym] \div Page

SamePage ==
    /\ At(ii, "LUI") /\ PlainSym(ii)
    /\ At(ii + 1, "LUI") /\ PlainSym(ii + 1)
    /\ PageOf(ii) = PageOf(ii + 1)

CopyLUI ==
    /\ pass = "absolute" /\ Here /\ SamePage
    /\ code' = [code EXCEPT ![ii + 1] = I("C_MV", @.rd, code[ii].rd, 0, 0, 0)]
    /\ ii' = ii + 2
    /\ UNCHANGED <<pass, chain, seen, orig>>

\* Seeded fault: the iterator stays where it is.
KeepLUIStuck ==
    /\ pass = "absolute" /\ Here /\ ~SamePage
    /\ UNCHANGED vars

KeepLUI ==
    /\ pass = "absolute" /\ Here /\ ~SamePage
    /\ ii' = ii + 1
    /\ UNCHANGED <<pass, code, chain, seen, orig>>

-----------------------------------------------------------------------------
Ended == ~Here /\ chain = None

Done == Ended /\ UNCHANGED vars

Next == \/ MergeZeroBytes \/ KeepBytes \/ GPRelax \/ KeepAbsolute
        \/ StartChain \/ NoChain \/ LinkChain \/ EndChain
        \/ ForwardLoad \/ RemoveTriple \/ RememberTriple \/ NoTriple
        \/ CopyLUI \/ KeepLUI \/ Done

\* A pass runs to its end.
Spec == Init /\ [][Next]_vars /\ WF_vars(Next)
-----------------------------------------------------------------------------
\* %hi rounds to the nearest page, %lo is what is missing.
Hi(a) == (a + Page \div 2) \div Page
Lo(a) == a - Page * Hi(a)

Concrete(i) ==
    IF i.sym = 0 THEN i
    ELSE [i EXCEPT !.sym = 0,
                   !.imm = LET a == Addr[i.sym] + i.imm
                           IN  IF i.op = "LUI" THEN Hi(a) ELSE Lo(a)]

\* The state after c, entered with gp set up.
After(c) == Run(<<I("C_LI", Gp, 0, 0, GP, 0)>> \o [k \in DOMAIN c |-> Concrete(c[k])])

\* What stands before each block, and behind the last.
Bounds(c) ==
    <<0>> \o SelectSeq([k \in DOMAIN c |-> k], LAMBDA k : c[k].op = "BB") \o <<Len(c) + 1>>

\* Blocks n to m of c.
Between(c, n, m) == SubSeq(c, Bounds(c)[n] + 1, Bounds(c)[m + 1] - 1)

(***************************************************************************)
(* At every step the function does what the input did, whichever of its    *)
(* blocks it is entered at and left behind: the same calls, accesses and   *)
(* final registers, for every initial state.                               *)
(***************************************************************************)
SameBehaviour ==
    \A m \in 1 .. Len(Bounds(orig)) - 1 : \A n \in 1 .. m :
        After(Between(code, n, m)) = After(Between(orig, n, m))

(***************************************************************************)
(* The immediates the passes compute themselves, differences of addresses  *)
(* and aligned offsets, fit the instruction they are put in.               *)
(***************************************************************************)
ImmediatesFit ==
    \A k \in DOMAIN code :
        (isIFormatGPSink(code[k]) \/ isSFormatGPSink(code[k])) /\ code[k].sym = 0 =>
            code[k].imm \in -(Page \div 2) .. (Page \div 2) - 1

(***************************************************************************)
(* What the passes remember while they walk is true of the machine: where  *)
(* a chain is continued its last register holds its last address, although *)
(* the iterator may have passed an instruction that was not looked at, and *)
(* the register of the remembered triple still holds its difference.       *)
(***************************************************************************)
RememberedTrue ==
    /\ chain # None /\ Links =>
          After(SubSeq(code, 1, NextLUI - 1)).regs[chain.reg] = Abs(chain.val)
    /\ seen # None =>
          LET m == After(SubSeq(code, 1, ii - 1))
          IN  m.regs[seen.reg] = Sub(m.regs[seen.lhs], Abs(Page * seen.imm))

\* A pass over a function ends, although the vector it walks shrinks.
PassEnds == <>Ended
=============================================================================
