----------------------------- MODULE RelaxLoop -----------------------------
(***************************************************************************)
(* finalizeAddressDependentContent of lld/ELF/Writer.cpp for RISC-V:       *)
(* relaxOnce shrinks the text against the current global pointer, the      *)
(* addresses are assigned again, and calculateRISCVGP (module RISCVGP, run *)
(* here step by step) moves the pointer for the next pass.                 *)
(*                                                                         *)
(* Sizes are in units of one relaxed instruction.  The text is one input   *)
(* section followed by the data sections; symbols of the text, linker      *)
(* scripts and dynamic relocations are left out, so assignAddresses never  *)
(* reports a changed symbol.                                               *)
(***************************************************************************)
EXTENDS RISCVGP

CONSTANTS Programs,   \* relocations, text size and data sections
          TextBase,   \* address of the text
          CallReach,  \* what a jal reaches
          MaxPass     \* 30: passes before "relaxation not converged"

DataSec == [name : Name \ {".text"}, size : Nat, align : Nat \ {0}]
\* The padding for an alignment, a power of two, less one instruction.
Padding == {n \in Nat : \E k \in 0 .. n : n + 1 = 2 ^ k}

\* relax: an R_RISCV_RELAX follows.
Reloc == [kind : {"HI20", "LO12_I", "LO12_S"}, at : Nat, sec : Nat, off : Nat,
          relax : BOOLEAN]
         \cup [kind : {"CALL"}, at : Nat, dest : Nat, relax : BOOLEAN]
         \cup [kind : {"ALIGN"}, at : Nat, addend : Padding]

Program == [relocs : Seq(Reloc), size : Nat, data : Seq(DataSec)]

\* What the instructions of a relocation take before relaxation: lui or its user,
\* auipc and jalr, the padding.
Width(x) == CASE x.kind = "CALL" -> 2 [] x.kind = "ALIGN" -> x.addend [] OTHER -> 1

\* The relocations are in the order of their places, which are apart.
InOrder(p) ==
    \A i \in DOMAIN p.relocs :
        p.relocs[i].at + Width(p.relocs[i])
            <= IF i = Len(p.relocs) THEN p.size ELSE p.relocs[i + 1].at

IsData(x) == x.kind \in {"HI20", "LO12_I", "LO12_S"}

ASSUME LoopAssumption ==
    /\ TextBase \in Nat /\ CallReach \in Nat /\ MaxPass \in Nat \ {0}
    /\ \A p \in Programs :
          /\ p \in Program /\ InOrder(p)
          /\ \A i \in DOMAIN p.relocs :
                IsData(p.relocs[i]) => p.relocs[i].sec \in DOMAIN p.data

VARIABLES prog,
          step,     \* where the loop is
          pass, changed,
          deltas,   \* relocDeltas
          types     \* relocTypes

loopVars == <<prog, step, pass, changed, deltas, types>>
allVars == <<vars, loopVars>>

Relocs == prog.relocs
Dropped == IF Relocs = <<>> THEN 0 ELSE deltas[Len(Relocs)]

AlignUp(a, n) == ((a + n - 1) \div n) * n

\* assignAddresses: the data sections follow the shrunk text.
Addrs(p, dropped) ==
    LET addr[k \in DOMAIN p.data] ==
          AlignUp(IF k = 1 THEN TextBase + p.size - dropped
                  ELSE addr[k - 1] + p.data[k - 1].size, p.data[k].align)
    IN  addr

Sections(p, dropped) ==
    <<[name |-> ".text", addr |-> TextBase, size |-> p.size - dropped]>>
    \o [k \in DOMAIN p.data |-> [name |-> p.data[k].name,
                                 addr |-> Addrs(p, dropped)[k],
                                 size |-> p.data[k].size]]

\* r.sym->getVA(r.addend)
VA(x, secs) == secs[x.sec + 1].addr + x.off

RefsOf(p, dropped) ==
    [i \in DOMAIN p.relocs |->
        LET x == p.relocs[i]
        IN  IF IsData(x) THEN [type |-> x.kind, sec |-> x.sec + 1,
                               addr |-> VA(x, Sections(p, dropped))]
            ELSE [type |-> "other", sec |-> 0, addr |-> 0]]

\* Seeded fault: the reach is taken to be symmetric.
relaxHi20Lo12Wide(x) == VA(x, outputSections) - gp \in -Half .. Half

relaxHi20Lo12(x) == InReach(VA(x, outputSections), gp)

relaxCall(x, loc) == x.dest - loc \in -CallReach .. CallReach - 1

\* What relax() removes at relocation x when it lies at loc.  PowerOf2Ceil of a
\* padding is the alignment it was made for.
Remove(x, loc) ==
    IF x.kind = "HI20" /\ x.relax /\ relaxHi20Lo12(x) THEN 1
    ELSE IF x.kind = "CALL" /\ x.relax /\ relaxCall(x, loc) THEN 1
    ELSE IF x.kind = "ALIGN"
         THEN loc + x.addend - AlignUp(loc, x.addend + 1)
    ELSE 0

\* relocDeltas: every removal moves the relocations behind it.
RelaxedDeltas ==
    LET d[i \in 0 .. Len(Relocs)] ==
          IF i = 0 THEN 0
          ELSE d[i - 1] + Remove(Relocs[i], TextBase + Relocs[i].at - d[i - 1])
    IN  [i \in DOMAIN Relocs |-> d[i]]

RelaxedTypes ==
    [i \in DOMAIN Relocs |->
        IF IsData(Relocs[i]) /\ Relocs[i].relax /\ relaxHi20Lo12(Relocs[i])
        THEN IF Relocs[i].kind = "HI20" THEN "removed" ELSE "gprel"
        ELSE "none"]

\* Writer::setReservedSymbolSections: .sdata + 0x800, or the ELF header.
InitialGp(p) ==
    LET sdata == {k \in DOMAIN p.data : p.data[k].name = ".sdata"}
    IN  Half + (IF sdata = {} THEN 0
                ELSE Addrs(p, 0)[CHOOSE k \in sdata : \A j \in sdata : k <= j])

LoopInit ==
    /\ prog \in Programs
    /\ outputSections = Sections(prog, 0) /\ refs = RefsOf(prog, 0)
    /\ gp = InitialGp(prog) /\ score = 0 /\ pc = "done"
    /\ addrs = <<>> /\ l = 1 /\ r = 1 /\ bestL = 1 /\ bestCount = 0
    /\ step = "relax" /\ pass = 0 /\ changed = FALSE
    /\ deltas = [i \in DOMAIN Relocs |-> 0]
    /\ types = [i \in DOMAIN Relocs |-> "none"]

\* target->relaxOnce(pass), ++pass and the convergence test.
Relax ==
    /\ step = "relax"
    /\ deltas' = RelaxedDeltas /\ types' = RelaxedTypes
    /\ changed' = (deltas' # deltas)
    /\ pass' = pass + 1
    /\ step' = IF changed' /\ pass' >= MaxPass THEN "notConverged" ELSE "assign"
    /\ UNCHANGED <<vars, prog>>

\* Seeded fault: the data sections keep their addresses.
AssignNothing ==
    /\ step = "assign"
    /\ UNCHANGED inputs
    /\ gp' = Half /\ score' = 0 /\ pc' = "collect"
    /\ addrs' = <<>> /\ l' = 1 /\ r' = 1 /\ bestL' = 1 /\ bestCount' = 0
    /\ step' = "place"
    /\ UNCHANGED <<prog, pass, changed, deltas, types>>

\* script->assignAddresses(), and the call of calculateRISCVGP.
Assign ==
    /\ step = "assign"
    /\ outputSections' = Sections(prog, Dropped) /\ refs' = RefsOf(prog, Dropped)
    /\ gp' = Half /\ score' = 0 /\ pc' = "collect"
    /\ addrs' = <<>> /\ l' = 1 /\ r' = 1 /\ bestL' = 1 /\ bestCount' = 0
    /\ step' = "place"
    /\ UNCHANGED <<prog, pass, changed, deltas, types>>

Place ==
    /\ step = "place" /\ (Collect \/ Shrink \/ Grow \/ Choose)
    /\ UNCHANGED loopVars

\* if (!changed) break
Test ==
    /\ step = "place" /\ pc = "done"
    /\ step' = IF changed THEN "relax" ELSE "converged"
    /\ UNCHANGED <<vars, prog, pass, changed, deltas, types>>

Ended == step \in {"converged", "notConverged"} /\ UNCHANGED allVars

LoopNext == Relax \/ Assign \/ Place \/ Test \/ Ended

LoopSpec == LoopInit /\ [][LoopNext]_allVars
-----------------------------------------------------------------------------
\* Every user of a lui that may be relaxed has the symbol and the addend of one
\* that may be, too.
Paired(p) ==
    \A i \in DOMAIN p.relocs :
        p.relocs[i].kind \in {"LO12_I", "LO12_S"} /\ p.relocs[i].relax =>
        \E j \in DOMAIN p.relocs : /\ p.relocs[j].kind = "HI20" /\ p.relocs[j].relax
                                  /\ p.relocs[j].sec = p.relocs[i].sec
                                  /\ p.relocs[j].off = p.relocs[i].off

(***************************************************************************)
(* When the link goes through, every instruction that was made relative to *)
(* gp reaches its variable from where gp finally is, at the address the    *)
(* variable finally has, although gp and the addresses moved after the     *)
(* relaxation was decided.                                                 *)
(***************************************************************************)
GprelInReach ==
    step = "converged" =>
        \A i \in DOMAIN Relocs : types[i] = "gprel" =>
            InReach(VA(Relocs[i], outputSections), gp)

(***************************************************************************)
(* After the first pass the loop only stops at a fixed point: the text     *)
(* relaxed once more, against the addresses and the pointer the link ends  *)
(* with, would be the text it has.                                         *)
(***************************************************************************)
SettledAfterFirst ==
    step = "converged" /\ pass > 1 =>
        /\ RelaxedDeltas = deltas
        /\ RelaxedTypes = types
        /\ outputSections = Sections(prog, Dropped)

(***************************************************************************)
(* "we must converge to a fixed point" (Writer.cpp): no program is refused *)
(* with "relaxation not converged".                                        *)
(***************************************************************************)
RelaxationConverges == step # "notConverged"

=============================================================================
