# Verification of the RISC-V code-size pipeline

The repository is an LLVM 18 tree (clang, lld, llvm, bolt, libunwind) into which a
code-size pipeline for RV32 was built. The upstream toolchain is taken as given; this
project is about the pipeline: the post-link stage of the linker, which runs BOLT and
packers on every linked image, and the BOLT passes that rewrite RISC-V code.

## 1. Inventory

### How the parts interact

    clang -> lld link() -> CSGORFE splits .text of each input object
                        -> RISCVGP chooses __global_pointer$
                        -> writeResult
                        -> runBoltAndPack(output)            lld/ELF/Driver.cpp
                             cp, objcopy, llvm-bolt, packers (child processes)
                                      |
                                      v
          llvm-bolt: BinaryPassManager registers, in this order,
          FixRISCVCalls, Analyze, FrameOptimizer, ICF, StackPushOpt, GPRelax,
          ConstLUIReuse, ReuseLUIAggressive, MemorySSA, ReuseLUIRelative,
          ReuseLUIAbsolute, StackMemForward, TailMerge, CompressPeephole,
          ElimUnusedFuncs, ReorderData

The linker and BOLT talk through files and exit codes only. The passes share the
`BinaryContext` (functions, blocks, instructions); each runs over all functions on one
thread before the next starts. A block is a vector of instructions: erasing one moves
the later ones, and every iterator kept by a pass then designates another instruction.
That, children that fail, and code that is reached in ways the pass does not see (calls
whose description is not that of a call, overlapping functions, address constants) are
what is hard here. The RISC-V passes have no concurrency of their own.

### Components

| component | state | operations | what makes it correct | status |
|---|---|---|---|---|
| runBoltAndPack (`lld/ELF/Driver.cpp` 2883-3432) | the output, its backup, seven temporaries, candidate lists | backup, normalise, BOLT, wait, align, pack, select, guard, install, restore | the output is the linked image or a whole smaller one; nothing needed later is removed; it ends | modelled in part (size-only path), proved to implement `PostLink` |
| ElimUnusedFuncs | alias map, edges, roots, live set | find aliases, collect roots and edges, mark, clear | no kept function refers to lost code; marking exact | modelled, proved |
| ConstLUIReuse | register-value map, iterator, block | learn, reuse for ADDI, for load/store, for LUI | the map is true; the block computes the same | modelled, proved for the blocks it handles right |
| StackMemForward | slot map, base map, pending loads, iterator, block | forward, defer, erase overwritten store, forget | maps true; walk stays in the block; the block computes the same | modelled; the walk proved for all blocks, the rest while no store is erased |
| CompressPeephole | offsets of a round, instructions | compress single instructions by a table; shrink local jumps in rounds | a form executes what its instruction did; compressed jumps reach; rounds end with nothing left | modelled, proved |
| GPRelax, ReuseLUI (three passes), MemorySSA, StackPushOpt | block, chain or pattern state, iterator | pattern rewrites | the function computes the same; what is remembered is true; immediates fit | modelled |
| TailMerge | candidate blocks, groups by suffix, layout | move common suffixes to a new block | every block executes the same; the function gets smaller; no pair that pays is left | modelled, proved |
| CSGORFE | section headers, relocation groups of one object | validate, count, split .text, regroup relocations, move symbols, write | every relocation and symbol of a function names the byte it named; headers fit the room reserved | modelled, proved |
| RISCVGP | sorted reference addresses, window, best | collect, slide, choose | the pointer reaches at least what the default does, and as many references as any address | modelled, proved |
| relaxation loop (`lld/ELF/Writer.cpp` 1601-1680, `Arch/RISCV.cpp` 572-749) | deltas, relaxed types, addresses, gp | relax, assign addresses, place gp, test | what was relaxed is valid for the final gp and addresses | modelled in part, proved |
| LZ4 packer, legacy packer (`pack.py`) | a copy of the image | rewrite it in place | outcome only | outcome in BoltAndPack |
| Analyze, FixRISCVCalls, MCPlusBuilder | none | statistics, one-instruction edits and queries | - | not modelled |
| CallSequenceOutliner | - | compiled, never registered | - | not modelled |
| GVN, SimplifyCFG | - | empty files | - | not modelled |
| ICF, ParallelUtilities, ThreadPool, FrameOptimizer, ReorderData, upstream code | - | stock | - | not modelled |

The hazards of each, with their lines, are in `PROJECT.json`.

## 2. Modules

| module | models |
|---|---|
| `ElimUnusedFuncs` | `bolt/lib/Passes/RISCV/RISCVElimUnusedFuncs.cpp`; proofs in `ElimUnusedFuncsProofs` |
| `BoltAndPack` | `runBoltAndPack` and its helpers in `lld/ELF/Driver.cpp`; proofs in `BoltAndPackProofs` |
| `PostLink` | what that stage promises of the output path: the abstract specification |
| `RVMachine` | what a RISC-V block computes (external reference), and what instructions define and read (`RISCVInstrInfo.td`) |
| `ConstLUIReuse`, `StackMemForward` | `RISCVConstLUIReuse.cpp`, `RISCVStackMemForward.cpp`, over `RVMachine`; proofs in `ConstLUIReuseProofs`, `StackMemForwardProofs` |
| `BlockPasses` | `RISCVStackPushOpt.cpp`, `RISCVGPRelax.cpp`, `RISCVReuseLUIAggressive.cpp`, `RISCVMemorySSA.cpp`, `RISCVReuseLUIRelative.cpp`, `RISCVReuseLUIAbsolute.cpp`, over `RVMachine` |
| `CompressInst` | the table `compressInst` of `RISCVCompressPeephole.cpp`, and what the RVC encodings execute (external reference) |
| `CompressPeephole` | the pass: that table applied to every instruction, then `compressDirectJumps`; proofs in `CompressPeepholeProofs` |
| `TailMerge` | `RISCVTailMerge.cpp`, with `fixBranches` and `insertBasicBlocks` of BOLT's core; proofs in `TailMergeProofs` |
| `CSGORFE` | `lld/ELF/CSGORFE.h`; proofs in `CSGORFEProofs` |
| `RISCVGP` | `lld/ELF/RISCVGP.cpp`; proofs in `RelaxLoopProofs` |
| `RelaxLoop` | the loop of `Writer.cpp` around `relaxOnce`, `assignAddresses` and `calculateRISCVGP`; extends `RISCVGP` and runs it step by step; proofs in `RelaxLoopProofs` |
| `MC...` | values of the constants for TLC |

Operators with the comment "Seeded fault" are not part of any
specification: each is a plausible mistake in the operator defined right after it, kept
to show that the property it is paired with in `PROJECT.json` ("mutants") would notice.

### ElimUnusedFuncs

Functions are positions in `BC.getBinaryFunctions()`, hence in address order. The input
binary is a record chosen in `Init`: addresses, sizes, sections, the answers of the
predicates the pass asks (`flags`), the calls and branches found in instructions
(`insts`), the control relocations (`control`), the targets of all other relocations
(`taken`) and the entry points. One action per phase of `runOnFunctions`; the loops that
depend on their order (aliases, clearing) and the worklist take one action per
iteration. Resolving a relocation or a label to a function is part of the input.
`WellFormed` says what the linker and BOLT guarantee: sorted functions, and relocations
that cover the calls of functions BOLT did not disassemble (lld emits them with
`--emit-relocs`).

`CodeStaysCovered` is stated for functions whose outer function is not itself an alias.
Along a chain f inside g, g inside h, the pass keeps h, and h need not cover f.

### BoltAndPack

The state is the file system: every path the stage names holds nothing, a whole image or
the remains of a failed write, with a size. Every command may succeed or fail, and a
failing one may leave its destination untouched or damaged. `haveRunnableBaseline`,
`haveRaw` and `EnableNoplize` are false constants in this tree, so the size-only
competition is the only path that runs; lines 3435-3905 (QEMU oracle, noplize) are dead
and not modelled. `Leftovers` are files of an earlier link that was interrupted or failed:
nothing is unlinked when the stage starts. What a packer writes inside the file is
abstracted to its size.

llvm-bolt may exit with 0 and leave an empty file or none at all. In the latter case a file
that an earlier link left as `.opt.out` is what the poll (3268) finds, and the stage goes on
with it: `stray` records this, and `Made` what the later commands make of such a file. The
properties speak of it openly: `NoPartialCandidate` and `OutputIsOriginalOrSmaller` allow a
file of another link in the candidates of the BOLT source when `stray` is set, and nowhere
else (`FromStray`). `TempsRemoved` asks for the absence of the three temporaries of fixed
name; a candidate file may still hold the remains of a copy that failed (2915).

`PostLink` sees the linked image and the output path only: undecided, then once and for
all the linked image, a whole smaller one, or a failed last copy. Its step `Stray` is the
exception that the code makes: from then on a smaller file of an earlier link may be
decided on too, and only the size is promised. `BoltAndPack` maps its
state to it (`Promise`): the output is undecided until `runBoltAndPack` returns.

### RVMachine, ConstLUIReuse, StackMemForward

`RVMachine!Run` executes a block on symbolic values (initial register contents,
numbers, addresses, terms), and records calls and accesses outside the frame in order,
so two blocks with equal results agree on every initial state. A call shows its argument
registers and the frame to the callee and loses the caller-saved registers and the link
register. JAL, C_JAL and JALR are calls: jumps and returns by them end a block. `Defs` and
`Uses` are what the instruction descriptions say (`RISCVInstrInfo.td`); in particular JAL
and JALR are not marked as calls and list no argument registers.

The two passes are one action per case of their loops over a block. Iterators are
positions; `RemoveAt` shifts what is behind, and positions are kept as the code keeps
them. Where the code then reads another instruction than it means to, so does the model
(`ReuseMemory`, `StackStore`, `forwardPendingLoads`). Opcodes of one shape are
represented by one of them (LW, LB, SW, SB for the memory sinks; LW, C_LW, LB, SW, SB for
stack accesses; BEQ for the branches). In `ConstLUIReuse` an instruction `BB` is the
boundary of two blocks joined by a single edge (`canCarryValuesToBlock`). C_JR is no barrier
for that pass: its description in `RISCVInstrInfoC.td` has none of the flags that
`isBarrier` (307-316) tests for it, and it ends a block anyway.

### BlockPasses

One behaviour is one of six passes over one function; the passes share no state but the
code. `BB` separates blocks. The scans of a pass (the run of zero bytes, the sinks behind
a LUI) are sets of positions, its loop one action per case. `SameBehaviour` compares every
contiguous range of blocks with the same range of the input, so a function may be entered
at any block. `%hi` and `%lo` are made concrete with the symbols' addresses (`Concrete`),
rounding included, when the code runs; the passes themselves see symbols and
`getSymbolValue`. After an erasure `ReplacePos` of the chain pass designates what the
vector has there; at the end of a block `nextInst` goes on over all blocks that are empty.

### CompressInst, CompressPeephole

A form is compared with its instruction through the encoding: `Expand` cuts every
immediate to its field, maps three-bit registers and yields the instruction the encoding
executes, which may be another one (C.MV with x0 is C.JR) or none. `Value` and `Effect`
give equal results to instructions that do the same. `Operands` are the operand lists of
`RISCVInstrInfoC.td`.

The pass then lays out offsets, visits every jump with those offsets, and repeats until a
round changes nothing. Alignment between blocks is not laid out, as in the code.
`FunctionsAssumption` says what BOLT hands to the pass: an instruction that the pass looks
into has the operands of its description (the code reads them by position, 67-80), a
target is a block of the same function or none, and a C.J that is there already reaches
its block, since the linked binary was disassembled from it.

### TailMerge

Blocks are numbered; `layout` is their order and `succ` the successor. Until `Finish`
calls `fixBranches`, a source that lost its return runs into whatever follows it: the
trace of a block (`Executed`) follows branches and otherwise the layout. `GroupBlocks`
groups all candidates of a length at once; the groups are merged in any order, where the
code takes the order of the keys. A tail is one more block on the way, so `TraceKept`
compares prefixes: the instructions of the next `n` blocks are executed within `n + 1`,
and nothing else is, which holds for executions that never end too. That a successor is a
block of the function is an assumption (`TailMergeAssumption`; BOLT's CFG has no others).
The functions are those whose blocks have at most one successor: the arm of `fixBranches`
for two (3255-3292), which reverses or adds a conditional branch, is left out.

### CSGORFE

Section headers are records appended to a sequence; the null header is not in it. The two
walks over the relocations (`Reserve`, `SplitRelocation`) are separate, as in the code.
A byte that lies in no function is in no new section. The code gives a relocation or symbol
there to the function in front of it, with an offset behind the end of that section:
`Names` asks for an offset inside the section, so `RelocationsKept` and `SymbolsKept` speak
of what lies in a function (`InFunction`), and of a symbol at a function's end (`EndsIn`).
`RelocationsInside` speaks of relocations whose offset lies inside `.text`: nothing
validates the others. A section index of a symbol has 16 bits, from `Reserved` (0xff00) on it
means something else, and `e_shnum` is 0 for 65536 sections: the properties are about objects
that stay below (`IndicesFit`), and `Names` only finds sections that `e_shnum` counts.
Loading, header validation and the name filter are flags of the object. `WriteObject` may
fail where the code looks at the result.

### RISCVGP, RelaxLoop

`Half` stands for 0x800. The vector of addresses, the two indices and the best window are
those of the code. `RelaxLoop` instantiates the layout from a program: one text section
with relocations, then data sections with alignments. Sizes count relaxed instructions, so
a removed LUI and a relaxed call both remove one unit; a call relaxed to C.J (six bytes)
is not told apart from JAL. An access or a call is relaxed only when an R_RISCV_RELAX
follows its relocation (`relax`), an alignment always is. TLS and TPREL relaxations,
symbols in the text, anchors and linker scripts are left out. `LoopAssumption` says what
`relaxOnce` takes for granted: relocations in order of offset (sorted at `Relocations.cpp`
1507-1514), on different instructions, and an alignment that has as many bytes of padding
as its addend says, without which the check on `remove` (`Arch/RISCV.cpp` 669) would fail
(`InOrder`, `Width`, `Padding`).

## 3. Runs

| run | result | shows |
|---|---|---|
| `elim_unused` | holds | safety and exactness of mark and sweep on all layouts of three functions (disjoint, touching, nested, chained, two sections), up to two references of each kind, one flag of each class |
| `bolt_and_pack` | holds | the properties of the output, the backup, the candidates and the temporaries under every combination of failures and four states of the directory, three of them with a file under the name of BOLT's output, and that the stage implements `PostLink`, its liveness included |
| `const_lui` | holds | true value map and same behaviour on all tame blocks of 4 over 23 instructions that materialise, move, add and lose constants and addresses and load and store through them, and on longer ones of 6 over pairs with word and byte accesses, an indirect call, a branch and block ends |
| `stack_forward` | holds | true slot and base maps, positions that stay valid and same behaviour: forwarding on all blocks of 4 over 15 instructions, a compressed call among them; both options where a slot is overwritten once and two branches follow |
| `block_passes` | holds | same behaviour from every entry, true chain and pattern state, immediates in range and an end, on functions of four or five parts for each of the six passes |
| `compress_peephole` | holds | every form executes what its instruction did, for all opcodes of the table, registers of every class and immediates at both ends of every field; reach, completeness and termination of the jump rounds on all functions of five instructions |
| `compress_tied` | violated | forms with a tied operand are built with one operand too few |
| `tail_merge` | holds | same trace from every block, a smaller function and no profitable pair left, on functions of five blocks |
| `csgorfe` | holds | what lies in a function is still named by its relocations and symbols, inside its section, for all objects over a text of six bytes; the headers fill the room reserved |
| `gp_placement` | holds | the window search is exact and never worse than the default |
| `relax_loop` | holds | when the loop converges, relaxed accesses reach from the final gp, with accesses and calls that must not be relaxed among the others; and after the first pass the result is a fixed point |
| `relax_oscillation` | violated | a program alternates between two states until it is refused |

### Bounds and why they are enough

* Elim: three functions give every overlap relation, an alias chain of length two, a
  call cycle and a referenced function outside of it; the proofs drop the bound.
* BoltAndPack: sizes 0 to 3 and a threshold of 1 give inputs on both sides of the
  threshold and candidates smaller, equal and larger than the original; `MaxTry` 2
  (10 in the code) has a first, a middle and a last poll. The proofs drop these bounds and
  hold for every set of leftovers.
* ConstLUIReuse: a page of 4 and a word of 16 keep rounding, the ends of the immediate
  range and the wrap within reach; a rewrite needs a base, a pair and a redefinition.
* StackMemForward: offsets in bytes as in the code, two word slots, byte accesses inside
  one, a second base register; store, deferred load, invalidation and overwriting fit.
* BlockPasses: a page of 8 bytes; four symbols, two that share page and `%hi`, one that
  shares only the page, one that shares only `%hi` and is out of reach of gp. Four parts
  hold a chain of three links with an instruction or a block end in between.
* CompressPeephole: real field widths for the table; a reach of 8 (2048 in the code)
  against functions of 10 to 20 bytes, so that a jump may come into reach only after two
  others, or an addition, have shrunk.
* TailMerge: four returning blocks give two groups of two, groups of three and four,
  suffixes inside one another, suffixes that are the whole block, and both temperatures; a
  fifth block jumps to one of them or to itself.
* CSGORFE: up to three functions and five symbols; tiles, gaps, overlaps, aliases; two
  relocation sections of up to three entries, sorted or not. `Reserved` 8 (0xff00 in the
  code) and `IndexRange` 9 (65536) are reached by the largest objects only, which the
  properties leave out (`IndicesFit`).
* RISCVGP: `Half` 2 gives a reach of two below and one above; four references lie before,
  inside and behind the default's reach. The proofs drop all bounds.
* RelaxLoop: up to three accesses, calls or alignments before two data sections, with and
  without `.sdata` and padding; 30 passes as in the code.

### Fairness

`ElimUnusedFuncs`, `BoltAndPack`, `BlockPasses` and `CompressPeephole` assume weak
fairness of the whole next-state relation: one thread runs the loop, and `std::system`
waits for the child, which is assumed to end. No fairness is assumed between
alternatives, so a liveness property holds whatever the children answer. The other
modules state no liveness: their loops count down, or are bounded by `MaxPass`.

### Findings

Two runs are violated, with the sentence of the source they contradict in `PROJECT.json`.

`compress_tied`: RVC forms whose result is also a source (C_ADDI, C_ADDI16SP, C_SLLI,
C_SRLI, C_SRAI, C_ANDI, C_ADD, C_SUB, C_XOR, C_OR, C_AND) list the tied operand twice in
`RISCVInstrInfoC.td`; `makeRegImm` and `makeRegReg` give it once, and the encoder takes
operands by position. `FormsExecuteSame` reads the operands the pass meant, so that the
table's ranges are checked independently of this.

`relax_oscillation`: relaxing against a moved gp shortens the text and moves the data;
when the middle of the best window then lies in the padding between two sections,
`calculateRISCVGP` returns to the default, the text grows again, and so on until pass 30.

### Known limits: inputs the passing runs leave out

What follows was met while modelling. The actions translate the code as it is, defects
included; the inputs of the passing runs stay clear of them, so these runs speak of the
other inputs only.

* Post-link stage. The clean-up unlinks the backup before the chosen candidate is copied
  (`Driver.cpp` 3417), so a copy that fails leaves no image, against the comment at 3216
  that the pre-BOLT image remains the fallback. If llvm-bolt exits with 0 and writes
  nothing while an `.opt.out` of an earlier link is there, the poll takes it for the new
  one (3268), and if it ends up smallest the output is not made of this link's image. The
  run includes this; the properties except it by name (`stray`, `FromStray`).
* ConstLUIReuse. After a memory pair was rewritten, the sink's iterator designates the
  next instruction, which is learned too early (660). A load into the register of its own
  LUI leaves the LUI's value recorded (475). A LUI whose register a JAL passes as an
  argument is erased if the register is defined again behind the call (273); JALR
  likewise. The inputs are the blocks of which `Tame` holds: it states just these
  exclusions, and it is also the hypothesis of the proofs.
* StackMemForward. JAL and JALR are not barriers (161). After an overwritten store is
  erased the next instruction is skipped, and a store that is last takes the iterator past
  the end (297). The second of two waiting loads is rewritten where it no longer is (206).
  The inputs have neither JAL nor JALR, and the stack pointer moves by constants only;
  where stores may be erased, one slot is overwritten once, two branches follow, and only
  the last of several waiting loads may be erased. The proofs of the maps and of the
  behaviour assume the former (`Tame`) and, of the latter, that no store is erased at all
  (`ErasesStore`); that of the walk only assumes `Room`.
* ReuseLUIAggressive. A stale `ReplacePos` (157-163) makes the chain pass an instruction
  without a look at it; the base register of the ADDI, the life of the LUI's register
  behind the chain and the edges between blocks are not checked; at the end of the function
  the iterator of a block that does not exist is compared.
* ReuseLUIRelative. The pattern is not forgotten when its registers are written (77).
* ReuseLUIAbsolute. Pages are compared as `Addr >> 12`, `%hi` rounds (46).
* StackPushOpt. The base register may be unaligned (28).
* GPRelax. A call's argument registers are not seen (273); a `%lo` with another addend
  than its `%hi` is relaxed by its own address.
* CompressPeephole. Alignment of blocks is not in the offsets (371).
* CSGORFE. Bytes, relocations and symbols in gaps between functions are lost (230, 266);
  section indices reach the reserved ones and are cut to 16 bits (56, 76, 312); references
  through the section symbol and an addend keep naming the first function's section; an
  error at the close of the written file is not seen (64-68), and two links of one object
  write the same file.
* Relaxation loop. If the first pass changes no delta the loop stops although gp has just
  moved, and relaxations are lost (`SettledAfterFirst` starts behind it); a LO12 with
  another addend than its HI20, or with an R_RISCV_RELAX where the HI20 has none (690), is
  relaxed on its own, and gp may then move away from it. `Paired` excludes this.

## 4. Proofs

TLAPS checks every proof, none omitted.

`ElimUnusedFuncsProofs` holds for every number of functions and every set of well-formed
binaries (`NAssumption`, `BinariesAssumption`). None of the properties is inductive: what
is cleared depends on what was marked, that on the edges, those on canonical functions.
`IInv` has one conjunct per phase: `AliasInv` (aliases point down in address order, what
is not yet visited is no alias, `canon` follows the chain), `RootInv` (what the
collectors have gathered at each phase), `MarkInv` (what left the worklist has its
targets marked) and `ClearInv` (the functions before `next` are decided by `Clears`).
`ReferencesSafe` then says that a kept function is live or could not be cleared, hence a
root; its edges are visible or it is a root that keeps its relocation edges; so the
target's canonical function is live and, being no alias, kept. `CodeSafe` adds that an
alias lies inside its outer function. `MarkingExact` is by its own induction over steps.

`BoltAndPackProofs` holds for every size, threshold, number of polls and set of leftovers
(`BoundsAssumption`, `LeftoversAssumption`). `IInv` adds to the types: while the candidates
of a source are built its input is whole (`InputInv`); a candidate lives in a file of its
source and step and has the recorded size (`CandsInv`, `BestsInv`), which is what keeps a
later copy from overwriting an earlier candidate; the selected file is whole and smaller
(`InstallInv`). `BestExists` shows that the first of the smallest exists, by cases on at
most three candidates. `PathsDistinct` shows that the files are different ones.
`ImplementsPostLink` is the refinement without its liveness: the initial states map to
`PostLink`'s, and each step returns with the linked image, a smaller one or a failed copy,
takes a file of an earlier link for BOLT's output (`Stray`), or leaves what `PostLink` sees
alone (`StepRefines`, from `IInv`). `InputInv` and the conjuncts about candidates say that
what is not whole is of the BOLT source and that `stray` is then set.

The first half of `RelaxLoopProofs` is about `RISCVGP` and holds for every reach, every list
of sections and every list of references (`GPAssumption`). The properties of the result
follow from what the window knows at each index: `Bounds` (indices in the vector),
`LeftOutOfReach` (what the left index has passed is too far from the right one),
`WindowsSeen`, `BestFits` (the best window fits the range) and `DefaultScored` (the score is
what the default covers). Two lemmas connect positions and addresses: `WindowCovered` (the
references of a window that fits are covered from its middle) and `CoveredInWindow` (what
any address covers lies in one window that fits, so no address, an integer without bound,
beats the longest). The least
and the greatest element of a set of numbers (`LeastNat`, `GreatestNat`, for the CHOOSE in
`DefaultSec`) come from well-founded induction; the proof modules that need them prove them,
as they do `IterateExists`, which says that a recursion over an interval has a solution.

`CompressPeepholeProofs` holds for every function that `FunctionsAssumption` describes and
every even reach (`ReachAssumption`). Its first half is about the table: for each row, a
form that `compressInst` accepts survives the encoding (`GoodForms`), opcode by opcode,
over all registers and all immediates that the row's tests let through. Its second half is
about the rounds. `CompressedInReach` is not inductive, because a jump is tested against
the offsets of the start of its round and not against those of now. `IInv` adds: what each
instruction came from (`Origin`); that the offsets in use are the layout of *some* earlier
function of which the present one is a shrunk copy; and, as long as nothing has changed in
a round, that they are the layout of the present one and no jump already visited fits
(`RoundInv`). `LayOutRec` gives the layout its recursion equation, and `Shrunk` functions
have no distance that is greater, which is the sentence of the code's comment.

`CSGORFEProofs` holds for every set of objects (`ObjectAssumption` is their type) and every
range of section indices. `IInv` ties the two walks over the relocations, which the code
keeps in step by writing the same condition twice: the room counted is one header per
function but the first, and one per member of `BreaksBefore`, the set of relocations in
front of the walk that change group; the headers appended are as many (`Counted`). Of the
headers it says where those of the functions are (`TextsInPlace`), that the group being
filled ends where the walk is (`Current`), that the headers of a section are disjoint
(`HeadersApart`), that what a header covers belongs to the function it names (`HeadersTrue`)
and that every relocation already walked is covered (`Covered`). `StepShape` is what one
relocation does to the headers, in the three cases of the code; each part of `Grouped` is
then a lemma of its own.

`TempsGone` of `BoltAndPackProofs` adds `TempInv` to the stage's `IInv`: until the
clean-up every whole temporary is in a file that a clean-up knows (`Held`: BOLT's two
outputs and the candidates on record), then only the selected one is left, then none.

The second half of `RelaxLoopProofs` holds for every program, reach, number of passes and
text base (`LoopAssumption`, `GPAssumption`). `LoopIInv` joins the invariant of the first
half, which holds while the loop is placing the pointer, with what the loop adds: which
steps are possible with which flags (`Control`), that sections and references are those of
the deltas and types of this pass (`InputsCurrent`), how far the search is (`Searching`),
that the pointer of the last pass is the one `calculateRISCVGP` determines for the
sections it saw (`Placed`), and, behind a pass that changed nothing, that the text was
relaxed against the pointer that is chosen again (`Settled`). For the latter,
`PlacedUnique` is needed: the sorted vector and the first longest window are functions of
the references. `SettledAfterFirst` then says the last text is a fixed point, and
`AccessesReach` that each access made relative to gp reaches. `Paired` (each LO12 that may
be relaxed has a HI20 of its symbol and addend that may be, too) is a hypothesis of it
because the code relaxes a LO12 by its own address and its own R_RISCV_RELAX, whatever was
decided for the HI20. After a first pass that changes no delta no access was relaxed
(`NothingRelaxed`), so nothing is left to reach.

`TailMergeProofs` holds for every set of functions whose blocks have at most one
successor, all sizes and every limit (`TailMergeAssumption`). `IInv` says that unused
blocks are as they were (`UnusedKept`) and have the next block they had (`NextKept`): a
tail is inserted behind one of its sources only (`BehindSource`), and `MergedLayout`
follows every position of the layout through the insertion. What a source lost is in its
tail, which returns, and what it kept does not (`SourcesMoved`, `Tails`); the groups of a
length are disjoint, unused and alike (`GroupsInv`); a pair that is left was looked at
with every longer ending (`Search`). `ExecutedRec` gives the execution its recursion
equation, from `IterateExists`; `TraceSafe` is an induction on the number of blocks
executed (a least counterexample), with `AfterFixed` for where a block goes after
`fixBranches`. `MergesPay` says that the pass never makes the function larger, whatever
the sizes of its instructions (`TailMergeAssumption` only asks that they are numbers). Its
invariant `Shrunk` compares the size of the code as `fixBranches` will leave it with that
of the input, not the size the code has between two merges. `BytesIs` and `CodeSizeIs`
turn the folds of the model into sums with a recursion equation (`Total`, by an induction
over finite sets that is proved there), and `MergeShrinks` shows that a merge whose gain
the code computed as positive takes off the sum what the sources lose and adds the tail
and the jumps, no more.

`ConstLUIReuseProofs` holds for every page and word size, every set of registers and every
block of which `Tame` holds, with every opcode of the model in it: word and byte accesses,
branches, calls by JAL, C_JAL and JALR. `Tame` is not an invariant of the code but the
border of its known defects (section 3): no instruction that is learned follows the load
or store of a pair; a register that such a load writes has no known value; no call reads
what a LUI left. Dropping any of these, TLC finds a block in which the map is false or
that computes something else. `IInv` says that from the iterator on the code is the input,
shifted by what was erased (`RestKept`); that each recorded value was made behind the last
call (`Recorded`); that it is the value the register has when the code reaches the
iterator; and that code and input end in the same state. `RunRec` gives `RVMachine`'s
`Run` its recursion equation by a least counterexample. `StepAlike` and `AlikeAlong`
follow two states that differ in one register until it is written (`Rejoin`), which is
what `canDeleteLUI` looks for; `ModShift`, `AddAbs` and `DiffReaches` are the arithmetic
of words: a difference within the immediate's range, added modulo the word, gives the
target from any recorded base. Each rewrite is then a lemma (`ReuseLUIStep`,
`ReuseMaterializedStep`, `ReuseMemoryStep`).

`StackMemForwardProofs` holds for every set of registers and callees that keep the stack
pointer (`StackAssumption`), both options and every block of which `Tame` holds (no JAL or
JALR, which the pass does not see as calls; the stack pointer is moved by constants), as
long as no overwritten store is erased: always without that option, with it up to the
first erasure. What comes behind one is left out because it is not true there: the code
skips an instruction it has not looked at, and positions it noted designate others
(section 3). `IInv` says that the rest of the block is the input's and that code and input
are in the same state where the iterator is. Of that state, `Tracks` says that the stack
pointer is an address in the frame, that every base is the stack pointer plus its offset,
and that every slot whose source is available holds, byte by byte, what the source
register holds (`Holds`). A forwarded load reads what the source register holds
(`HoldsLoad`, `ForwardIs`), so the move in its place, or nothing where the register is the
source, gives the same state (`MoveLoadStep`, `EraseLoadStep`), and the rest of the block
follows (`Follow`, a least counterexample). A store changes the bytes of its slot and
drops the slots it overlaps (`StoreTracks`); a register that is written loses its slots
and its base (`SetTracks`); a barrier, an access through another register or a new stack
pointer forgets everything (`ForgetTracks`). A move is written as the addition of zero, so
every value in a state must be one that this leaves alone (`Neutral`); `StepSound` shows
that each instruction keeps it so.

`WalkSafe` needs none of this and holds for any block (`AnyBlock`), JAL and JALR included,
with stores erased and waiting loads forwarded. It says that the iterator, which an erasure
displaces, and the positions noted for stores and loads stay in the block. It assumes `Room`
of every step: behind a store that is erased there are as many instructions as the step
erases. Where the store is last in its block the iterator does pass the end (297), so some
such hypothesis is needed; the run has no state where `Room` is false. Its invariant `WInv`
says that the positions noted are of instructions passed (`Passed`), a waiting load behind
its store, which the erasures keep.

| theorem | property |
|---|---|
| `ElimUnusedFuncsProofs!TypeCorrect`, `CanonicalEnds`, `ReferencesSafe`, `CodeSafe`, `OutsideSafe`, `MarkingExact` | `TypeOK`, `CanonicalIsOuter`, `NoDanglingReference`, `CodeStaysCovered`, `OutsideReferencesKept`, `LiveIsLeast` |
| `BoltAndPackProofs!TypeCorrect`, `OutputSafe`, `BackupSafe`, `SizesCurrent`, `CandidatesWhole`, `TempsGone` | `TypeOK`, `OutputIsOriginalOrSmaller`, `BackupKept`, `CandidatesCurrent`, `NoPartialCandidate`, `TempsRemoved` |
| `BoltAndPackProofs!ImplementsPostLink` | the safety part of `KeepsPromise` |
| `RelaxLoopProofs!TypeCorrect`, `IndicesCorrect`, `WindowsCorrect`, `PlacementNoWorse`, `PlacementBest` | `TypeOK`, `IndicesInRange`, `WindowsSeen`, `NoWorseThanDefault`, `MovedIsBest` |
| `CompressPeepholeProofs!IInvHolds`, `JumpsReach`, `NoneLeft`, `FormsRight` | `CompressedInReach`, `NoFurtherFits`, `FormsExecuteSame` |
| `CSGORFEProofs!IInvHolds`, `HeadersFit`, `SymbolsSafe`, `FunctionsSafe`, `RelocationsSafe`, `TiledTextSafe` | `HeadersFitBuffer`, `SymbolsKept`, `FunctionsWhole`, `RelocationsKept`, `TiledTextKept` |
| `RelaxLoopProofs!LoopInductive`, `LoopSettles`, `AccessesReach` | `SettledAfterFirst`, `GprelInReach` |
| `TailMergeProofs!IInvHolds`, `TraceSafe`, `NoPairLeft`, `MergesPay` | `TraceKept`, `NothingLeft`, `MergingPays` |
| `ConstLUIReuseProofs!IInvHolds`, `MapTrue`, `BlockSafe` | `KnownValuesTrue`, `SameBehaviour` |
| `StackMemForwardProofs!IInvHolds`, `WalkSafe`, `MapsSafe`, `BlockSafe` | `WalkInBlock`, `MapsTrue`, `SameBehaviour` |

The type invariants of `BoltAndPack` and `RISCVGP` are proved and not checked by a run of
their own.

Only model-checked: liveness under fairness (`Terminates`, `PassEnds`, the liveness of
`KeepsPromise`), which the prover cannot do; `FormsComplete` and `RelaxationConverges`,
which the code violates; `StackMemForward` once a store was erased; and all of
`BlockPasses`. Each of its six passes is sound only for inputs that keep clear of its own
known limits (section 3), so `SameBehaviour` and `RememberedTrue` would need a hypothesis
and an invariant per pass.

## 5. Plan

1. Proofs about `BlockPasses`: `ImmediatesFit`, then pass by pass, those that look at one
   place only (`MemorySSA`, `StackPushOpt`) first.
2. `StackMemForward` with erased stores, for blocks in which an erasure is followed by an
   instruction that may be skipped.
3. `RelaxLoop` with symbols in the text and compressed jumps; `CompressPeephole` with
   aligned blocks.

## 6. Not modelled

* The QEMU oracle and noplize branches of `runBoltAndPack` (3435-3905): dead in this tree.
* What the packers write (`RISCVLZ4Packer.cpp`, `llvm/utils/packer`): ELF layout, stubs and
  compression are file formats; only success and size reach the linker.
* `RISCVAnalyze` prints; `FixRISCVCalls` and `RISCVMCPlusBuilder` work on one instruction
  without state; `RISCVCallSequenceOutliner` is not registered; `RISCVGVN` and
  `RISCVSimplifyCFG` are empty.
* The pass pipeline: a fixed list run in order, with no state between passes but the code.
* Stock clang, llvm, lld, bolt and libunwind.
