---------------------------- MODULE BoltAndPack ----------------------------
(***************************************************************************)
(* The post-link stage of the linker driver (lld/ELF/Driver.cpp,           *)
(* runBoltAndPack): the linked image is backed up, normalised, run through *)
(* BOLT, and the BOLT and pre-BOLT images, plain and packed, compete on    *)
(* size for the output path.  Every step is a file operation or a child    *)
(* process that may fail, so the state is the files themselves.            *)
(*                                                                         *)
(* The oracles of runBoltAndPack are compile-time false in this tree, so   *)
(* the modelled control flow is the one of the size-only competition.      *)
(***************************************************************************)
EXTENDS Integers, Sequences, FiniteSets

CONSTANTS MaxSize,        \* largest file size
          PackThreshold,  \* 50000: smaller inputs are not packed
          MaxTry,         \* 10: polls of waitForFile
          Leftovers       \* files an earlier link of this output may have left

ASSUME BoundsAssumption ==
    /\ MaxSize \in Nat \ {0}
    /\ PackThreshold \in Nat
    /\ MaxTry \in Nat \ {0}

Source == {"bolt", "prebolt"}
Packer == {"legacy", "lz4"}

\* A file holds a whole image, the remains of a failed write, or a whole image
\* of an earlier link.
Complete == {"linked", "normalized", "bolt", "aligned", "packed"}
Foreign == {"partial", "stale"}
Image == Complete \cup Foreign
File == [image : Image, size : 0 .. MaxSize]
Absent == [image |-> "absent", size |-> -1]

\* Seeded fault: the packed candidates of both sources share a name.
CandPathShared(s, p) == <<"cand", "bolt", p>>

\* objPath.cand.no-oracle-<source>.<packer>.tmp
CandPath(s, p) == <<"cand", s, p>>

Obj == <<"obj">>
Backup == <<"prebolt">>                  \* objPath.prebolt
Normalized == <<"normalized">>
Raw == <<"opt.out">>                     \* rawOnce
Aligned == <<"aligned">>                 \* alignedOnce
Temps == {Normalized, Raw, Aligned}
         \cup {<<"cand", s, p>> : s \in Source, p \in Packer}
Path == {Obj, Backup} \cup Temps

\* An earlier link was interrupted anywhere, or failed: no file is unlinked
\* when the stage starts.
ASSUME LeftoversAssumption ==
    Leftovers \subseteq [Path \ {Obj} ->
        {Absent} \cup [image : Foreign, size : 0 .. MaxSize]]

Input(s) == IF s = "bolt" THEN Aligned ELSE Backup

VARIABLES fs,       \* the files
          pc,       \* step of runBoltAndPack
          src,      \* source whose candidates are being built
          tries,    \* polls of waitForFile
          cands,    \* candidates of selectBestPayloadCandidate
          bests,    \* candidates of runBoltAndPack: the best of each source
          selected, \* path being installed
          linked,   \* the image the linker wrote, for the properties
          stray     \* an older file was taken for BOLT's output, for the properties

vars == <<fs, pc, src, tries, cands, bests, selected, linked, stray>>

NoPath == <<>>

Write(p, f) == [fs EXCEPT ![p] = f]
Unlink(ps) == [p \in Path |-> IF p \in ps THEN Absent ELSE fs[p]]

\* What a command that fails may leave at its destination.
Damaged(p) == {fs[p]} \cup [image : {"partial"}, size : 0 .. MaxSize]

fileSizeOf(p) == fs[p].size

Init ==
    /\ linked \in [image : {"linked"}, size : 1 .. MaxSize]
    /\ \E left \in Leftovers :
          fs = [p \in Path |-> IF p = Obj THEN linked ELSE left[p]]
    /\ pc = "backup" /\ src = "bolt" /\ tries = 0
    /\ cands = <<>> /\ bests = <<>> /\ selected = NoPath /\ stray = FALSE

\* cp objPath objPath.prebolt; without a backup nothing is touched.
SaveBackup ==
    /\ pc = "backup"
    /\ \/ fs' = Write(Backup, fs[Obj]) /\ pc' = "normalize"
       \/ \E f \in Damaged(Backup) : fs' = Write(Backup, f) /\ pc' = "noBackup"
    /\ UNCHANGED <<src, tries, cands, bests, selected, linked, stray>>

\* objcopy into a temporary and rename it over objPath; the failure path
\* unlinks the temporary.  The copy just made is not empty, so the stat that
\* follows succeeds.
Normalize ==
    /\ pc = "normalize"
    /\ \/ \E n \in 1 .. linked.size :
             /\ fs' = [Unlink({Normalized}) EXCEPT ![Obj] =
                           [image |-> "normalized", size |-> n]]
             /\ pc' = "bolt"
       \/ fs' = Unlink({Normalized}) /\ pc' = "notNormalized"
    /\ UNCHANGED <<src, tries, cands, bests, selected, linked, stray>>

\* The llvm-bolt command of boltOnce.  It may exit with 0 and leave an empty
\* file or, in LinuxKernelMode, write none: what an earlier link left under the
\* name of the output then stands there for the poll.
RunBolt ==
    /\ pc = "bolt"
    /\ \/ \E n \in 0 .. MaxSize :
             /\ fs' = Write(Raw, [image |-> "bolt", size |-> n])
             /\ pc' = "wait" /\ stray' = FALSE
       \/ fs' = fs /\ pc' = "wait" /\ stray' = (fileSizeOf(Raw) > 0)
       \/ \E f \in Damaged(Raw) :
             fs' = Write(Raw, f) /\ pc' = "restoreBolt" /\ stray' = FALSE
    /\ tries' = 0
    /\ UNCHANGED <<src, cands, bests, selected, linked>>

\* Seeded fault: the poll loop has no limit.
WaitForFileForever ==
    /\ pc = "wait"
    /\ pc' = IF fileSizeOf(Raw) > 0 THEN "align" ELSE "wait"
    /\ UNCHANGED <<fs, src, tries, cands, bests, selected, linked, stray>>

WaitForFile ==
    /\ pc = "wait"
    /\ \/ fileSizeOf(Raw) > 0 /\ pc' = "align" /\ tries' = tries
       \/ fileSizeOf(Raw) <= 0 /\ tries < MaxTry
          /\ tries' = tries + 1 /\ pc' = "wait"
       \/ fileSizeOf(Raw) <= 0 /\ tries = MaxTry
          /\ pc' = "restoreBolt" /\ tries' = tries
    /\ UNCHANGED <<fs, src, cands, bests, selected, linked, stray>>

\* What a command makes of its input: a whole image of a whole one, and of what
\* an earlier link left no image of this link.
Made(image, from) == IF fs[from].image \in Foreign THEN fs[from].image ELSE image

\* The align-only objcopy of boltOnce.
AlignOnly ==
    /\ pc = "align"
    /\ \/ \E n \in 1 .. MaxSize :
             /\ fs' = Write(Aligned, [image |-> Made("aligned", Raw), size |-> n])
             /\ pc' = "plain"
       \/ \E f \in Damaged(Aligned) :
             fs' = Write(Aligned, f) /\ pc' = "restoreBolt"
    /\ UNCHANGED <<src, tries, cands, bests, selected, linked, stray>>

-----------------------------------------------------------------------------
(***************************************************************************)
(* selectBestPayloadCandidate(Input(src), requireChecksum = false).        *)
(***************************************************************************)

\* addVerifiedPayloadCandidate without a checksum: any non-empty file.
AddCandidate(cs, p, f) ==
    IF f.size > 0 THEN Append(cs, [path |-> p, size |-> f.size]) ELSE cs

AddPlain ==
    /\ pc = "plain"
    /\ cands' = AddCandidate(<<>>, Input(src), fs[Input(src)])
    /\ pc' = "legacy"
    /\ UNCHANGED <<fs, src, tries, bests, selected, linked, stray>>

After(p) == IF p = "legacy" THEN "lz4" ELSE "select"

\* Seeded fault: the packer's result is ignored.
RejectedKept(p, f) ==
    /\ fs' = Write(CandPath(src, p), f)
    /\ cands' = AddCandidate(cands, CandPath(src, p), f)

\* The packer failed half way: the file is unlinked and never a candidate.
Rejected(p, f) ==
    /\ fs' = Unlink({CandPath(src, p)})
    /\ cands' = cands

\* Copy the input, pack the copy in place (packWithLegacyPacker compiles over
\* it, packWithLZ4 renames over it), keep it when both succeed.
Pack(p) ==
    /\ pc = p
    /\ \/ fileSizeOf(Input(src)) <= PackThreshold /\ UNCHANGED <<fs, cands>>
       \/ /\ fileSizeOf(Input(src)) > PackThreshold
          /\ \/ \E f \in Damaged(CandPath(src, p)) :         \* cp failed
                   fs' = Write(CandPath(src, p), f) /\ cands' = cands
             \/ \E f \in [image : {"partial"}, size : 0 .. MaxSize] :
                   Rejected(p, f)                            \* packer failed
             \/ \E n \in 0 .. MaxSize :
                   LET f == [image |-> Made("packed", Input(src)), size |-> n]
                   IN  /\ fs' = IF n > 0 THEN Write(CandPath(src, p), f)
                                ELSE Unlink({CandPath(src, p)})
                       /\ cands' = AddCandidate(cands, CandPath(src, p), f)
    /\ pc' = After(p)
    /\ UNCHANGED <<src, tries, bests, selected, linked, stray>>

PackLegacy == Pack("legacy")
PackLZ4 == Pack("lz4")

\* std::min_element: the first of the smallest.
Best(cs) ==
    CHOOSE i \in DOMAIN cs :
        \A j \in DOMAIN cs : \/ cs[i].size < cs[j].size
                             \/ cs[i].size = cs[j].size /\ i <= j

PathsOf(cs) == {cs[i].path : i \in DOMAIN cs}

\* Seeded fault: the losers' clean-up forgets that the input is still needed.
LosersWithInput(cs) == PathsOf(cs) \ {cs[Best(cs)].path}

\* The candidates selectBestPayloadCandidate unlinks.
Losers(cs) == PathsOf(cs) \ {cs[Best(cs)].path, Input(src)}

\* The end of selectBestPayloadCandidate and of addSizeCandidates; the pre-BOLT
\* image follows the BOLT image.
Select ==
    /\ pc = "select"
    /\ \/ cands = <<>> /\ UNCHANGED <<fs, bests>>
       \/ /\ cands # <<>>
          /\ fs' = Unlink(Losers(cands))
          /\ bests' = Append(bests, [path |-> cands[Best(cands)].path,
                                     size |-> fileSizeOf(cands[Best(cands)].path)])
    /\ src' = "prebolt"
    /\ pc' = IF src = "bolt" THEN "plain" ELSE "decide"
    /\ cands' = <<>>
    /\ UNCHANGED <<tries, selected, linked, stray>>

-----------------------------------------------------------------------------
\* Seeded fault: a candidate as large as the original passes the guard.
SizeGuardLoose ==
    \/ bests = <<>> \/ fileSizeOf(Backup) <= 0
    \/ bests[Best(bests)].size <= 0
    \/ bests[Best(bests)].size > fileSizeOf(Backup)

\* The condition that keeps the pre-BOLT image.
SizeGuard ==
    \/ bests = <<>> \/ fileSizeOf(Backup) <= 0
    \/ bests[Best(bests)].size <= 0
    \/ bests[Best(bests)].size >= fileSizeOf(Backup)

KeepPreBolt ==
    /\ pc = "decide" /\ SizeGuard
    /\ fs' = Unlink((PathsOf(bests) \ {Backup}) \cup {Raw, Aligned})
    /\ pc' = "restoreGuard"
    /\ UNCHANGED <<src, tries, cands, bests, selected, linked, stray>>

\* Seeded fault: BOLT's raw output is forgotten by the clean-up.
CleanupWithoutRaw(p) == (PathsOf(bests) \cup {Aligned}) \ {p}

\* The unlinks before the installation of p: every other candidate, the
\* backup included when it is the plain pre-BOLT candidate.
Cleanup(p) == (PathsOf(bests) \cup {Raw, Aligned}) \ {p}

ChooseSmallest ==
    /\ pc = "decide" /\ ~SizeGuard
    /\ selected' = bests[Best(bests)].path
    /\ fs' = Unlink(Cleanup(bests[Best(bests)].path))
    /\ pc' = "install"
    /\ UNCHANGED <<src, tries, cands, bests, linked, stray>>

\* copyFileForCandidate(selected, objPath), then the selected file goes.
Install ==
    /\ pc = "install"
    /\ \/ /\ fs[selected] # Absent
          /\ fs' = [Unlink({selected} \ {Backup}) EXCEPT ![Obj] = fs[selected]]
          /\ pc' = "installed"
       \/ \E f \in Damaged(Obj) :
             /\ fs' = [Unlink({selected} \ {Backup}) EXCEPT ![Obj] = f]
             /\ pc' = "installFailed"
    /\ UNCHANGED <<src, tries, cands, bests, selected, linked, stray>>

\* copyFileForCandidate(preboltBackup, objPath) after a failed BOLT run or the
\* size guard; a failure is only reported.
Restore ==
    /\ pc \in {"restoreBolt", "restoreGuard"}
    /\ \/ /\ fs[Backup] # Absent
          /\ fs' = Write(Obj, fs[Backup])
          /\ pc' = IF pc = "restoreBolt" THEN "boltFailed" ELSE "kept"
       \/ \E f \in Damaged(Obj) :
             fs' = Write(Obj, f) /\ pc' = "restoreFailed"
    /\ UNCHANGED <<src, tries, cands, bests, selected, linked, stray>>

Returned == {"noBackup", "notNormalized", "boltFailed", "kept", "installed",
             "installFailed", "restoreFailed"}

Done == pc \in Returned /\ UNCHANGED vars

Next == \/ SaveBackup \/ Normalize \/ RunBolt \/ WaitForFile \/ AlignOnly
        \/ AddPlain \/ PackLegacy \/ PackLZ4 \/ Select
        \/ KeepPreBolt \/ ChooseSmallest \/ Install \/ Restore \/ Done

\* The linker runs the stage to its end and waits for every child process.
Spec == Init /\ [][Next]_vars /\ WF_vars(Next)
-----------------------------------------------------------------------------
Candidate == [path : Path, size : 1 .. MaxSize]

TypeOK ==
    /\ fs \in [Path -> File \cup {Absent}]
    /\ pc \in Returned \cup {"backup", "normalize", "bolt", "wait", "align",
                            "plain", "legacy", "lz4", "select", "decide",
                            "install", "restoreBolt", "restoreGuard"}
    /\ src \in Source /\ tries \in 0 .. MaxTry
    /\ cands \in Seq(Candidate) /\ Len(cands) <= 3
    /\ bests \in Seq(Candidate) /\ Len(bests) <= 2
    /\ selected \in Path \cup {NoPath}
    /\ linked \in File /\ stray \in BOOLEAN

(***************************************************************************)
(* What the linker leaves behind on every path whose last copy works: the  *)
(* image it wrote, byte for byte, or a candidate that is strictly smaller  *)
(* ([SIZE-GUARD]) and whole.  Only where the poll took an older file for   *)
(* BOLT's output may the candidate be made of that file.                   *)
(***************************************************************************)
OutputIsOriginalOrSmaller ==
    /\ pc \in {"noBackup", "notNormalized", "boltFailed", "kept"} =>
          fs[Obj] = linked
    /\ pc = "installed" => /\ fs[Obj].image \in Complete \/ stray
                           /\ fs[Obj].size < linked.size

(***************************************************************************)
(* From the moment the backup is written until a candidate is chosen, and  *)
(* after every path that restores it, objPath.prebolt is the linked image: *)
(* no clean-up of candidates removes it, although it is the input of some. *)
(***************************************************************************)
BackupKept ==
    pc \notin {"backup", "noBackup", "install", "installed", "installFailed"} =>
        fs[Backup] = linked

(***************************************************************************)
(* The sizes that compete are the sizes of the files that would be         *)
(* installed: no candidate is overwritten or removed by the building of a  *)
(* later one.                                                              *)
(***************************************************************************)
CandidatesCurrent ==
    /\ \A i \in DOMAIN cands : fileSizeOf(cands[i].path) = cands[i].size
    /\ pc \in {"plain", "legacy", "lz4", "select", "decide"} =>
          \A i \in DOMAIN bests : fileSizeOf(bests[i].path) = bests[i].size

\* A candidate of the BOLT source when the poll took an older file for BOLT's
\* output.
FromStray(p) == stray /\ p \in {Aligned} \cup {CandPath("bolt", q) : q \in Packer}

(***************************************************************************)
(* The remains of a failed packer or copy never compete, nor does a file   *)
(* of an earlier link, although the packers work in place and no leftover  *)
(* is unlinked first: every candidate is a whole image of this link.  The  *)
(* one way in is the poll for BOLT's output, and what enters there is      *)
(* confined to the BOLT source: the pre-BOLT candidates are whole even so. *)
(***************************************************************************)
NoPartialCandidate ==
    /\ \A i \in DOMAIN cands : \/ fs[cands[i].path].image \in Complete
                               \/ FromStray(cands[i].path)
    /\ pc = "install" => fs[selected].image \in Complete \/ FromStray(selected)

(***************************************************************************)
(* Once the competition was decided the three files of fixed name are      *)
(* gone, whoever wrote them, and no candidate file holds a complete image  *)
(* of this link.  Where the copy that should become a packed candidate     *)
(* fails, its remains stay.                                                *)
(***************************************************************************)
TempsRemoved ==
    pc \in {"kept", "installed", "installFailed"} =>
        /\ \A t \in {Normalized, Raw, Aligned} : fs[t] = Absent
        /\ \A t \in Temps : fs[t].image \notin Complete

Promise == INSTANCE PostLink WITH
    Linked <- [image : {"linked"}, size : 1 .. MaxSize],
    Whole <- Complete,
    output <- IF pc \notin Returned THEN [image |-> "undecided", size |-> -1]
              ELSE IF pc \in {"installFailed", "restoreFailed"}
              THEN [image |-> "failed", size |-> -1]
              ELSE fs[Obj]

(***************************************************************************)
(* The stage implements its promise, files left by an earlier link or not; *)
(* the promise's step Stray is the poll that takes such a file.            *)
(***************************************************************************)
KeepsPromise == Promise!Spec

=============================================================================
