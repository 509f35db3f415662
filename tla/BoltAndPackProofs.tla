------------------------- MODULE BoltAndPackProofs -------------------------
(***************************************************************************)
(* Proofs about the post-link stage for every file size, pack threshold    *)
(* and number of polls.                                                    *)
(***************************************************************************)
EXTENDS BoltAndPack, SequenceTheorems, TLAPS

Build == {"plain", "legacy", "lz4", "select"}
PCs == Returned \cup Build \cup
       {"backup", "normalize", "bolt", "wait", "align", "decide", "install",
        "restoreBolt", "restoreGuard"}

\* The files a source's candidates live in.
Own(s) == {Input(s), CandPath(s, "legacy"), CandPath(s, "lz4")}

\* Those that may be candidates at a step of building.
Built(s, p) == IF p = "legacy" THEN {Input(s)}
               ELSE IF p = "lz4" THEN {Input(s), CandPath(s, "legacy")} ELSE Own(s)

\* The files of the BOLT source, which may be of an earlier link when s holds.
StrayPath == {Aligned} \cup {CandPath("bolt", q) : q \in Packer}
Sound(f, s, p) == f[p].image \in Complete \/ (s /\ p \in StrayPath /\ f[p].image \in Foreign)

\* A candidate whose file is sound and has the recorded size.
Good(f, s, c) == Sound(f, s, c.path) /\ f[c.path].size = c.size

MaxCands == IF pc = "legacy" THEN 1 ELSE IF pc = "lz4" THEN 2
            ELSE IF pc = "select" THEN 3 ELSE 0

Types ==
    /\ fs \in [Path -> File \cup {Absent}]
    /\ pc \in PCs /\ src \in Source /\ tries \in 0 .. MaxTry
    /\ cands \in Seq(Candidate) /\ Len(cands) <= MaxCands
    /\ bests \in Seq(Candidate) /\ Len(bests) <= 2
    /\ selected \in Path \cup {NoPath}
    /\ linked \in [image : {"linked"}, size : 1 .. MaxSize]
    /\ stray \in BOOLEAN

ObjInv == pc \in {"backup", "normalize", "noBackup", "notNormalized",
                  "boltFailed", "kept"} => fs[Obj] = linked

\* What the poll accepts is not empty, and BOLT's own unless it is a stray file.
RawSound == fs[Raw].image \in Complete \/ (stray /\ fs[Raw].image \in Foreign)

RawInv ==
    /\ pc \in {"backup", "normalize", "bolt"} => fs[Raw].image \in {"absent"} \cup Foreign
    /\ pc \in {"wait", "align"} /\ fs[Raw].size > 0 => RawSound
    /\ pc = "align" => fs[Raw].size > 0

\* While a source's candidates are built its input is sound and not empty.
InputInv == pc \in Build => /\ Sound(fs, stray, Input(src))
                            /\ fs[Input(src)].size \in 1 .. MaxSize

CandsInv == \A i \in DOMAIN cands : /\ cands[i].path \in Built(src, pc)
                                    /\ Good(fs, stray, cands[i])

BestsInv ==
    /\ pc \in Build =>
          /\ \A i \in DOMAIN bests : bests[i].path \in Own("bolt")
          /\ Len(bests) <= IF src = "bolt" THEN 0 ELSE 1
    /\ pc \in Build \cup {"decide"} => \A i \in DOMAIN bests : Good(fs, stray, bests[i])

InstallInv ==
    /\ pc = "install" => /\ selected \in Path
                         /\ Sound(fs, stray, selected)
                         /\ fs[selected].size > 0
                         /\ fs[selected].size < linked.size
    /\ pc = "installed" => /\ \/ fs[Obj].image \in Complete
                              \/ stray /\ fs[Obj].image \in Foreign
                           /\ fs[Obj].size > 0
                           /\ fs[Obj].size < linked.size

\* Nothing precedes the building of candidates.
EarlyInv == /\ pc \in {"backup", "normalize", "bolt", "wait", "align"} =>
                   src = "bolt" /\ bests = <<>>
            /\ pc \in {"backup", "normalize", "bolt"} => ~stray

IInv == /\ Types /\ ObjInv /\ BackupKept /\ InputInv /\ CandsInv /\ BestsInv
        /\ InstallInv /\ EarlyInv /\ RawInv
-----------------------------------------------------------------------------
(***************************************************************************)
(* The files runBoltAndPack names are different files.                     *)
(***************************************************************************)
LEMMA PathsDistinct ==
    /\ \A s \in Source : Input(s) \in Path /\ Own(s) \subseteq Path
    /\ Obj \in Path /\ Backup \in Path /\ Raw \in Path /\ Aligned \in Path
    /\ Normalized \in Path /\ Obj # Backup /\ Raw # Backup /\ Raw # Obj
    /\ Aligned # Backup /\ Aligned # Obj /\ Aligned # Raw
    /\ Normalized # Obj /\ Normalized # Backup /\ Normalized # Raw
    /\ Normalized # Aligned
    /\ Input("bolt") = Aligned /\ Input("prebolt") = Backup
    /\ \A s \in Source, p \in Packer :
          /\ CandPath(s, p) \in Path
          /\ CandPath(s, p) \notin {Obj, Backup, Raw, Aligned, Normalized}
    /\ \A s \in Source : CandPath(s, "legacy") # CandPath(s, "lz4")
    /\ \A p, q \in Packer : CandPath("bolt", p) # CandPath("prebolt", q)
    /\ NoPath \notin Path
BY DEF Input, Own, Path, Temps, Obj, Backup, Raw, Aligned, Normalized, CandPath,
       Source, Packer, NoPath

(***************************************************************************)
(* std::min_element over at most three candidates returns one of them.     *)
(***************************************************************************)
LEMMA BestExists ==
    ASSUME NEW cs \in Seq(Candidate), cs # <<>>, Len(cs) <= 3
    PROVE  Best(cs) \in DOMAIN cs
<1> DEFINE Min(i) == \A j \in DOMAIN cs :
                        \/ cs[i].size < cs[j].size
                        \/ cs[i].size = cs[j].size /\ i <= j
<1>1. Len(cs) \in {1, 2, 3} /\ DOMAIN cs = 1 .. Len(cs)
  <2>1. Len(cs) \in Nat /\ DOMAIN cs = 1 .. Len(cs)
    OBVIOUS
  <2>2. Len(cs) # 0
    BY EmptySeq
  <2> QED BY <2>1, <2>2
<1>2. \A i \in DOMAIN cs : cs[i].size \in Int
  <2>1. \A i \in DOMAIN cs : cs[i] \in Candidate
    OBVIOUS
  <2> QED BY <2>1, BoundsAssumption DEF Candidate
<1>3. CASE Len(cs) = 1
  <2>1. DOMAIN cs = {1}
    BY <1>1, <1>3
  <2>2. Min(1)
    BY <2>1, <1>2
  <2> QED BY <2>1, <2>2 DEF Best
<1>4. CASE Len(cs) = 2
  <2>1. DOMAIN cs = {1, 2}
    BY <1>1, <1>4
  <2>2. Min(1) \/ Min(2)
    BY <2>1, <1>2
  <2> QED BY <2>1, <2>2 DEF Best
<1>5. CASE Len(cs) = 3
  <2>1. DOMAIN cs = {1, 2, 3}
    BY <1>1, <1>5
  <2>2. Min(1) \/ Min(2) \/ Min(3)
    BY <2>1, <1>2
  <2> QED BY <2>1, <2>2 DEF Best
<1> QED BY <1>1, <1>3, <1>4, <1>5

(***************************************************************************)
(* What a command makes of a whole file is whole; what it makes of a file  *)
(* of an earlier link is of that link.                                     *)
(***************************************************************************)
LEMMA MadeKinds ==
    ASSUME NEW image \in Complete, NEW q
    PROVE  /\ Made(image, q) \in Image
           /\ fs[q].image \in Complete => Made(image, q) = image
           /\ fs[q].image \in Foreign => Made(image, q) \in Foreign
           /\ Made(image, q) \in Complete \/ fs[q].image \in Foreign
<1>1. \A k \in Complete : k \notin Foreign
  BY DEF Complete, Foreign
<1> QED BY <1>1 DEF Made, Image
-----------------------------------------------------------------------------
LEMMA InitIInv == Init => IInv
<1> SUFFICES ASSUME Init PROVE IInv
  OBVIOUS
<1>1. linked \in File
  BY DEF Init, File, Image, Complete
<1>2. /\ fs \in [Path -> File \cup {Absent}] /\ fs[Obj] = linked
      /\ fs[Raw].image \in {"absent"} \cup Foreign
  <2>1. PICK left \in Leftovers :
           fs = [p \in Path |-> IF p = Obj THEN linked ELSE left[p]]
    BY DEF Init
  <2>2. \A p \in Path \ {Obj} : left[p] \in File \cup {Absent}
    BY LeftoversAssumption DEF File, Image, Complete
  <2>3. left[Raw].image \in {"absent"} \cup Foreign
    <3>1. left[Raw] \in {Absent} \cup [image : Foreign, size : 0 .. MaxSize]
      BY LeftoversAssumption, PathsDistinct
    <3> QED BY <3>1 DEF Absent
  <2> QED BY <1>1, <2>1, <2>2, <2>3, PathsDistinct
<1>3. <<>> \in Seq(Candidate) /\ Len(<<>>) = 0 /\ DOMAIN <<>> = {}
  OBVIOUS
<1>4. Types
  <2>1. stray \in BOOLEAN
    BY DEF Init
  <2>2. pc = "backup" /\ linked \in [image : {"linked"}, size : 1 .. MaxSize]
    BY DEF Init
  <2> QED BY <1>2, <1>3, <2>1, <2>2, BoundsAssumption DEF Types, Init, PCs, Source,
             MaxCands, Build
<1>5. ObjInv /\ BackupKept /\ InputInv /\ CandsInv /\ BestsInv
  BY <1>2, <1>3 DEF Init, ObjInv, BackupKept, InputInv, CandsInv, BestsInv, Build
<1>6. InstallInv /\ EarlyInv /\ RawInv
  BY <1>2 DEF Init, InstallInv, EarlyInv, RawInv, RawSound
<1> QED BY <1>4, <1>5, <1>6 DEF IInv

(***************************************************************************)
(* The steps before any candidate exists: they only have to leave the      *)
(* backup alone once it is written, and the output until normalisation.    *)
(***************************************************************************)
LEMMA FilesTyped ==
    ASSUME Types, NEW q \in Path, NEW f \in File \cup {Absent}
    PROVE  /\ Write(q, f) \in [Path -> File \cup {Absent}]
           /\ Write(q, f)[q] = f
           /\ \A r \in Path \ {q} : Write(q, f)[r] = fs[r]
BY DEF Types, Write

LEMMA UnlinkTyped ==
    ASSUME Types, NEW Q
    PROVE  /\ Unlink(Q) \in [Path -> File \cup {Absent}]
           /\ \A r \in Path \ Q : Unlink(Q)[r] = fs[r]
BY DEF Types, Unlink

LEMMA DamagedTyped ==
    ASSUME Types, NEW q \in Path
    PROVE  Damaged(q) \subseteq File \cup {Absent}
BY DEF Types, Damaged, File, Image, Complete, Foreign

\* Before the candidates are built there are none.
LEMMA NoneYet ==
    ASSUME Types, pc \notin Build
    PROVE  cands = <<>> /\ DOMAIN cands = {}
<1>1. Len(cands) <= 0 /\ Len(cands) \in Nat
  BY DEF Types, MaxCands, Build
<1>2. cands = <<>>
  BY <1>1, EmptySeq DEF Types
<1> QED BY <1>2

LEMMA BackupStep == IInv /\ SaveBackup => IInv'
<1> SUFFICES ASSUME IInv, SaveBackup PROVE IInv'
  OBVIOUS
<1>1. cands = <<>> /\ DOMAIN cands = {} /\ Len(cands) = 0 /\ pc = "backup"
  BY NoneYet DEF IInv, SaveBackup, Build
<1>2. PICK f \in File \cup {Absent} :
         /\ fs' = Write(Backup, f)
         /\ \/ f = fs[Obj] /\ pc' = "normalize"
            \/ pc' = "noBackup"
  BY DamagedTyped, PathsDistinct DEF SaveBackup, IInv, Types
<1>3. /\ fs' \in [Path -> File \cup {Absent}] /\ fs'[Backup] = f
      /\ fs'[Obj] = fs[Obj] /\ fs'[Raw] = fs[Raw]
  BY <1>2, FilesTyped, PathsDistinct DEF IInv
<1>4. Types'
  BY <1>1, <1>2, <1>3 DEF IInv, Types, SaveBackup, PCs, Returned, MaxCands
<1>5. ObjInv' /\ BackupKept' /\ RawInv'
  BY <1>1, <1>2, <1>3 DEF IInv, ObjInv, BackupKept, SaveBackup, RawInv, RawSound
<1>6. InputInv' /\ CandsInv' /\ BestsInv' /\ InstallInv' /\ EarlyInv'
  BY <1>1, <1>2 DEF IInv, InputInv, CandsInv, BestsInv, InstallInv, EarlyInv,
     Build, SaveBackup
<1> QED BY <1>4, <1>5, <1>6 DEF IInv

LEMMA NormalizeStep == IInv /\ Normalize => IInv'
<1> SUFFICES ASSUME IInv, Normalize PROVE IInv'
  OBVIOUS
<1>1. cands = <<>> /\ DOMAIN cands = {} /\ Len(cands) = 0 /\ pc = "normalize"
  BY NoneYet DEF IInv, Normalize, Build
<1>2. pc' \in {"bolt", "notNormalized"}
  BY DEF Normalize
<1>3. /\ fs' \in [Path -> File \cup {Absent}] /\ fs'[Backup] = fs[Backup]
      /\ pc' = "notNormalized" => fs'[Obj] = fs[Obj]
      /\ fs'[Raw] = fs[Raw]
  <2>1. CASE fs' = Unlink({Normalized})
    BY <2>1, UnlinkTyped, PathsDistinct DEF IInv
  <2>2. ASSUME NEW n \in 1 .. linked.size,
               fs' = [Unlink({Normalized}) EXCEPT ![Obj] =
                         [image |-> "normalized", size |-> n]],
               pc' = "bolt"
        PROVE  /\ fs' \in [Path -> File \cup {Absent}]
               /\ fs'[Backup] = fs[Backup] /\ fs'[Raw] = fs[Raw]
    <3>1. [image |-> "normalized", size |-> n] \in File
      BY BoundsAssumption DEF File, Image, Complete, IInv, Types
    <3>2. /\ Unlink({Normalized}) \in [Path -> File \cup {Absent}]
          /\ Unlink({Normalized})[Backup] = fs[Backup]
          /\ Unlink({Normalized})[Raw] = fs[Raw]
      BY UnlinkTyped, PathsDistinct DEF IInv
    <3> QED BY <2>2, <3>1, <3>2, PathsDistinct
  <2> QED BY <2>1, <2>2, UnlinkTyped, PathsDistinct DEF Normalize, IInv
<1>4. Types'
  BY <1>1, <1>2, <1>3 DEF IInv, Types, Normalize, PCs, Returned, MaxCands
<1>5. ObjInv' /\ BackupKept' /\ RawInv'
  BY <1>1, <1>2, <1>3 DEF IInv, ObjInv, BackupKept, Normalize, RawInv, RawSound
<1>6. InputInv' /\ CandsInv' /\ BestsInv' /\ InstallInv' /\ EarlyInv'
  BY <1>1, <1>2 DEF IInv, InputInv, CandsInv, BestsInv, InstallInv, EarlyInv,
     Build, Normalize
<1> QED BY <1>4, <1>5, <1>6 DEF IInv

\* BOLT, the poll loop and the align-only copy write their own two files.
LEMMA BoltSteps == IInv /\ (RunBolt \/ WaitForFile) => IInv'
<1> SUFFICES ASSUME IInv, RunBolt \/ WaitForFile PROVE IInv'
  OBVIOUS
<1>1. /\ cands = <<>> /\ DOMAIN cands = {} /\ Len(cands) = 0
      /\ pc \in {"bolt", "wait"}
  BY NoneYet DEF IInv, RunBolt, WaitForFile, Build
<1>2. /\ pc' \in {"wait", "align", "restoreBolt"}
      /\ UNCHANGED <<src, cands, bests, selected, linked>>
  BY DEF RunBolt, WaitForFile
<1>3. fs' \in [Path -> File \cup {Absent}] /\ fs'[Backup] = fs[Backup]
  <2>1. CASE fs' = fs
    BY <2>1 DEF IInv, Types
  <2>2. ASSUME NEW f \in File \cup {Absent}, fs' = Write(Raw, f)
        PROVE  fs' \in [Path -> File \cup {Absent}] /\ fs'[Backup] = fs[Backup]
    BY <2>2, FilesTyped, PathsDistinct DEF IInv
  <2>3. CASE RunBolt
    <3>1. \A n \in 0 .. MaxSize : [image |-> "bolt", size |-> n] \in File
      BY DEF File, Image, Complete
    <3> QED BY <2>1, <2>2, <2>3, <3>1, DamagedTyped, PathsDistinct DEF RunBolt, IInv
  <2> QED BY <2>1, <2>3 DEF WaitForFile
<1>4. tries' \in 0 .. MaxTry /\ stray' \in BOOLEAN
  <2>1. stray' \in BOOLEAN
    <3>1. CASE RunBolt
      <4>1. (fileSizeOf(Raw) > 0) \in BOOLEAN
        OBVIOUS
      <4>2. stray' = FALSE \/ stray' = (fileSizeOf(Raw) > 0)
        BY <3>1, Zenon DEF RunBolt
      <4> QED BY <4>1, <4>2
    <3>2. CASE WaitForFile
      BY <3>2 DEF IInv, Types, WaitForFile
    <3> QED BY <3>1, <3>2
  <2> QED BY <2>1, BoundsAssumption DEF IInv, Types, RunBolt, WaitForFile
<1>5. Types'
  BY <1>1, <1>2, <1>3, <1>4 DEF IInv, Types, PCs, Returned, MaxCands
<1>6. ObjInv' /\ BackupKept' /\ RawInv'
  <2>1. RawInv'
    <3>1. CASE RunBolt
      <4>1. ASSUME NEW f \in File, fs' = Write(Raw, f) PROVE fs'[Raw] = f
        BY <4>1, FilesTyped, PathsDistinct DEF IInv
      <4>2. ASSUME NEW n \in 0 .. MaxSize,
                   fs' = Write(Raw, [image |-> "bolt", size |-> n])
            PROVE  fs'[Raw].image \in Complete
        <5>1. [image |-> "bolt", size |-> n] \in File
          BY DEF File, Image, Complete
        <5> QED BY <4>1, <4>2, <5>1 DEF Complete
      <4>3. CASE fs' = fs /\ pc' = "wait" /\ stray' = (fileSizeOf(Raw) > 0)
        <5>1. fs'[Raw].image \in {"absent"} \cup Foreign
          BY <3>1, <4>3 DEF RunBolt, IInv, RawInv
        <5>2. fs'[Raw] \in File \cup {Absent}
          BY <1>3, PathsDistinct
        <5>3. fs'[Raw].size > 0 => fs'[Raw].image \in Foreign
          <6>1. \A k \in Foreign : k # "absent"
            BY DEF Foreign
          <6>2. fs'[Raw].size > 0 => fs'[Raw] \in File
            BY <5>2 DEF Absent
          <6>3. \A k \in Image : k # "absent"
            BY DEF Image, Complete, Foreign
          <6> QED BY <5>1, <6>2, <6>3 DEF File
        <5>4. fs'[Raw].size > 0 => stray'
          BY <4>3 DEF fileSizeOf
        <5>5. pc' = "wait"
          BY <4>3
        <5> QED BY <5>3, <5>4, <5>5 DEF RawInv, RawSound
      <4>4. pc' = "restoreBolt" => RawInv'
        BY DEF RawInv
      <4>5. ASSUME NEW n \in 0 .. MaxSize, pc' = "wait",
                   fs' = Write(Raw, [image |-> "bolt", size |-> n])
            PROVE  RawInv'
        <5>1. fs'[Raw].image \in Complete
          BY <4>2, <4>5
        <5>2. RawSound'
          BY <5>1, Zenon DEF RawSound
        <5> QED BY <4>5, <5>2 DEF RawInv
      <4> QED BY <3>1, <4>3, <4>4, <4>5 DEF RunBolt
    <3>2. CASE WaitForFile
      BY <3>2 DEF WaitForFile, IInv, RawInv, RawSound, fileSizeOf
    <3> QED BY <3>1, <3>2
  <2> QED BY <1>1, <1>2, <1>3, <2>1 DEF IInv, ObjInv, BackupKept
<1>7. InputInv' /\ CandsInv' /\ BestsInv' /\ InstallInv' /\ EarlyInv'
  BY <1>1, <1>2 DEF IInv, InputInv, CandsInv, BestsInv, InstallInv, EarlyInv, Build
<1> QED BY <1>5, <1>6, <1>7 DEF IInv

LEMMA AlignStep == IInv /\ AlignOnly => IInv'
<1> SUFFICES ASSUME IInv, AlignOnly PROVE IInv'
  OBVIOUS
<1>1. /\ cands = <<>> /\ DOMAIN cands = {} /\ Len(cands) = 0
      /\ pc = "align" /\ src = "bolt" /\ bests = <<>> /\ Len(bests) = 0
  BY NoneYet DEF IInv, AlignOnly, Build, EarlyInv
<1>2. PICK f \in File \cup {Absent} :
         /\ fs' = Write(Aligned, f)
         /\ \/ f.image = Made("aligned", Raw) /\ f.size \in 1 .. MaxSize /\ pc' = "plain"
            \/ pc' = "restoreBolt"
  <2>1. \A n \in 1 .. MaxSize : [image |-> Made("aligned", Raw), size |-> n] \in File
    <3>1. Made("aligned", Raw) \in Image
      BY MadeKinds DEF Complete
    <3> QED BY <3>1, BoundsAssumption DEF File
  <2>2. ASSUME NEW n \in 1 .. MaxSize, pc' = "plain",
               fs' = Write(Aligned, [image |-> Made("aligned", Raw), size |-> n])
        PROVE  \E f \in File : /\ fs' = Write(Aligned, f)
                               /\ f.image = Made("aligned", Raw)
                               /\ f.size \in 1 .. MaxSize
    BY <2>1, <2>2
  <2>3. \A f \in Damaged(Aligned) : f \in File \cup {Absent}
    BY DamagedTyped, PathsDistinct DEF IInv
  <2> QED BY <2>2, <2>3 DEF AlignOnly
<1>3. /\ fs' \in [Path -> File \cup {Absent}] /\ fs'[Backup] = fs[Backup]
      /\ fs'[Aligned] = f
  BY <1>2, FilesTyped, PathsDistinct DEF IInv
<1>4. Types'
  BY <1>1, <1>2, <1>3 DEF IInv, Types, AlignOnly, PCs, Returned, MaxCands, Build
<1>5. ObjInv' /\ BackupKept'
  BY <1>1, <1>2, <1>3 DEF IInv, ObjInv, BackupKept, AlignOnly
<1>6. InputInv'
  <2>1. pc' = "plain" =>
           /\ \/ fs'[Aligned].image \in Complete
              \/ stray /\ fs'[Aligned].image \in Foreign
           /\ fs'[Aligned].size \in 1 .. MaxSize
    <3>1. fs[Raw].image \in Complete \/ (stray /\ fs[Raw].image \in Foreign)
      BY <1>1 DEF IInv, RawInv, RawSound
    <3>2. "aligned" \in Complete
      BY DEF Complete
    <3> QED BY <1>2, <1>3, <3>1, <3>2, MadeKinds
  <2>2. stray' = stray /\ src' = "bolt" /\ Input("bolt") = Aligned /\ pc' \in {"plain", "restoreBolt"}
    BY <1>1, <1>2, PathsDistinct DEF AlignOnly
  <2> QED BY <2>1, <2>2 DEF InputInv, Sound, StrayPath, Build
<1>7. CandsInv' /\ BestsInv' /\ InstallInv' /\ EarlyInv' /\ RawInv'
  BY <1>1, <1>2 DEF CandsInv, BestsInv, InstallInv, EarlyInv, Build, AlignOnly, RawInv
<1> QED BY <1>4, <1>5, <1>6, <1>7 DEF IInv
-----------------------------------------------------------------------------
(***************************************************************************)
(* Building candidates.                                                    *)
(***************************************************************************)
LEMMA PlainStep == IInv /\ AddPlain => IInv'
<1> SUFFICES ASSUME IInv, AddPlain PROVE IInv'
  OBVIOUS
<1> DEFINE c == [path |-> Input(src), size |-> fs[Input(src)].size]
<1>1. /\ pc = "plain" /\ pc' = "legacy"
      /\ UNCHANGED <<fs, src, tries, bests, selected, linked, stray>>
  BY DEF AddPlain
<1>2. c \in Candidate /\ Good(fs, stray, c) /\ fs[Input(src)].size > 0
  BY <1>1, PathsDistinct DEF IInv, Types, InputInv, Build, Candidate, Good
<1>3. cands' = <<c>>
  <2>1. cands' = Append(<<>>, c)
    BY <1>2 DEF AddPlain, AddCandidate
  <2> QED BY <2>1
<1>4. cands' \in Seq(Candidate) /\ Len(cands') = 1 /\ DOMAIN cands' = {1} /\ cands'[1] = c
  BY <1>2, <1>3
<1>5. Types'
  BY <1>1, <1>4 DEF IInv, Types, PCs, MaxCands, Build
<1>6. CandsInv'
  BY <1>1, <1>2, <1>4 DEF CandsInv, Built, Good
<1>7. ObjInv' /\ BackupKept' /\ InputInv' /\ BestsInv' /\ InstallInv' /\ EarlyInv'
      /\ RawInv'
  BY <1>1 DEF IInv, ObjInv, BackupKept, InputInv, BestsInv, InstallInv, EarlyInv,
     Build, Good, RawInv, RawSound
<1> QED BY <1>5, <1>6, <1>7 DEF IInv

Packed(n) == [image |-> Made("packed", Input(src)), size |-> n]

\* A packer touches one file, which no candidate uses yet.
LEMMA PackEffect ==
    ASSUME IInv, NEW p \in Packer, Pack(p)
    PROVE  /\ fs' \in [Path -> File \cup {Absent}]
           /\ \A r \in Path \ {CandPath(src, p)} : fs'[r] = fs[r]
           /\ \/ cands' = cands
              \/ \E n \in 1 .. MaxSize :
                    /\ cands' = Append(cands, [path |-> CandPath(src, p), size |-> n])
                    /\ fs'[CandPath(src, p)] = Packed(n)
<1> DEFINE q == CandPath(src, p)
<1>1. q \in Path /\ Types
  BY PathsDistinct DEF IInv, Types
<1>2. CASE fs' = fs /\ cands' = cands
  BY <1>1, <1>2 DEF Types
<1>3. ASSUME NEW f \in Damaged(q), fs' = Write(q, f), cands' = cands
      PROVE  /\ fs' \in [Path -> File \cup {Absent}]
             /\ \A r \in Path \ {q} : fs'[r] = fs[r]
  <2>1. f \in File \cup {Absent}
    BY <1>1, <1>3, DamagedTyped
  <2> QED BY <1>1, <1>3, <2>1, FilesTyped
<1>4. CASE fs' = Unlink({q}) /\ cands' = cands
  BY <1>1, <1>4, UnlinkTyped
<1>5. ASSUME NEW n \in 0 .. MaxSize,
             fs' = IF n > 0 THEN Write(q, Packed(n))
                   ELSE Unlink({q}),
             cands' = AddCandidate(cands, q, Packed(n))
      PROVE  /\ fs' \in [Path -> File \cup {Absent}]
             /\ \A r \in Path \ {q} : fs'[r] = fs[r]
             /\ \/ cands' = cands
                \/ \E k \in 1 .. MaxSize :
                      /\ cands' = Append(cands, [path |-> q, size |-> k])
                      /\ fs'[q] = Packed(k)
  <2>1. Packed(n) \in File /\ Packed(n).size = n
    <3>1. Made("packed", Input(src)) \in Image
      BY MadeKinds DEF Complete
    <3> QED BY <3>1 DEF File, Packed
  <2>2. CASE n > 0
    <3>1. n \in 1 .. MaxSize
      BY <2>2, BoundsAssumption
    <3>2. fs' = Write(q, Packed(n))
      BY <1>5, <2>2
    <3>3. cands' = Append(cands, [path |-> q, size |-> n])
      BY <1>5, <2>1, <2>2 DEF AddCandidate
    <3>4. /\ fs' \in [Path -> File \cup {Absent}]
          /\ fs'[q] = Packed(n)
          /\ \A r \in Path \ {q} : fs'[r] = fs[r]
      BY <3>2, <2>1, <1>1, FilesTyped
    <3> QED BY <3>1, <3>3, <3>4
  <2>3. CASE ~(n > 0)
    <3>1. fs' = Unlink({q})
      BY <1>5, <2>3
    <3>2. cands' = cands
      BY <1>5, <2>1, <2>3 DEF AddCandidate
    <3> QED BY <1>4, <3>1, <3>2
  <2> QED BY <2>2, <2>3
<1>6. \/ fs' = fs /\ cands' = cands
      \/ \E f \in Damaged(q) : fs' = Write(q, f) /\ cands' = cands
      \/ fs' = Unlink({q}) /\ cands' = cands
      \/ \E n \in 0 .. MaxSize :
            /\ fs' = IF n > 0 THEN Write(q, Packed(n))
                     ELSE Unlink({q})
            /\ cands' = AddCandidate(cands, q, Packed(n))
  BY DEF Pack, Rejected, Packed
<1> HIDE DEF q
<1> QED BY <1>2, <1>3, <1>4, <1>5, <1>6 DEF q

LEMMA PackStep == ASSUME IInv, NEW p \in Packer, Pack(p) PROVE IInv'
<1> DEFINE q == CandPath(src, p)
           c(n) == [path |-> q, size |-> n]
<1>1. /\ pc = p /\ pc' = After(p)
      /\ UNCHANGED <<src, tries, bests, selected, linked, stray>>
  BY DEF Pack
<1>2. /\ \/ p = "legacy" /\ pc' = "lz4"
         \/ p = "lz4" /\ pc' = "select"
      /\ pc \in Build /\ pc' \in Build
  BY <1>1 DEF Packer, After, Build
<1>3. /\ fs' \in [Path -> File \cup {Absent}]
      /\ \A r \in Path \ {q} : fs'[r] = fs[r]
      /\ \/ cands' = cands
         \/ \E n \in 1 .. MaxSize :
               cands' = Append(cands, c(n)) /\ fs'[q] = Packed(n)
  BY PackEffect
<1>4. /\ q \in Path /\ q \notin {Obj, Backup, Aligned} /\ q # Input(src)
      /\ q \notin Built(src, p) /\ Built(src, p) \subseteq Built(src, pc')
      /\ q \in Built(src, pc') /\ Built(src, p) \subseteq Path
      /\ src = "prebolt" => q \notin Own("bolt")
  BY <1>2, PathsDistinct DEF IInv, Types, Source, Packer, Built, Own
<1>5. /\ cands' \in Seq(Candidate) /\ Len(cands') <= MaxCands'
      /\ \A i \in DOMAIN cands' : /\ cands'[i].path \in Built(src, pc')
                                  /\ Good(fs', stray', cands'[i])
  <2>1. /\ cands \in Seq(Candidate) /\ Len(cands) <= MaxCands
        /\ Len(cands) \in Nat
        /\ \A i \in DOMAIN cands : cands[i].path \in Built(src, p) /\ Good(fs, stray, cands[i])
    BY <1>1 DEF IInv, Types, CandsInv
  <2>2. \A i \in DOMAIN cands : cands[i].path \in Built(src, pc') /\ Good(fs', stray', cands[i])
    BY <2>1, <1>1, <1>3, <1>4 DEF Good, Sound
  <2>3. MaxCands' = MaxCands + 1
    BY <1>1, <1>2 DEF MaxCands
  <2>4. CASE cands' = cands
    BY <2>1, <2>2, <2>3, <2>4 DEF MaxCands
  <2>5. ASSUME NEW n \in 1 .. MaxSize, cands' = Append(cands, c(n)),
               fs'[q] = Packed(n)
        PROVE  /\ cands' \in Seq(Candidate) /\ Len(cands') <= MaxCands'
               /\ \A i \in DOMAIN cands' : /\ cands'[i].path \in Built(src, pc')
                                           /\ Good(fs', stray', cands'[i])
    <3>1. c(n) \in Candidate
      BY <1>4 DEF Candidate
    <3>2. Good(fs', stray', c(n)) /\ c(n).path \in Built(src, pc')
      <4>1. Sound(fs, stray, Input(src)) /\ src \in Source
        BY <1>2 DEF IInv, InputInv, Types
      <4>2. "packed" \in Complete
        BY DEF Complete
      <4>3. \/ Made("packed", Input(src)) \in Complete
            \/ /\ stray /\ Input(src) \in StrayPath
               /\ Made("packed", Input(src)) \in Foreign
        BY <4>1, <4>2, MadeKinds DEF Sound
      <4>4. Input(src) \in StrayPath => src = "bolt"
        BY <4>1, PathsDistinct DEF StrayPath, Source
      <4>5. src = "bolt" => q \in StrayPath
        BY DEF StrayPath
      <4>6. fs'[q].image = Made("packed", Input(src)) /\ fs'[q].size = n
        BY <2>5 DEF Packed
      <4>7. stray' = stray
        BY <1>1
      <4>9. c(n).path = q /\ c(n).size = n
        OBVIOUS
      <4> HIDE DEF q, c
      <4>8. Sound(fs', stray', q)
        BY <4>3, <4>4, <4>5, <4>6, <4>7, Zenon DEF Sound
      <4> QED BY <1>4, <4>6, <4>8, <4>9 DEF Good
    <3>3. /\ cands' \in Seq(Candidate) /\ Len(cands') = Len(cands) + 1
          /\ \A i \in 1 .. Len(cands) : cands'[i] = cands[i]
          /\ cands'[Len(cands) + 1] = c(n)
      BY <2>1, <2>5, <3>1, AppendProperties
    <3>4. Len(cands') <= MaxCands'
      BY <2>1, <2>3, <3>3 DEF MaxCands
    <3>5. DOMAIN cands' = 1 .. (Len(cands) + 1) /\ DOMAIN cands = 1 .. Len(cands)
      BY <3>3, <2>1
    <3>6. \A i \in DOMAIN cands' : i \in DOMAIN cands \/ i = Len(cands) + 1
      BY <3>5, <2>1
    <3> HIDE DEF c, q
    <3>7. \A i \in DOMAIN cands' : cands'[i].path \in Built(src, pc') /\ Good(fs', stray', cands'[i])
      BY <2>2, <3>2, <3>3, <3>5, <3>6
    <3> QED BY <3>3, <3>4, <3>7
  <2> QED BY <1>3, <2>4, <2>5
<1>6. Types'
  BY <1>1, <1>2, <1>3, <1>5 DEF IInv, Types, PCs
<1>7. ObjInv' /\ BackupKept' /\ InstallInv' /\ EarlyInv' /\ RawInv'
  BY <1>1, <1>2, <1>3, <1>4, PathsDistinct DEF IInv, ObjInv, BackupKept, InstallInv,
     EarlyInv, Build, RawInv, RawSound
<1>8. InputInv'
  <2>1. fs'[Input(src)] = fs[Input(src)]
    BY <1>3, <1>4, PathsDistinct DEF IInv, Types
  <2> QED BY <2>1, <1>1, <1>2 DEF IInv, InputInv, Sound
<1>9. CandsInv'
  BY <1>1, <1>5 DEF CandsInv
<1>11. RawInv'
  BY <1>2 DEF RawInv, Build
<1>10. BestsInv'
  <2>1. \A i \in DOMAIN bests : bests[i].path \in Own("bolt") /\ Good(fs, stray, bests[i])
    BY <1>2 DEF IInv, BestsInv
  <2>2. src = "bolt" => DOMAIN bests = {}
    BY <1>2 DEF IInv, BestsInv, Types
  <2>3. \A i \in DOMAIN bests : Good(fs', stray', bests[i])
    BY <2>1, <2>2, <1>1, <1>3, <1>4, PathsDistinct DEF Good, Sound, IInv, Types, Source
  <2> QED BY <2>1, <2>3, <1>1, <1>2 DEF IInv, BestsInv
<1> QED BY <1>6, <1>7, <1>8, <1>9, <1>10 DEF IInv

(***************************************************************************)
(* The best candidate of a source joins the others; the losers of this     *)
(* source are unlinked, its input and the other source's best are not.     *)
(***************************************************************************)
LEMMA SelectStep == IInv /\ Select => IInv'
<1> SUFFICES ASSUME IInv, Select PROVE IInv'
  OBVIOUS
<1> DEFINE c == cands[Best(cands)]
<1>1. /\ pc = "select" /\ src' = "prebolt" /\ cands' = <<>>
      /\ pc' = IF src = "bolt" THEN "plain" ELSE "decide"
      /\ UNCHANGED <<tries, selected, linked, stray>>
  BY DEF Select
<1>2. /\ Types /\ pc \in Build /\ src \in Source /\ fs[Backup] = linked
      /\ \A i \in DOMAIN cands : cands[i].path \in Own(src) /\ Good(fs, stray, cands[i])
      /\ \A i \in DOMAIN bests : bests[i].path \in Own("bolt") /\ Good(fs, stray, bests[i])
      /\ Len(bests) <= IF src = "bolt" THEN 0 ELSE 1
  BY <1>1 DEF IInv, Types, CandsInv, BestsInv, BackupKept, Build, Built
<1>3. Own("bolt") \subseteq Path /\ Own(src) \subseteq Path /\ Backup \in Path
  BY <1>2, PathsDistinct DEF Source
<1>4. (cands # <<>>) => Best(cands) \in DOMAIN cands /\ c \in Candidate
  <2>1. cands # <<>> => Best(cands) \in DOMAIN cands
    BY <1>1, <1>2, BestExists DEF Types, MaxCands
  <2> QED BY <2>1, <1>2 DEF Types
<1>5. /\ fs' \in [Path -> File \cup {Absent}] /\ fs'[Backup] = fs[Backup]
      /\ \A i \in DOMAIN bests : Good(fs', stray', bests[i])
      /\ cands # <<>> => fs'[c.path] = fs[c.path]
  <2>1. CASE cands = <<>>
    BY <2>1, <1>1, <1>2 DEF Select, Types, Good
  <2>2. CASE cands # <<>>
    <3>1. fs' = Unlink(Losers(cands))
      BY <2>2 DEF Select
    <3>2. Losers(cands) \subseteq Own(src) \ {c.path, Input(src)}
      BY <1>2 DEF Losers, PathsOf
    <3>3. /\ fs' \in [Path -> File \cup {Absent}]
          /\ \A r \in Path \ Losers(cands) : fs'[r] = fs[r]
      BY <3>1, <1>2, UnlinkTyped
    <3>4. Backup \notin Losers(cands) /\ c.path \notin Losers(cands)
      BY <3>2, <1>2, PathsDistinct DEF Own, Source, Packer
    <3>5. c.path \in Path
      BY <1>2, <1>3, <1>4, <2>2
    <3>6. ASSUME NEW i \in DOMAIN bests PROVE bests[i].path \notin Losers(cands)
      <4>1. src = "prebolt"
        BY <1>2 DEF Types, Source
      <4> QED BY <4>1, <3>2, <1>2, PathsDistinct DEF Own, Packer
    <3>7. \A i \in DOMAIN bests : fs'[bests[i].path] = fs[bests[i].path]
      BY <3>3, <3>6, <1>2, <1>3
    <3> QED BY <3>3, <3>4, <3>5, <3>7, <1>1, <1>2, <1>3 DEF Good, Sound
  <2> QED BY <2>1, <2>2
<1>6. CASE cands = <<>>
  <2>1. fs' = fs /\ bests' = bests
    BY <1>6 DEF Select
  <2>2. Types'
    BY <2>1, <1>1, <1>2 DEF Types, PCs, Build, MaxCands, Source
  <2>3. BestsInv'
    BY <2>1, <1>1, <1>2 DEF BestsInv, Build, Good, Types
  <2>4. InputInv'
    <3>1. Input(src') = Backup /\ fs'[Backup] = linked
      BY <2>1, <1>1, <1>2, PathsDistinct
    <3>2. linked.image \in Complete /\ linked.size \in 1 .. MaxSize
      BY <1>2 DEF Types, Complete
    <3>3. Sound(fs', stray', Input(src'))
      BY <3>1, <3>2, Zenon DEF Sound
    <3> QED BY <3>1, <3>2, <3>3 DEF InputInv
  <2>5. ObjInv' /\ BackupKept' /\ CandsInv' /\ InstallInv' /\ EarlyInv' /\ RawInv'
    BY <2>1, <1>1, <1>2 DEF ObjInv, BackupKept, CandsInv, InstallInv, EarlyInv, RawInv, RawSound
  <2> QED BY <2>2, <2>3, <2>4, <2>5 DEF IInv
<1>7. CASE cands # <<>>
  <2> DEFINE d == [path |-> c.path, size |-> fs[c.path].size]
  <2>1. /\ c \in Candidate /\ c.path \in Own(src) /\ c.path \in Path
        /\ Good(fs, stray, c) /\ fs'[c.path] = fs[c.path]
    BY <1>7, <1>2, <1>3, <1>4, <1>5
  <2>2. bests' = Append(bests, d)
    BY <1>7 DEF Select, fileSizeOf
  <2>3. d \in Candidate /\ Good(fs', stray', d) /\ d.path \in Own(src)
    BY <1>1, <2>1 DEF Candidate, Good, Sound
  <2> HIDE DEF d
  <2>4. bests \in Seq(Candidate) /\ Len(bests) \in Nat /\ DOMAIN bests = 1 .. Len(bests)
    BY <1>2 DEF Types
  <2>5. /\ bests' \in Seq(Candidate) /\ Len(bests') = Len(bests) + 1
        /\ DOMAIN bests' = 1 .. (Len(bests) + 1)
        /\ \A i \in 1 .. Len(bests) : bests'[i] = bests[i]
        /\ bests'[Len(bests) + 1] = d
    BY <2>2, <2>3, <2>4, AppendProperties
  <2>6. \A i \in DOMAIN bests' : i \in DOMAIN bests \/ i = Len(bests) + 1
    BY <2>4, <2>5
  <2>7. \A i \in DOMAIN bests' : Good(fs', stray', bests'[i])
    BY <1>5, <2>3, <2>4, <2>5, <2>6
  <2>8. src = "bolt" => \A i \in DOMAIN bests' : bests'[i].path \in Own("bolt")
    BY <1>2, <2>3, <2>4, <2>5, <2>6
  <2>9. Len(bests') <= 2 /\ (src = "bolt" => Len(bests') <= 1)
    BY <1>2, <2>4, <2>5 DEF Source
  <2>10. Types'
    BY <1>1, <1>2, <1>5, <2>5, <2>9 DEF Types, PCs, Build, MaxCands, Source
  <2>11. BestsInv'
    BY <1>1, <2>7, <2>8, <2>9 DEF BestsInv, Build
  <2>12. InputInv'
    <3>1. Input(src') = Backup /\ fs'[Backup] = linked
      BY <1>1, <1>2, <1>5, PathsDistinct
    <3>2. linked.image \in Complete /\ linked.size \in 1 .. MaxSize
      BY <1>2 DEF Types, Complete
    <3>3. Sound(fs', stray', Input(src'))
      BY <3>1, <3>2, Zenon DEF Sound
    <3> QED BY <3>1, <3>2, <3>3 DEF InputInv
  <2>13. ObjInv' /\ BackupKept' /\ CandsInv' /\ InstallInv' /\ EarlyInv' /\ RawInv'
    BY <1>1, <1>2, <1>5 DEF ObjInv, BackupKept, CandsInv, InstallInv, EarlyInv, RawInv, RawSound
  <2> QED BY <2>10, <2>11, <2>12, <2>13 DEF IInv
<1> QED BY <1>6, <1>7
-----------------------------------------------------------------------------
LEMMA KeepStep == IInv /\ KeepPreBolt => IInv'
<1> SUFFICES ASSUME IInv, KeepPreBolt PROVE IInv'
  OBVIOUS
<1>1. /\ pc = "decide" /\ pc' = "restoreGuard"
      /\ UNCHANGED <<src, tries, cands, bests, selected, linked, stray>>
      /\ cands = <<>> /\ DOMAIN cands = {} /\ Len(cands) = 0
  BY NoneYet DEF KeepPreBolt, IInv, Build
<1>2. fs' \in [Path -> File \cup {Absent}] /\ fs'[Backup] = fs[Backup]
  BY UnlinkTyped, PathsDistinct DEF KeepPreBolt, IInv
<1>3. Types'
  BY <1>1, <1>2 DEF IInv, Types, PCs, Build, MaxCands
<1>4. ObjInv' /\ BackupKept' /\ InputInv' /\ CandsInv' /\ BestsInv' /\ InstallInv'
      /\ EarlyInv' /\ RawInv'
  BY <1>1, <1>2 DEF IInv, ObjInv, BackupKept, InputInv, CandsInv, BestsInv,
     InstallInv, EarlyInv, Build, RawInv, RawSound
<1> QED BY <1>3, <1>4 DEF IInv

\* The candidate that is chosen survives the clean-up and is smaller.
LEMMA ChooseStep == IInv /\ ChooseSmallest => IInv'
<1> SUFFICES ASSUME IInv, ChooseSmallest PROVE IInv'
  OBVIOUS
<1> DEFINE c == bests[Best(bests)]
<1>1. /\ pc = "decide" /\ pc' = "install" /\ selected' = c.path
      /\ fs' = Unlink(Cleanup(c.path))
      /\ UNCHANGED <<src, tries, cands, bests, linked, stray>>
      /\ cands = <<>> /\ DOMAIN cands = {} /\ Len(cands) = 0
  BY NoneYet DEF ChooseSmallest, IInv, Build
<1>2. bests # <<>> /\ c.size < linked.size
  <2>1. bests # <<>> /\ ~(c.size >= fs[Backup].size) /\ fs[Backup] = linked
    BY <1>1 DEF ChooseSmallest, SizeGuard, fileSizeOf, IInv, BackupKept
  <2>2. Best(bests) \in DOMAIN bests /\ bests \in Seq(Candidate)
    BY <2>1, BestExists DEF IInv, Types
  <2>3. c \in Candidate
    BY <2>2
  <2> QED BY <2>1, <2>3 DEF Candidate, IInv, Types
<1>3. Best(bests) \in DOMAIN bests /\ c \in Candidate
  <2>1. Best(bests) \in DOMAIN bests /\ bests \in Seq(Candidate)
    BY <1>2, BestExists DEF IInv, Types
  <2> QED BY <2>1
<1>4. c.path \in Path /\ c.size > 0 /\ Good(fs, stray, c)
  BY <1>1, <1>3, BoundsAssumption DEF IInv, BestsInv, Candidate
<1>5. fs' \in [Path -> File \cup {Absent}] /\ fs'[c.path] = fs[c.path]
  BY <1>1, <1>4, UnlinkTyped DEF Cleanup, IInv
<1> HIDE DEF c
<1>6. Types'
  BY <1>1, <1>4, <1>5 DEF IInv, Types, PCs, MaxCands
<1>7. InstallInv'
  <2>1. fs'[selected'] = fs[c.path] /\ Sound(fs, stray, c.path)
        /\ fs[c.path].size = c.size /\ linked' = linked
    BY <1>1, <1>4, <1>5 DEF Good
  <2>2. Sound(fs', stray', selected')
    BY <1>1, <1>5, <2>1 DEF Sound
  <2> QED BY <1>1, <1>2, <1>4, <2>1, <2>2 DEF InstallInv
<1>8. ObjInv' /\ BackupKept' /\ InputInv' /\ CandsInv' /\ BestsInv' /\ EarlyInv'
      /\ RawInv'
  BY <1>1 DEF IInv, ObjInv, BackupKept, InputInv, CandsInv, BestsInv, EarlyInv, Build,
     RawInv, RawSound
<1> QED BY <1>6, <1>7, <1>8 DEF IInv

LEMMA InstallStep == IInv /\ Install => IInv'
<1> SUFFICES ASSUME IInv, Install PROVE IInv'
  OBVIOUS
<1> DEFINE u == Unlink({selected} \ {Backup})
<1>1. /\ pc = "install" /\ pc' \in {"installed", "installFailed"}
      /\ UNCHANGED <<src, tries, cands, bests, selected, linked, stray>>
      /\ cands = <<>> /\ DOMAIN cands = {} /\ Len(cands) = 0
  BY NoneYet DEF Install, IInv, Build
<1>2. PICK f \in File \cup {Absent} :
         /\ fs' = [u EXCEPT ![Obj] = f]
         /\ pc' = "installed" => f = fs[selected]
  <2>1. fs[selected] \in File \cup {Absent}
    BY <1>1 DEF IInv, InstallInv, Types
  <2>2. Damaged(Obj) \subseteq File \cup {Absent}
    BY DamagedTyped, PathsDistinct DEF IInv
  <2> QED BY <2>1, <2>2 DEF Install
<1>3. u \in [Path -> File \cup {Absent}]
  BY UnlinkTyped DEF IInv
<1> HIDE DEF u
<1>4. fs' \in [Path -> File \cup {Absent}] /\ fs'[Obj] = f
  BY <1>2, <1>3, PathsDistinct
<1>5. Types'
  BY <1>1, <1>4 DEF IInv, Types, PCs, Returned, MaxCands
<1>6. InstallInv'
  BY <1>1, <1>2, <1>4 DEF IInv, InstallInv, Sound
<1>7. ObjInv' /\ BackupKept' /\ InputInv' /\ CandsInv' /\ BestsInv' /\ EarlyInv'
      /\ RawInv'
  BY <1>1 DEF IInv, ObjInv, BackupKept, InputInv, CandsInv, BestsInv, EarlyInv, Build,
     RawInv, RawSound
<1> QED BY <1>5, <1>6, <1>7 DEF IInv

LEMMA RestoreStep == IInv /\ Restore => IInv'
<1> SUFFICES ASSUME IInv, Restore PROVE IInv'
  OBVIOUS
<1>1. /\ pc \in {"restoreBolt", "restoreGuard"}
      /\ pc' \in {"boltFailed", "kept", "restoreFailed"}
      /\ UNCHANGED <<src, tries, cands, bests, selected, linked, stray>>
      /\ cands = <<>> /\ DOMAIN cands = {} /\ Len(cands) = 0
      /\ fs[Backup] = linked
  BY NoneYet DEF Restore, IInv, Build, BackupKept
<1>2. PICK f \in File \cup {Absent} :
         /\ fs' = Write(Obj, f)
         /\ pc' \in {"boltFailed", "kept"} => f = linked
  <2>1. fs[Backup] \in File \cup {Absent}
    BY PathsDistinct DEF IInv, Types
  <2>2. Damaged(Obj) \subseteq File \cup {Absent}
    BY DamagedTyped, PathsDistinct DEF IInv
  <2> QED BY <1>1, <2>1, <2>2 DEF Restore
<1>3. /\ fs' \in [Path -> File \cup {Absent}] /\ fs'[Obj] = f
      /\ fs'[Backup] = fs[Backup]
  BY <1>2, FilesTyped, PathsDistinct DEF IInv
<1>4. Types'
  BY <1>1, <1>3 DEF IInv, Types, PCs, Returned, MaxCands
<1>5. ObjInv' /\ BackupKept'
  BY <1>1, <1>2, <1>3 DEF ObjInv, BackupKept
<1>6. InputInv' /\ CandsInv' /\ BestsInv' /\ InstallInv' /\ EarlyInv' /\ RawInv'
  BY <1>1 DEF IInv, InputInv, CandsInv, BestsInv, InstallInv, EarlyInv, Build, RawInv, RawSound
<1> QED BY <1>4, <1>5, <1>6 DEF IInv
-----------------------------------------------------------------------------
LEMMA StutterStep == IInv /\ UNCHANGED vars => IInv'
<1> SUFFICES ASSUME IInv, UNCHANGED vars PROVE IInv'
  OBVIOUS
<1> USE DEF vars
<1>1. Types' /\ ObjInv' /\ BackupKept' /\ EarlyInv' /\ RawInv'
  BY DEF IInv, Types, MaxCands, ObjInv, BackupKept, EarlyInv, RawInv, RawSound
<1>2. InputInv' /\ CandsInv' /\ BestsInv' /\ InstallInv'
  BY DEF IInv, InputInv, CandsInv, BestsInv, Good, Sound, InstallInv
<1> QED BY <1>1, <1>2 DEF IInv

(***************************************************************************)
(* IInv is an invariant of runBoltAndPack: the backup is intact, the       *)
(* candidates on record are whole files of the recorded sizes, save those  *)
(* made of an older file the poll took for BOLT's output, and what is      *)
(* chosen for installation is smaller than the linked image.               *)
(***************************************************************************)
THEOREM IInvHolds == Spec => []IInv
<1>1. IInv /\ [Next]_vars => IInv'
  <2> SUFFICES ASSUME IInv, [Next]_vars PROVE IInv'
    OBVIOUS
  <2>1. CASE SaveBackup
    BY <2>1, BackupStep
  <2>2. CASE Normalize
    BY <2>2, NormalizeStep
  <2>3. CASE RunBolt \/ WaitForFile
    BY <2>3, BoltSteps
  <2>4. CASE AlignOnly
    BY <2>4, AlignStep
  <2>5. CASE AddPlain
    BY <2>5, PlainStep
  <2>6. CASE PackLegacy
    BY <2>6, PackStep DEF PackLegacy, Packer
  <2>7. CASE PackLZ4
    BY <2>7, PackStep DEF PackLZ4, Packer
  <2>8. CASE Select
    BY <2>8, SelectStep
  <2>9. CASE KeepPreBolt
    BY <2>9, KeepStep
  <2>10. CASE ChooseSmallest
    BY <2>10, ChooseStep
  <2>11. CASE Install
    BY <2>11, InstallStep
  <2>12. CASE Restore
    BY <2>12, RestoreStep
  <2>13. CASE UNCHANGED vars
    BY <2>13, StutterStep
  <2> QED BY <2>1, <2>2, <2>3, <2>4, <2>5, <2>6, <2>7, <2>8, <2>9, <2>10, <2>11,
             <2>12, <2>13 DEF Next, Done
<1> QED BY InitIInv, <1>1, PTL DEF Spec

(***************************************************************************)
(* The files, lists and steps of runBoltAndPack stay in their domains.     *)
(***************************************************************************)
THEOREM TypeCorrect == Spec => []TypeOK
<1>1. IInv => TypeOK
  <2> SUFFICES ASSUME IInv PROVE TypeOK
    OBVIOUS
  <2>1. Len(cands) <= 3 /\ Len(bests) <= 2
    BY DEF IInv, Types, MaxCands
  <2>2. linked \in File
    BY DEF IInv, Types, File, Image, Complete
  <2> QED BY <2>1, <2>2 DEF IInv, Types, TypeOK, PCs, Build
<1> QED BY <1>1, IInvHolds, PTL

(***************************************************************************)
(* Every return that is not an error leaves the linked image itself, or a  *)
(* strictly smaller one, at the output path; the smaller one is whole      *)
(* unless the poll took an older file for BOLT's output.                   *)
(***************************************************************************)
THEOREM OutputSafe == Spec => []OutputIsOriginalOrSmaller
<1>1. IInv => OutputIsOriginalOrSmaller
  BY DEF IInv, ObjInv, InstallInv, OutputIsOriginalOrSmaller
<1> QED BY <1>1, IInvHolds, PTL

(***************************************************************************)
(* objPath.prebolt holds the linked image until a candidate is chosen.     *)
(***************************************************************************)
THEOREM BackupSafe == Spec => []BackupKept
<1>1. IInv => BackupKept
  BY DEF IInv
<1> QED BY <1>1, IInvHolds, PTL

(***************************************************************************)
(* The sizes that compete are those of the files as they are.              *)
(***************************************************************************)
THEOREM SizesCurrent == Spec => []CandidatesCurrent
<1>1. IInv => CandidatesCurrent
  BY DEF IInv, CandsInv, BestsInv, Good, CandidatesCurrent, fileSizeOf, Build
<1> QED BY <1>1, IInvHolds, PTL

(***************************************************************************)
(* No remains of a failed child process and no file of an earlier link     *)
(* compete or are installed, but through the poll for BOLT's output, and   *)
(* then only as candidates of the BOLT source.                             *)
(***************************************************************************)
THEOREM CandidatesWhole == Spec => []NoPartialCandidate
<1>1. IInv => NoPartialCandidate
  BY DEF IInv, CandsInv, InstallInv, Good, Sound, NoPartialCandidate, FromStray, StrayPath
<1> QED BY <1>1, IInvHolds, PTL

(***************************************************************************)
(* Every step of the stage is a step of PostLink or leaves what PostLink   *)
(* sees alone: the poll may let a file of an earlier link in, once; a      *)
(* return keeps the linked image, installs a smaller one, which is whole   *)
(* if nothing was let in, or reports that the last copy failed; and        *)
(* nothing changes after it.                                               *)
(***************************************************************************)
LEMMA StepRefines ==
    ASSUME IInv, IInv', [Next]_vars
    PROVE  [Promise!Next]_(Promise!vars)
<1> DEFINE out == IF pc \notin Returned THEN [image |-> "undecided", size |-> -1]
                  ELSE IF pc \in {"installFailed", "restoreFailed"}
                  THEN [image |-> "failed", size |-> -1]
                  ELSE fs[Obj]
<1>1. linked' = linked /\ (pc # "bolt" => stray' = stray)
  BY DEF Next, vars, SaveBackup, Normalize, RunBolt, WaitForFile, AlignOnly, AddPlain,
         PackLegacy, PackLZ4, Pack, Select, KeepPreBolt, ChooseSmallest, Install,
         Restore, Done
<1>2. CASE pc \in Returned
  <2>1. UNCHANGED vars
    BY <1>2 DEF Next, SaveBackup, Normalize, RunBolt, WaitForFile, AlignOnly, AddPlain,
         PackLegacy, PackLZ4, Pack, Packer, Select, KeepPreBolt, ChooseSmallest, Install,
         Restore, Done, Returned
  <2> QED BY <2>1 DEF vars, Promise!vars
<1>3. CASE pc \notin Returned /\ pc' \notin Returned
  <2>1. out = [image |-> "undecided", size |-> -1] /\ out' = out
    BY <1>3
  <2>2. CASE stray' = stray
    BY <1>1, <2>1, <2>2 DEF Promise!vars
  <2>3. CASE stray' # stray
    <3>1. ~stray /\ stray' = TRUE
      BY <1>1, <2>3 DEF IInv, EarlyInv, Types
    <3> QED BY <1>1, <2>1, <3>1 DEF Promise!Next, Promise!Stray, Promise!Undecided
  <2> QED BY <2>2, <2>3
<1>4. CASE pc \notin Returned /\ pc' \in Returned
  <2>1. out = [image |-> "undecided", size |-> -1] /\ stray' = stray
    <3>1. pc # "bolt"
      BY <1>4 DEF Next, SaveBackup, Normalize, RunBolt, WaitForFile, AlignOnly, AddPlain,
         PackLegacy, PackLZ4, Pack, Select, KeepPreBolt, ChooseSmallest, Install,
         Restore, Done, Returned, vars
    <3> QED BY <1>1, <1>4, <3>1
  <2>2. CASE pc' \in {"installFailed", "restoreFailed"}
    BY <1>1, <1>4, <2>1, <2>2 DEF Promise!Next, Promise!Decide, Promise!Fail, Promise!Undecided, Promise!Failed
  <2>3. CASE pc' \in {"noBackup", "notNormalized", "boltFailed", "kept"}
    <3>1. fs'[Obj] = linked
      BY <1>1, <2>3 DEF IInv, ObjInv
    <3>2. out' = linked
      BY <1>4, <2>3, <3>1
    <3> QED BY <1>1, <2>1, <3>2 DEF Promise!Next, Promise!Decide, Promise!Keep, Promise!Undecided
  <2>4. CASE pc' = "installed"
    <3>1. /\ fs'[Obj].image \in Complete \cup {k \in Foreign : stray}
          /\ fs'[Obj].size > 0 /\ fs'[Obj].size < linked.size
      BY <1>1, <2>1, <2>4 DEF IInv, InstallInv
    <3>2. fs'[Obj] \in File /\ linked.size \in Nat
      <4>1. fs'[Obj] \in File \cup {Absent}
        BY PathsDistinct DEF IInv, Types
      <4>2. linked.size \in 1 .. MaxSize
        BY DEF IInv, Types
      <4>3. fs'[Obj] # Absent
        BY <3>1 DEF Absent
      <4> QED BY <4>1, <4>2, <4>3, BoundsAssumption
    <3>3. PICK kind \in Complete \cup {k \in Foreign : stray}, n \in 1 .. linked.size - 1 :
             fs'[Obj] = [image |-> kind, size |-> n]
      <4>1. PICK kind \in Image, n \in 0 .. MaxSize :
               fs'[Obj] = [image |-> kind, size |-> n]
        BY <3>2 DEF File
      <4>2. kind \in Complete \cup {k \in Foreign : stray} /\ n \in 1 .. linked.size - 1
        BY <3>1, <3>2, <4>1, BoundsAssumption
      <4> QED BY <4>1, <4>2
    <3>4. out' = [image |-> kind, size |-> n]
      BY <1>4, <2>4, <3>3
    <3> QED BY <1>1, <2>1, <3>3, <3>4 DEF Promise!Next, Promise!Decide, Promise!Replace, Promise!Undecided
  <2> QED BY <1>4, <2>2, <2>3, <2>4 DEF Returned
<1> QED BY <1>2, <1>3, <1>4

(***************************************************************************)
(* runBoltAndPack implements the safety part of PostLink, whatever files   *)
(* an earlier link left: the output path is decided once and for all, for  *)
(* the linked image or a smaller one, which is a whole image of this link  *)
(* unless BOLT wrote no output and the poll took an older file for it.     *)
(***************************************************************************)
THEOREM ImplementsPostLink == Spec => Promise!Init /\ [][Promise!Next]_(Promise!vars)
<1>1. Init => Promise!Init
  BY DEF Init, Promise!Init, Promise!Undecided, Returned
<1>2. IInv /\ IInv' /\ [Next]_vars => [Promise!Next]_(Promise!vars)
  BY StepRefines
<1> QED BY <1>1, <1>2, IInvHolds, PTL DEF Spec
-----------------------------------------------------------------------------
(***************************************************************************)
(* The temporary files.  A whole image is only ever in a file that a       *)
(* clean-up knows: BOLT's two outputs and the candidates on record.        *)
(***************************************************************************)
Held == {Raw, Aligned} \cup PathsOf(cands) \cup PathsOf(bests)

Undecided == {"backup", "normalize", "bolt", "wait", "align", "decide"} \cup Build

\* The temporaries of fixed name, gone when their part is over.
FixedInv ==
    /\ pc \notin {"backup", "normalize", "noBackup"} => fs[Normalized] = Absent
    /\ pc = "install" => \A t \in {Raw, Aligned} \ {selected} : fs[t] = Absent
    /\ pc \in {"restoreGuard", "kept", "installed", "installFailed"} =>
          fs[Raw] = Absent /\ fs[Aligned] = Absent

\* The complete temporaries are among ps.
Within(f, ps) == \A t \in Temps : f[t].image \in Complete => t \in ps

TempInv ==
    /\ pc \in Undecided => Within(fs, Held)
    /\ pc = "install" => Within(fs, {selected})
    /\ pc \in {"restoreGuard", "kept", "installed", "installFailed"} => Within(fs, {})

LEMMA TempsArePaths ==
    Temps \subseteq Path /\ Obj \notin Temps /\ Backup \notin Temps
BY DEF Temps, Path, Obj, Backup, Normalized, Raw, Aligned

\* A step that writes one file leaves the others as they were.
LEMMA WithinWrite ==
    ASSUME Types, NEW ps, Within(fs, ps), NEW q \in Path, NEW f,
           \/ q \in ps \/ q \notin Temps \/ f = fs[q] \/ f.image \notin Complete
    PROVE  Within(Write(q, f), ps)
<1> SUFFICES ASSUME NEW t \in Temps, Write(q, f)[t].image \in Complete PROVE t \in ps
  BY DEF Within
<1>1. t \in Path
  BY TempsArePaths
<1>2. CASE t = q
  BY <1>1, <1>2 DEF Write, Types, Within
<1>3. CASE t # q
  BY <1>1, <1>3 DEF Write, Types, Within
<1> QED BY <1>2, <1>3

LEMMA WithinUnlink ==
    ASSUME Types, NEW ps, Within(fs, ps), NEW qs
    PROVE  Within(Unlink(qs), ps \ qs)
<1> SUFFICES ASSUME NEW t \in Temps, Unlink(qs)[t].image \in Complete PROVE t \in ps \ qs
  BY DEF Within
<1>1. t \in Path
  BY TempsArePaths
<1>2. Absent.image \notin Complete
  BY DEF Absent, Complete
<1>3. t \notin qs
  BY <1>1, <1>2 DEF Unlink
<1>4. Unlink(qs)[t] = fs[t]
  BY <1>1, <1>3 DEF Unlink
<1> QED BY <1>3, <1>4 DEF Within

LEMMA WithinMore == ASSUME NEW f, NEW ps, NEW qs, Within(f, ps), ps \subseteq qs
                    PROVE  Within(f, qs)
BY DEF Within

\* What a failed command leaves is no complete image, unless it was there before.
LEMMA DamagedWhole ==
    ASSUME NEW q, NEW f \in Damaged(q) PROVE f = fs[q] \/ f.image \notin Complete
BY DEF Damaged, Complete

LEMMA InitTemps == Init => TempInv
<1> SUFFICES ASSUME Init PROVE TempInv
  OBVIOUS
<1>1. pc = "backup"
  BY DEF Init
<1>2. PICK left \in Leftovers :
         fs = [p \in Path |-> IF p = Obj THEN linked ELSE left[p]]
  BY DEF Init
<1>3. \A t \in Path \ {Obj} : left[t].image \notin Complete
  <2> TAKE t \in Path \ {Obj}
  <2>1. left[t] \in {Absent} \cup [image : Foreign, size : 0 .. MaxSize]
    BY LeftoversAssumption
  <2> QED BY <2>1 DEF Absent, Complete, Foreign
<1>4. Within(fs, Held)
  BY <1>2, <1>3, TempsArePaths DEF Within
<1> QED BY <1>1, <1>4 DEF TempInv

\* The steps up to the competition touch Raw, Aligned and no other temporary.
LEMMA EarlyTemps ==
    ASSUME IInv, TempInv, SaveBackup \/ Normalize \/ RunBolt \/ WaitForFile \/ AlignOnly
    PROVE  TempInv'
<1>1. /\ Types /\ pc \in Undecided /\ Within(fs, Held)
  BY DEF IInv, TempInv, Undecided, SaveBackup, Normalize, RunBolt, WaitForFile, AlignOnly
<1>2. /\ pc' \in {"normalize", "noBackup", "bolt", "notNormalized", "wait", "restoreBolt",
                  "align", "plain"}
      /\ Held' = Held
  BY DEF SaveBackup, Normalize, RunBolt, WaitForFile, AlignOnly, Held, PathsOf
<1>3. Within(fs', Held)
  <2>1. CASE fs' = fs
    BY <1>1, <2>1 DEF Within
  <2>2. ASSUME NEW f, fs' = Write(Backup, f) PROVE Within(fs', Held)
    BY <1>1, <2>2, WithinWrite, TempsArePaths, PathsDistinct
  <2>3. ASSUME NEW f, fs' = Write(Raw, f) \/ fs' = Write(Aligned, f)
        PROVE  Within(fs', Held)
    BY <1>1, <2>3, WithinWrite, PathsDistinct DEF Held
  <2>4. CASE Normalize
    <3>1. Within(Unlink({Normalized}), Held)
      <4>1. Within(Unlink({Normalized}), Held \ {Normalized})
        BY <1>1, WithinUnlink
      <4> QED BY <4>1, WithinMore
    <3>2. ASSUME NEW f, fs' = [Unlink({Normalized}) EXCEPT ![Obj] = f]
          PROVE  Within(fs', Held)
      BY <3>1, <3>2, TempsArePaths DEF Within, Unlink
    <3> QED BY <2>4, <3>1, <3>2 DEF Normalize
  <2> QED BY <2>1, <2>2, <2>3, <2>4 DEF SaveBackup, RunBolt, WaitForFile, AlignOnly
<1> QED BY <1>2, <1>3 DEF TempInv

\* A candidate's file is on record as soon as it is whole.
LEMMA BuildTemps ==
    ASSUME IInv, IInv', TempInv, AddPlain \/ PackLegacy \/ PackLZ4
    PROVE  TempInv'
<1>1. Types /\ pc \in Build /\ pc \in Undecided /\ Within(fs, Held)
  BY DEF IInv, TempInv, Undecided, AddPlain, PackLegacy, PackLZ4, Pack, Build
<1>2. pc' \in Build /\ bests' = bests
  BY DEF AddPlain, PackLegacy, PackLZ4, Pack, After, Build
<1>3. CASE AddPlain
  <2>1. fs' = fs /\ cands = <<>>
    <3>1. Len(cands) <= 0 /\ Len(cands) \in Nat /\ cands \in Seq(Candidate)
      BY <1>3, <1>1 DEF AddPlain, Types, MaxCands
    <3> QED BY <1>3, <3>1, EmptySeq DEF AddPlain
  <2>2. PathsOf(cands) = {}
    BY <2>1 DEF PathsOf
  <2>3. Held \subseteq Held'
    BY <1>2, <2>2 DEF Held
  <2>4. Within(fs', Held')
    BY <1>1, <2>1, <2>3 DEF Within
  <2> QED BY <1>2, <2>4 DEF TempInv, Undecided, Build
<1>4. ASSUME NEW p \in Packer, Pack(p) PROVE Within(fs', Held')
  <2> DEFINE q == CandPath(src, p)
  <2>1. q \in Path
    BY <1>1, PathsDistinct DEF Types
  <2>2. CASE cands' = cands /\ fs' = fs
    <3>1. Held' = Held
      BY <1>2, <2>2 DEF Held, PathsOf
    <3> QED BY <1>1, <2>2, <3>1 DEF Within
  <2>3. ASSUME NEW f \in Damaged(q), fs' = Write(q, f), cands' = cands
        PROVE  Within(fs', Held')
    <3>1. Held' = Held
      BY <1>2, <2>3 DEF Held, PathsOf
    <3>2. f = fs[q] \/ f.image \notin Complete
      BY DamagedWhole
    <3> QED BY <1>1, <2>1, <2>3, <3>1, <3>2, WithinWrite
  <2>4. CASE fs' = Unlink({q}) /\ cands' = cands
    <3>1. Held' = Held
      BY <1>2, <2>4 DEF Held, PathsOf
    <3>2. Within(fs', Held \ {q})
      BY <1>1, <2>4, WithinUnlink
    <3> QED BY <3>1, <3>2, WithinMore
  <2>5. ASSUME NEW n \in 1 .. MaxSize,
               fs' = Write(q, Packed(n)),
               cands' = Append(cands, [path |-> q, size |-> n])
        PROVE  Within(fs', Held')
    <3> DEFINE c == [path |-> q, size |-> n]
    <3>1. cands \in Seq(Candidate) /\ c \in Candidate /\ Len(cands) \in Nat
      BY <1>1, <2>1 DEF Types, Candidate
    <3>2. /\ DOMAIN cands = 1 .. Len(cands) /\ DOMAIN cands' = 1 .. (Len(cands) + 1)
          /\ \A i \in 1 .. Len(cands) : cands'[i] = cands[i]
          /\ cands'[Len(cands) + 1] = c
      BY <2>5, <3>1, AppendProperties
    <3>3. c.path = q
      OBVIOUS
    <3> HIDE DEF c
    <3>4. q \in PathsOf(cands')
      <4>1. Len(cands) + 1 \in DOMAIN cands'
        BY <3>1, <3>2
      <4> QED BY <4>1, <3>2, <3>3 DEF PathsOf
    <3>5. PathsOf(cands) \subseteq PathsOf(cands')
      <4> SUFFICES ASSUME NEW i \in DOMAIN cands PROVE cands[i].path \in PathsOf(cands')
        BY DEF PathsOf
      <4>1. i \in DOMAIN cands' /\ cands'[i] = cands[i]
        BY <3>1, <3>2
      <4> QED BY <4>1 DEF PathsOf
    <3>6. Held \subseteq Held' /\ q \in Held'
      BY <3>4, <3>5, <1>2 DEF Held
    <3>7. Within(fs, Held')
      BY <1>1, <3>6, WithinMore
    <3> QED BY <1>1, <2>1, <2>5, <3>6, <3>7, WithinWrite
  <2>6. ASSUME NEW n \in 0 .. MaxSize,
               fs' = IF n > 0 THEN Write(q, Packed(n))
                     ELSE Unlink({q}),
               cands' = AddCandidate(cands, q, Packed(n))
        PROVE  Within(fs', Held')
    <3>1. CASE n > 0
      <4>1. n \in 1 .. MaxSize
        BY <3>1, BoundsAssumption
      <4> QED BY <4>1, <3>1, <2>5, <2>6 DEF AddCandidate, Packed
    <3>2. CASE ~(n > 0)
      BY <3>2, <2>4, <2>6 DEF AddCandidate, Packed
    <3> QED BY <3>1, <3>2
  <2>7. \/ fs' = fs /\ cands' = cands
        \/ \E f \in Damaged(q) : fs' = Write(q, f) /\ cands' = cands
        \/ fs' = Unlink({q}) /\ cands' = cands
        \/ \E n \in 0 .. MaxSize :
              /\ fs' = IF n > 0 THEN Write(q, Packed(n))
                       ELSE Unlink({q})
              /\ cands' = AddCandidate(cands, q, Packed(n))
    BY <1>4 DEF Pack, Rejected, Packed
  <2> HIDE DEF q
  <2> QED BY <2>2, <2>3, <2>4, <2>6, <2>7
<1>5. CASE PackLegacy \/ PackLZ4
  <2>1. \E p \in Packer : Pack(p)
    BY <1>5 DEF PackLegacy, PackLZ4, Packer
  <2>2. Within(fs', Held')
    BY <2>1, <1>4
  <2> QED BY <1>2, <2>2 DEF TempInv, Undecided, Build
<1> QED BY <1>3, <1>5

\* The losers go, the winner moves to the other list; a source's input is
\* either held as Aligned or no temporary.
LEMMA SelectTemps == ASSUME IInv, TempInv, Select PROVE TempInv'
<1> DEFINE w == cands[Best(cands)].path
<1>1. Types /\ pc = "select" /\ Within(fs, Held) /\ src \in Source
  BY DEF IInv, TempInv, Undecided, Select, Build, Types
<1>2. pc' \in {"plain", "decide"} /\ cands' = <<>> /\ PathsOf(cands') = {}
  BY DEF Select, PathsOf
<1>3. CASE cands = <<>>
  <2>1. fs' = fs /\ Held' = Held
    BY <1>2, <1>3 DEF Select, Held, PathsOf
  <2>2. Within(fs', Held')
    BY <1>1, <2>1 DEF Within
  <2> QED BY <1>2, <2>2 DEF TempInv
<1>4. CASE cands # <<>>
  <2>1. /\ fs' = Unlink(Losers(cands))
        /\ \E d : d.path = w /\ bests' = Append(bests, d) /\ d \in Candidate
    <3>1. Best(cands) \in DOMAIN cands /\ cands[Best(cands)] \in Candidate
      <4>1. Best(cands) \in DOMAIN cands
        BY <1>1, <1>4, BestExists DEF Types, MaxCands
      <4> QED BY <4>1, <1>1 DEF Types
    <3>2. Good(fs, stray, cands[Best(cands)])
      BY <3>1 DEF IInv, CandsInv
    <3>3. [path |-> w, size |-> fileSizeOf(w)] \in Candidate
      BY <3>1, <3>2 DEF Good, Candidate, fileSizeOf
    <3> QED BY <3>3, <1>4 DEF Select
  <2>2. PICK d : d.path = w /\ bests' = Append(bests, d) /\ d \in Candidate
    BY <2>1
  <2>3. bests \in Seq(Candidate) /\ Len(bests) \in Nat
    BY <1>1 DEF Types
  <2>4. /\ DOMAIN bests = 1 .. Len(bests) /\ DOMAIN bests' = 1 .. (Len(bests) + 1)
        /\ \A i \in 1 .. Len(bests) : bests'[i] = bests[i]
        /\ bests'[Len(bests) + 1] = d
    BY <2>2, <2>3, AppendProperties
  <2> HIDE DEF w
  <2>5. w \in PathsOf(bests')
    <3>1. Len(bests) + 1 \in DOMAIN bests'
      BY <2>3, <2>4
    <3> QED BY <3>1, <2>2, <2>4 DEF PathsOf
  <2>6. PathsOf(bests) \subseteq PathsOf(bests')
    <3> SUFFICES ASSUME NEW i \in DOMAIN bests PROVE bests[i].path \in PathsOf(bests')
      BY DEF PathsOf
    <3>1. i \in DOMAIN bests' /\ bests'[i] = bests[i]
      BY <2>3, <2>4
    <3> QED BY <3>1 DEF PathsOf
  <2>7. Within(fs', Held \ Losers(cands))
    BY <1>1, <2>1, WithinUnlink
  <2>8. \A t \in Temps : t \in Held \ Losers(cands) => t \in Held'
    <3>1. Input(src) \in {Aligned, Backup}
      BY <1>1, PathsDistinct DEF Source
    <3>2. PathsOf(cands) \ Losers(cands) \subseteq {w, Input(src)}
      BY DEF Losers, w
    <3> QED BY <1>2, <2>5, <2>6, <3>1, <3>2, TempsArePaths DEF Held
  <2>9. Within(fs', Held')
    BY <2>7, <2>8 DEF Within
  <2> QED BY <1>2, <2>9 DEF TempInv
<1> QED BY <1>3, <1>4

\* Both decisions remove all that is held but the file to be installed.
LEMMA DecideTemps ==
    ASSUME IInv, TempInv, KeepPreBolt \/ ChooseSmallest \/ Install \/ Restore
    PROVE  TempInv'
<1>1. Types
  BY DEF IInv
<1>2. CASE KeepPreBolt
  <2> DEFINE qs == (PathsOf(bests) \ {Backup}) \cup {Raw, Aligned}
  <2>1. pc = "decide" /\ pc' = "restoreGuard" /\ fs' = Unlink(qs) /\ Within(fs, Held)
    BY <1>2 DEF KeepPreBolt, TempInv, Undecided
  <2>2. PathsOf(cands) = {}
    BY <1>1, <2>1, NoneYet DEF Build, PathsOf
  <2>3. Within(fs', Held \ qs)
    BY <1>1, <2>1, WithinUnlink
  <2>4. Within(fs', {})
    BY <2>2, <2>3, TempsArePaths DEF Held, Within
  <2> QED BY <2>1, <2>4 DEF TempInv, Undecided, Build
<1>3. CASE ChooseSmallest
  <2> DEFINE c == bests[Best(bests)].path
  <2>1. /\ pc = "decide" /\ pc' = "install" /\ selected' = c
        /\ fs' = Unlink(Cleanup(c)) /\ Within(fs, Held)
    BY <1>3 DEF ChooseSmallest, TempInv, Undecided
  <2>2. PathsOf(cands) = {}
    BY <1>1, <2>1, NoneYet DEF Build, PathsOf
  <2> HIDE DEF c
  <2>3. Within(fs', Held \ Cleanup(c))
    BY <1>1, <2>1, WithinUnlink
  <2>4. Held \ Cleanup(c) \subseteq {c}
    BY <2>2 DEF Held, Cleanup
  <2>5. Within(fs', {c})
    BY <2>3, <2>4, WithinMore
  <2> QED BY <2>1, <2>5 DEF TempInv, Undecided, Build
<1>4. CASE Install
  <2> DEFINE u == Unlink({selected} \ {Backup})
  <2>1. /\ pc' \in {"installed", "installFailed"} /\ Within(fs, {selected})
        /\ \E f : fs' = [u EXCEPT ![Obj] = f]
    BY <1>4 DEF Install, TempInv
  <2>2. Within(u, {selected} \ ({selected} \ {Backup}))
    BY <1>1, <2>1, WithinUnlink
  <2>3. u \in [Path -> File \cup {Absent}]
    BY <1>1, UnlinkTyped
  <2> HIDE DEF u
  <2>4. Within(u, {})
    BY <2>2, TempsArePaths DEF Within
  <2>5. Within(fs', {})
    BY <2>1, <2>3, <2>4, TempsArePaths DEF Within
  <2> QED BY <2>1, <2>5 DEF TempInv, Undecided, Build
<1>5. CASE Restore
  <2>1. /\ \E f : fs' = Write(Obj, f)
        /\ pc' \in {"boltFailed", "kept", "restoreFailed"}
        /\ pc' = "kept" => Within(fs, {})
    BY <1>5 DEF Restore, TempInv
  <2>2. pc' = "kept" => Within(fs', {})
    BY <1>1, <2>1, WithinWrite, TempsArePaths, PathsDistinct
  <2> QED BY <2>1, <2>2 DEF TempInv, Undecided, Build
<1> QED BY <1>2, <1>3, <1>4, <1>5

\* Every clean-up knows the files of fixed name.
LEMMA FixedStep == ASSUME IInv, FixedInv, [Next]_vars PROVE FixedInv'
<1>1. Types /\ src \in Source
  BY DEF IInv, Types
<1>2. \A Q : \A r \in Path : Unlink(Q)[r] = IF r \in Q THEN Absent ELSE fs[r]
  BY DEF Unlink
<1>3. \A f : \A q \in Path : \A r \in Path \ {q} : Write(q, f)[r] = fs[r]
  BY <1>1 DEF Write, Types
<1>4. CASE SaveBackup
  BY <1>4 DEF SaveBackup, FixedInv
<1>5. CASE Normalize
  <2>1. fs'[Normalized] = Absent
    <3>1. Unlink({Normalized})[Normalized] = Absent
      BY <1>2, PathsDistinct
    <3>2. ASSUME NEW f, fs' = [Unlink({Normalized}) EXCEPT ![Obj] = f]
          PROVE  fs'[Normalized] = Absent
      <4>1. DOMAIN Unlink({Normalized}) = Path
        BY DEF Unlink
      <4> QED BY <3>1, <3>2, <4>1, PathsDistinct
    <3> QED BY <1>5, <3>1, <3>2 DEF Normalize
  <2> QED BY <1>5, <2>1 DEF Normalize, FixedInv
<1>6. CASE RunBolt \/ WaitForFile \/ AlignOnly
  <2>1. /\ pc \in {"bolt", "wait", "align"}
        /\ pc' \in {"wait", "align", "restoreBolt", "plain"}
        /\ fs' = fs \/ (\E q \in {Raw, Aligned} : \E f : fs' = Write(q, f))
    BY <1>6 DEF RunBolt, WaitForFile, AlignOnly
  <2>2. fs'[Normalized] = fs[Normalized]
    BY <2>1, <1>3, PathsDistinct
  <2> QED BY <2>1, <2>2 DEF FixedInv
<1>7. CASE AddPlain \/ PackLegacy \/ PackLZ4
  <2>1. pc \in Build /\ pc' \in Build
    BY <1>7 DEF AddPlain, PackLegacy, PackLZ4, Pack, After, Build
  <2>2. fs'[Normalized] = fs[Normalized]
    <3>1. ASSUME NEW k \in Packer, Pack(k) PROVE fs'[Normalized] = fs[Normalized]
      <4>1. \A r \in Path \ {CandPath(src, k)} : fs'[r] = fs[r]
        BY <3>1, PackEffect
      <4> QED BY <4>1, <1>1, PathsDistinct
    <3> QED BY <1>7, <3>1 DEF AddPlain, PackLegacy, PackLZ4, Packer
  <2> QED BY <2>1, <2>2 DEF FixedInv, Build
<1>8. CASE Select
  <2>1. /\ pc = "select" /\ pc' \in {"plain", "decide"}
        /\ fs' = fs \/ fs' = Unlink(Losers(cands))
    BY <1>8 DEF Select
  <2>2. fs'[Normalized] = fs[Normalized] \/ fs'[Normalized] = Absent
    BY <2>1, <1>2, PathsDistinct
  <2> QED BY <2>1, <2>2 DEF FixedInv
<1>9. CASE KeepPreBolt
  <2> DEFINE Q == (PathsOf(bests) \ {Backup}) \cup {Raw, Aligned}
  <2>1. pc = "decide" /\ pc' = "restoreGuard" /\ fs' = Unlink(Q)
    BY <1>9 DEF KeepPreBolt
  <2>2. Raw \in Q /\ Aligned \in Q
    OBVIOUS
  <2> HIDE DEF Q
  <2>3. /\ fs'[Raw] = Absent /\ fs'[Aligned] = Absent
        /\ fs'[Normalized] = fs[Normalized] \/ fs'[Normalized] = Absent
    BY <2>1, <2>2, <1>2, PathsDistinct
  <2> QED BY <2>1, <2>3 DEF FixedInv
<1>10. CASE ChooseSmallest
  <2> DEFINE c == bests[Best(bests)].path
  <2>1. /\ pc = "decide" /\ pc' = "install" /\ selected' = c
        /\ fs' = Unlink(Cleanup(c))
    BY <1>10 DEF ChooseSmallest
  <2> HIDE DEF c
  <2>2. \A t \in {Raw, Aligned} \ {c} : t \in Cleanup(c)
    BY DEF Cleanup
  <2>3. /\ \A t \in {Raw, Aligned} \ {c} : fs'[t] = Absent
        /\ fs'[Normalized] = fs[Normalized] \/ fs'[Normalized] = Absent
    BY <2>1, <2>2, <1>2, PathsDistinct
  <2> QED BY <2>1, <2>3 DEF FixedInv
<1>11. CASE Install
  <2> DEFINE u == Unlink({selected} \ {Backup})
  <2>1. /\ pc = "install" /\ pc' \in {"installed", "installFailed"}
        /\ \E f : fs' = [u EXCEPT ![Obj] = f]
    BY <1>11 DEF Install
  <2>2. DOMAIN u = Path
    BY DEF Unlink
  <2>3. \A r \in Path \ {Backup} : u[r] = IF r = selected THEN Absent ELSE fs[r]
    BY <1>2
  <2> HIDE DEF u
  <2>4. \A r \in {Raw, Aligned, Normalized} : fs'[r] = u[r]
    BY <2>1, <2>2, PathsDistinct
  <2>5. \A r \in {Raw, Aligned, Normalized} : fs[r] = Absent \/ r = selected
    BY <2>1 DEF FixedInv
  <2>6. \A r \in {Raw, Aligned, Normalized} : fs'[r] = Absent
    BY <2>3, <2>4, <2>5, PathsDistinct
  <2> QED BY <2>1, <2>6 DEF FixedInv
<1>12. CASE Restore
  <2>1. /\ pc \in {"restoreBolt", "restoreGuard"}
        /\ pc' \in {"boltFailed", "kept", "restoreFailed"}
        /\ pc' = "kept" => pc = "restoreGuard"
        /\ \E f : fs' = Write(Obj, f)
    BY <1>12 DEF Restore
  <2>2. \A r \in {Raw, Aligned, Normalized} : fs'[r] = fs[r]
    BY <2>1, <1>3, PathsDistinct
  <2> QED BY <2>1, <2>2 DEF FixedInv
<1>13. CASE UNCHANGED vars
  BY <1>13 DEF vars, FixedInv
<1> QED BY <1>4, <1>5, <1>6, <1>7, <1>8, <1>9, <1>10, <1>11, <1>12, <1>13 DEF Next, Done

(***************************************************************************)
(* Once a candidate was installed or the size guard kept the original, the *)
(* three temporaries of fixed name are gone and no candidate file holds a  *)
(* complete image of this link, whatever was unlinked, rejected or failed  *)
(* on the way.                                                             *)
(***************************************************************************)
THEOREM TempsGone == Spec => []TempsRemoved
<1>1. IInv /\ IInv' /\ TempInv /\ [Next]_vars => TempInv'
  <2> SUFFICES ASSUME IInv, IInv', TempInv, [Next]_vars PROVE TempInv'
    OBVIOUS
  <2>1. CASE SaveBackup \/ Normalize \/ RunBolt \/ WaitForFile \/ AlignOnly
    BY <2>1, EarlyTemps
  <2>2. CASE AddPlain \/ PackLegacy \/ PackLZ4
    BY <2>2, BuildTemps
  <2>3. CASE Select
    BY <2>3, SelectTemps
  <2>4. CASE KeepPreBolt \/ ChooseSmallest \/ Install \/ Restore
    BY <2>4, DecideTemps
  <2>5. CASE UNCHANGED vars
    BY <2>5 DEF vars, TempInv, Within, Held, PathsOf
  <2> QED BY <2>1, <2>2, <2>3, <2>4, <2>5 DEF Next, Done
<1>2. TempInv /\ FixedInv => TempsRemoved
  BY DEF TempInv, FixedInv, TempsRemoved, Within
<1>3. Init => FixedInv
  BY DEF Init, FixedInv
<1>4. IInv /\ FixedInv /\ [Next]_vars => FixedInv'
  BY FixedStep
<1> QED BY InitTemps, <1>1, <1>2, <1>3, <1>4, IInvHolds, PTL DEF Spec
=============================================================================
