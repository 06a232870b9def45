--------------------------- MODULE GoldImagesProofs ---------------------------
(***************************************************************************)
(* Proofs about GoldImages, for any VMs and images and any number of       *)
(* failing commands and kills.                                             *)
(***************************************************************************)
EXTENDS GoldImages, FiniteSetTheorems, TLAPS

Steps   == {"fetch", "downloading", "unpack", "untar", "create",
            "setUuid", "copy", "clone", "done", "failed"}

(* A step of a create that has got hold of the lock.                       *)
Locked == {"untar", "clone"}

Typed == /\ archive \in [Files -> Contents] /\ gold \in [Images -> Contents]
         /\ disk \in [VMs -> Contents]
         /\ pc \in [VMs -> Steps]
         /\ mutex \subseteq VMs /\ halfway \subseteq VMs
         /\ faults \in 0..MaxFaults /\ kills \in 0..MaxKills

(* Sources and their files are there.                                      *)
LEMMA SourcesAreImages ==
  ASSUME NEW v \in VMs
  PROVE  Source[v] \in Images /\ FileOf(v) \in Files
BY ConstantsAssumption DEF FileOf, Files

LEMMA FaultIsTyped ==
  ASSUME Typed, Fault \/ NoFault
  PROVE  faults' \in 0..MaxFaults /\ kills' \in 0..MaxKills
BY ConstantsAssumption DEF Typed, Fault, NoFault

(* A step of one create keeps the types.                                   *)
LEMMA CreateTyped ==
  ASSUME Typed, NEW v \in VMs, Create(v)
  PROVE  Typed'
<1> USE SourcesAreImages DEF Typed, Goto, Fail, SetArchive, SetGold, Contents, files
<1>1. CASE Fetch(v)
  BY <1>1, FaultIsTyped DEF Fetch, Steps
<1>2. CASE Download(v)
  <2>1. archive' \in [Files -> Contents]
    BY <1>2 DEF Download
  <2> QED
    BY <1>2, <2>1, FaultIsTyped DEF Download, Steps
<1>3. CASE BeginUnpack(v)
  BY <1>3, FaultIsTyped DEF BeginUnpack, Steps
<1>4. CASE Untar(v)
  <2>1. gold' \in [Images -> Contents] /\ (Fault \/ NoFault)
    BY <1>4 DEF Untar
  <2> QED
    BY <1>4, <2>1, FaultIsTyped DEF Untar, Steps
<1>5. CASE CreateMachine(v)
  BY <1>5, FaultIsTyped DEF CreateMachine, Refused, Steps
<1>6. CASE SetHDUuid(v)
  BY <1>6, FaultIsTyped DEF SetHDUuid, Refused, Steps
<1>7. CASE LockForClone(v)
  BY <1>7, FaultIsTyped DEF LockForClone, Steps
<1>8. CASE CloneHD(v)
  <2>1. Cloned(v) \subseteq Contents
    BY DEF Cloned
  <2>2. disk' \in [VMs -> Contents]
    BY <1>8, <2>1 DEF CloneHD, Refused
  <2> QED
    BY <1>8, <2>2, FaultIsTyped DEF CloneHD, Refused, Steps
<1> QED
  BY <1>1, <1>2, <1>3, <1>4, <1>5, <1>6, <1>7, <1>8 DEF Create

(* What a kill, or the end of a tar that has outlived one, does to the     *)
(* gold directories: only those that tar writes change.                    *)
LEMMA KillLeaves ==
  ASSUME Typed, Kill
  PROVE  /\ gold' \in [Images -> Contents]
         /\ \A i \in Images \ Unpacking : gold'[i] = gold[i]
         /\ \A i \in Unpacking : gold'[i] \in {"none", "partial", "unpacking"}
<1>1. PICK left \in [Unpacking -> {"none", "partial", "unpacking"}] :
        gold' = [i \in Images |-> IF i \in Unpacking THEN left[i] ELSE gold[i]]
  BY DEF Kill
<1>2. Unpacking \subseteq Images
  BY SourcesAreImages DEF Unpacking
<1> QED
  BY <1>1, <1>2 DEF Typed, Contents

LEMMA TarLeaves ==
  ASSUME Typed, NEW i \in Images, TarEnds(i)
  PROVE  /\ gold' \in [Images -> Contents] /\ gold[i] = "unpacking" /\ i \notin Unpacking
         /\ \A j \in Images \ {i} : gold'[j] = gold[j]
         /\ gold'[i] = "partial" \/ (gold'[i] \in Images /\ gold'[i] = archive[File[i]])
BY DEF TarEnds, Typed, Contents

LEMMA KillTyped ==
  ASSUME Typed, Kill
  PROVE  Typed'
<1>1. gold' \in [Images -> Contents]
  BY KillLeaves
<1> QED
  BY <1>1, ConstantsAssumption DEF Kill, Typed, Steps

LEMMA TarTyped ==
  ASSUME Typed, NEW i \in Images, TarEnds(i)
  PROVE  Typed'
<1>1. gold' \in [Images -> Contents]
  BY TarLeaves
<1> QED
  BY <1>1 DEF TarEnds, Typed

(* The types hold throughout.                                              *)
LEMMA TypedThroughout == Spec => []Typed
<1>1. Init => Typed
  BY ConstantsAssumption DEF Init, Typed, Contents, Steps
<1>2. Typed /\ [Next]_vars => Typed'
  BY CreateTyped, KillTyped, TarTyped DEF Next, vars, Typed
<1> QED
  BY <1>1, <1>2, PTL DEF Spec

-----------------------------------------------------------------------------
(* Whoever unpacks or clones holds the mutex alone. The directory that one *)
(* unpacks into is in the state "unpacking", and nobody has got past       *)
(* unpackImage with it; whoever has, has found or left files in its own.   *)
MutexHeld  == /\ mutex = {} \/ \E v \in VMs : mutex = {v}
              /\ \A v \in VMs : pc[v] \in Locked => mutex = {v}
PastIt     == {"create", "setUuid", "copy", "clone"}
BeingMade  == \A v \in VMs : pc[v] = "untar" =>
                /\ gold[Source[v]] = "unpacking"
                /\ \A w \in VMs : Source[w] = Source[v] => pc[w] \notin PastIt
InUse      == \A v \in VMs : pc[v] \in PastIt => gold[Source[v]] # "none"

LockInv == MutexHeld /\ BeingMade /\ InUse

LEMMA NextLockInv ==
  ASSUME Typed, Typed', LockInv, [Next]_vars
  PROVE  LockInv'
<1> USE ConstantsAssumption, SourcesAreImages
    DEF LockInv, MutexHeld, BeingMade, InUse, Typed, Goto, Fail, SetGold, files, Unpacking, Locked
<1>1. ASSUME NEW v \in VMs, Fetch(v) \/ Download(v)
      PROVE  LockInv'
  BY <1>1 DEF Fetch, Download, PastIt
<1>2. ASSUME NEW v \in VMs, BeginUnpack(v)
      PROVE  LockInv'
  <2>1. MutexHeld'
    BY <1>2 DEF BeginUnpack
  <2>2. CASE gold[Source[v]] = "none"
    <3>1. \A w \in VMs : Source[w] = Source[v] => pc[w] \notin PastIt
      BY <2>2
    <3>2. \A w \in VMs : pc[w] # "untar"
      BY <1>2 DEF BeginUnpack
    <3>3. /\ \A i \in Images \ {Source[v]} : gold'[i] = gold[i]
          /\ gold'[Source[v]] = "unpacking" /\ pc'[v] = "untar"
          /\ \A w \in VMs \ {v} : pc'[w] = pc[w]
      BY <1>2, <2>2 DEF BeginUnpack
    <3>4. BeingMade'
      BY <3>1, <3>2, <3>3 DEF PastIt
    <3>5. InUse'
      BY <3>1, <3>3 DEF PastIt
    <3> QED
      BY <2>1, <3>4, <3>5
  <2>3. CASE gold[Source[v]] # "none"
    <3>1. \A w \in VMs : pc[w] # "untar"
      BY <1>2 DEF BeginUnpack
    <3>2. gold' = gold /\ pc'[v] = "create" /\ \A w \in VMs \ {v} : pc'[w] = pc[w]
      BY <1>2, <2>3 DEF BeginUnpack
    <3> QED
      BY <2>1, <2>3, <3>1, <3>2
  <2> QED
    BY <2>2, <2>3
<1>3. ASSUME NEW v \in VMs, Untar(v)
      PROVE  LockInv'
  <2>1. mutex = {v} /\ mutex' = {} /\ gold[Source[v]] = "unpacking"
    BY <1>3 DEF Untar
  <2>2. /\ \A i \in Images \ {Source[v]} : gold'[i] = gold[i]
        /\ gold'[Source[v]] # "unpacking"
        /\ pc'[v] = "create" => gold'[Source[v]] # "none"
        /\ pc'[v] \in {"create", "failed"} /\ \A w \in VMs \ {v} : pc'[w] = pc[w]
    BY <1>3 DEF Untar
  <2>3. \A w \in VMs \ {v} : pc[w] \notin Locked
    BY <2>1
  <2>4. MutexHeld'
    BY <2>1, <2>2, <2>3
  <2>5. BeingMade'
    <3>1. \A w \in VMs : pc'[w] # "untar"
      BY <2>2, <2>3
    <3> QED
      BY <3>1
  <2>6. ASSUME NEW w \in VMs, pc'[w] \in PastIt
        PROVE  gold'[Source[w]] # "none"
    <3>1. CASE w = v
      BY <3>1, <2>6, <2>2 DEF PastIt
    <3>2. CASE w # v
      <4>1. pc[w] \in PastIt
        BY <3>2, <2>6, <2>2
      <4>2. Source[w] # Source[v]
        BY <4>1, <1>3 DEF Untar
      <4> QED
        BY <4>1, <4>2, <2>2
    <3> QED
      BY <3>1, <3>2
  <2> QED
    BY <2>4, <2>5, <2>6
<1>4. ASSUME NEW v \in VMs, CreateMachine(v) \/ SetHDUuid(v)
      PROVE  LockInv'
  <2>1. gold' = gold /\ mutex' = mutex /\ pc[v] \in PastIt
        /\ pc'[v] \in {"setUuid", "copy", "failed"} /\ \A w \in VMs \ {v} : pc'[w] = pc[w]
    BY <1>4 DEF CreateMachine, SetHDUuid, Refused, PastIt
  <2>2. MutexHeld'
    BY <2>1
  <2>3. BeingMade'
    BY <2>1
  <2>4. InUse'
    BY <2>1
  <2> QED
    BY <2>2, <2>3, <2>4
<1>5. ASSUME NEW v \in VMs, LockForClone(v) \/ CloneHD(v)
      PROVE  LockInv'
  <2>1. MutexHeld'
    <3>1. CASE LockForClone(v)
      <4>1. mutex = {} /\ mutex' = {v} /\ \A w \in VMs \ {v} : pc'[w] = pc[w]
        BY <3>1 DEF LockForClone
      <4> QED
        BY <4>1
    <3>2. CASE CloneHD(v)
      <4>1. /\ pc[v] = "clone" /\ mutex' = mutex \ {v} /\ pc'[v] \in {"done", "failed"}
            /\ \A w \in VMs \ {v} : pc'[w] = pc[w]
        BY <3>2 DEF CloneHD, Refused
      <4>2. mutex = {v}
        BY <4>1
      <4> QED
        BY <4>1, <4>2
    <3> QED
      BY <1>5, <3>1, <3>2
  <2>2. gold' = gold /\ pc[v] \in PastIt /\ pc'[v] # "untar"
        /\ \A w \in VMs \ {v} : pc'[w] = pc[w]
    BY <1>5 DEF LockForClone, CloneHD, Refused, PastIt
  <2>3. BeingMade'
    BY <2>2
  <2>4. InUse'
    BY <2>2
  <2> QED
    BY <2>1, <2>3, <2>4
<1>6. CASE Kill
  BY <1>6, KillLeaves DEF Kill, PastIt
<1>7. CASE UNCHANGED vars
  BY <1>7 DEF vars
<1>8. ASSUME NEW i \in Images, TarEnds(i)
      PROVE  LockInv'
  <2>1. UNCHANGED <<pc, mutex>> /\ gold'[i] # "none" /\ i \notin Unpacking
        /\ \A j \in Images \ {i} : gold'[j] = gold[j]
    BY <1>8, TarLeaves DEF TarEnds
  <2> QED
    BY <2>1
<1> QED
  BY <1>1, <1>2, <1>3, <1>4, <1>5, <1>6, <1>7, <1>8 DEF Next, Create

LEMMA LockInvHolds == Spec => [](Typed /\ LockInv)
<1>1. Init => LockInv
  BY ConstantsAssumption, SourcesAreImages
     DEF Init, LockInv, MutexHeld, BeingMade, InUse, PastIt, Locked, Unpacking
<1> QED
  BY <1>1, NextLockInv, TypedThroughout, PTL DEF Spec

(* The types, and that the mutex has one holder at most.                   *)
THEOREM TypeCorrect == Spec => []TypeOK
<1>1. ASSUME Typed, LockInv
      PROVE  TypeOK
  <2>1. Cardinality(mutex) = 0 \/ Cardinality(mutex) = 1
    BY <1>1, FS_EmptySet, FS_Singleton DEF LockInv, MutexHeld
  <2>2. Cardinality(mutex) <= 1
    BY <2>1
  <2> QED
    BY <1>1, <2>2 DEF TypeOK, Typed, Steps
<1> QED
  BY <1>1, LockInvHolds, PTL

(* A gold directory that is complete is never written again, whatever      *)
(* fails, whatever is killed, and whichever images share a file: tar       *)
(* writes only where the creating VM has found nothing.                    *)
THEOREM CompleteGoldStays == Spec => CompleteGoldIsFinal
<1>1. ASSUME Typed, LockInv, [Next]_vars, NEW i \in Images, gold[i] = i
      PROVE  gold'[i] = i
  <2> USE ConstantsAssumption, SourcesAreImages DEF Typed, SetGold, files
  <2>1. ASSUME NEW v \in VMs, Create(v)
        PROVE  gold'[i] = i
    <3>1. gold[Source[v]] = i /\ Source[v] = i => pc[v] # "untar" /\ gold[Source[v]] # "none"
      BY <1>1 DEF LockInv, BeingMade
    <3>2. CASE UNCHANGED gold
      BY <1>1, <3>2
    <3>3. CASE BeginUnpack(v)
      BY <1>1, <3>1, <3>3 DEF BeginUnpack
    <3>4. CASE Untar(v)
      BY <1>1, <3>1, <3>4 DEF Untar
    <3> QED
      BY <2>1, <3>2, <3>3, <3>4
      DEF Create, Fetch, Download, CreateMachine, SetHDUuid, LockForClone, CloneHD
  <2>2. CASE Kill
    <3>1. i \notin Unpacking
      BY <1>1 DEF LockInv, BeingMade, Unpacking
    <3> QED
      BY <1>1, <2>2, <3>1, KillLeaves
  <2>4. ASSUME NEW j \in Images, TarEnds(j)
        PROVE  gold'[i] = i
    BY <1>1, <2>4, TarLeaves
  <2>3. CASE UNCHANGED vars
    BY <1>1, <2>3 DEF vars
  <2> QED
    BY <1>1, <2>1, <2>2, <2>3, <2>4 DEF Next
<1>2. Typed /\ LockInv /\ [Next]_vars => [\A i \in Images : gold[i] = i => gold'[i] = i]_vars
  BY <1>1
<1> QED
  BY <1>2, LockInvHolds, PTL DEF Spec, CompleteGoldIsFinal

-----------------------------------------------------------------------------
(* No other machine uses the file into which an image is downloaded.       *)
OwnFiles == \A v, w \in VMs : Source[v] \in Remote /\ FileOf(w) = FileOf(v) => w = v

(* What the archives, the gold directories and the disks hold at each step *)
(* then: while v downloads, a part; the image itself, or an error page, by *)
(* the time it is unpacked; a directory that v has not met half way is     *)
(* whole; and one is half way only after a failure or a kill.              *)
ArchiveInv == \A v \in VMs :
  /\ pc[v] = "downloading" => Source[v] \in Remote /\ archive[FileOf(v)] = "partial"
  /\ Source[v] \notin Remote => archive[FileOf(v)] = Source[v]
  /\ pc[v] \in {"unpack", "untar"} => archive[FileOf(v)] \in {Source[v], "garbage"}
FileInv    == \A v \in VMs : gold[Source[v]] = "unpacking"
                               => archive[FileOf(v)] \in {Source[v], "partial", "garbage"}
GoldInv    == \A i \in Images : /\ gold[i] \in {i, "partial", "none", "unpacking"}
                                /\ gold[i] = "unpacking" => \E v \in VMs : Source[v] = i
WholeInv   == \A v \in VMs : pc[v] \in {"create", "setUuid", "copy", "clone"} /\ v \notin halfway
                               => gold[Source[v]] = Source[v]
DiskInv    == \A v \in VMs : pc[v] = "done" => disk[v] = Source[v] \/ (v \in halfway /\ disk[v] = "partial")
HalfInv    == /\ halfway # {} => faults > 0 \/ kills > 0
              /\ \A i \in Images : \/ gold[i] = "partial"
                                   \/ gold[i] = "unpacking" /\ i \notin Unpacking
                                   => faults > 0 \/ kills > 0

ContentInv == ArchiveInv /\ FileInv /\ GoldInv /\ WholeInv /\ DiskInv /\ HalfInv

(* Nobody else downloads into the file of v.                               *)
LEMMA NoRivals ==
  ASSUME OwnFiles, ContentInv, NEW v \in VMs, Source[v] \in Remote
  PROVE  Rivals(v) = {} /\ ~Mixed(v)
BY DEF Rivals, Mixed, OwnFiles

(* A step of a create on its way to the unpacked image: its archive, the   *)
(* gold directory, and its disk.                                           *)
LEMMA CreateArchive ==
  ASSUME OwnFiles, Typed, Typed', ContentInv, NEW v \in VMs, Create(v)
  PROVE  ArchiveInv'
<1> USE ConstantsAssumption, SourcesAreImages, NoRivals DEF Typed, Goto, Fail, SetArchive
<1>1. \A w \in VMs \ {v} : pc'[w] = pc[w]
  BY DEF Create, Fetch, Download, BeginUnpack, Untar, CreateMachine, SetHDUuid, LockForClone, CloneHD, Refused
<1>2. CASE Fetch(v)
  <2>1. Source[v] \in Remote => \A w \in VMs \ {v} : archive'[FileOf(w)] = archive[FileOf(w)]
    BY <1>2 DEF Fetch, OwnFiles, FileOf
  <2>2. ArchiveInv'
    BY <1>1, <1>2, <2>1 DEF ContentInv, ArchiveInv, Fetch, FileOf
  <2> QED
    BY <2>2
<1>3. CASE Download(v)
  <2>1. Source[v] \in Remote
    BY <1>3 DEF ContentInv, ArchiveInv, Download
  <2>2. \A w \in VMs \ {v} : archive'[FileOf(w)] = archive[FileOf(w)]
    BY <1>3, <2>1 DEF Download, OwnFiles, FileOf
  <2>3. archive'[FileOf(v)] \in {Source[v], "garbage"} \/ (pc'[v] = "failed" /\ UNCHANGED archive)
    BY <1>3, <2>1 DEF Download, ContentInv, ArchiveInv
  <2>4. ArchiveInv'
    BY <1>1, <1>3, <2>1, <2>2, <2>3 DEF ContentInv, ArchiveInv, Download, FileOf
  <2> QED
    BY <2>4
<1>4. CASE UNCHANGED archive
  <2>2. CASE pc[v] \in {"unpack", "untar", "create", "setUuid", "copy", "clone"}
             /\ pc'[v] \in {"untar", "create", "setUuid", "copy", "clone", "done", "failed"}
             /\ (pc'[v] = "untar" => pc[v] = "unpack")
    BY <1>1, <1>4, <2>2 DEF ContentInv, ArchiveInv, FileOf
  <2>3. CASE Fetch(v) \/ Download(v)
    BY <1>2, <1>3, <2>3
  <2> QED
    BY <2>2, <2>3 DEF Create, BeginUnpack, Untar, CreateMachine, SetHDUuid, LockForClone, CloneHD, Refused
<1> QED
  BY <1>2, <1>3, <1>4 DEF Create, BeginUnpack, Untar, CreateMachine, SetHDUuid, LockForClone, CloneHD, files

LEMMA CreateFile ==
  ASSUME OwnFiles, Typed, Typed', LockInv, ContentInv, NEW v \in VMs, Create(v)
  PROVE  FileInv'
<1> USE ConstantsAssumption, SourcesAreImages, NoRivals DEF Typed, Goto, Fail, SetArchive, SetGold, files
<1>1. SUFFICES ASSUME NEW w \in VMs, gold'[Source[w]] = "unpacking"
               PROVE  archive'[FileOf(w)] \in {Source[w], "partial", "garbage"}
  BY DEF FileInv, FileOf
<1>2. CASE Source[w] \notin Remote
  <2>1. archive'[FileOf(w)] = Source[w]
    BY <1>2, CreateArchive DEF ArchiveInv, FileOf
  <2> QED
    BY <2>1
<1>3. CASE Source[w] \in Remote /\ w # v
  <2>1. Source[v] # Source[w] /\ FileOf(v) # FileOf(w)
    BY <1>3 DEF OwnFiles, FileOf
  <2>2. gold'[Source[w]] = gold[Source[w]]
    BY <2>1 DEF Create, Fetch, Download, BeginUnpack, Untar, CreateMachine, SetHDUuid, LockForClone, CloneHD
  <2>3. archive'[FileOf(w)] = archive[FileOf(w)]
    BY <2>1 DEF Create, Fetch, Download, BeginUnpack, Untar, CreateMachine, SetHDUuid, LockForClone, CloneHD
  <2> QED
    BY <1>1, <2>2, <2>3 DEF ContentInv, FileInv
<1>4. CASE Source[w] \in Remote /\ w = v
  <2>1. CASE Fetch(v)
    BY <1>4, <2>1 DEF Fetch
  <2>2. CASE Download(v)
    <3>1. archive[FileOf(v)] = "partial"
      BY <2>2 DEF Download, ContentInv, ArchiveInv
    <3> QED
      BY <1>4, <2>2, <3>1 DEF Download
  <2>3. CASE BeginUnpack(v)
    BY <1>4, <2>3 DEF BeginUnpack, ContentInv, ArchiveInv
  <2>4. CASE Untar(v)
    BY <1>4, <2>4 DEF Untar, ContentInv, ArchiveInv
  <2>5. CASE CreateMachine(v) \/ SetHDUuid(v) \/ LockForClone(v) \/ CloneHD(v)
    BY <1>1, <1>4, <2>5 DEF CreateMachine, SetHDUuid, LockForClone, CloneHD, ContentInv, FileInv
  <2> QED
    BY <2>1, <2>2, <2>3, <2>4, <2>5 DEF Create
<1> QED
  BY <1>2, <1>3, <1>4

LEMMA CreateGold ==
  ASSUME OwnFiles, Typed, Typed', LockInv, ContentInv, NEW v \in VMs, Create(v)
  PROVE  GoldInv' /\ WholeInv' /\ HalfInv'
<1> USE ConstantsAssumption, SourcesAreImages DEF Typed, Goto, Fail, SetGold, files
<1>1. \A w \in VMs \ {v} : pc'[w] = pc[w]
  BY DEF Create, Fetch, Download, BeginUnpack, Untar, CreateMachine, SetHDUuid, LockForClone, CloneHD, Refused
<1>2. faults' \in {faults, faults + 1} /\ kills' = kills /\ faults \in Nat
  <2>1. Fault \/ NoFault
    BY DEF Create, Fetch, Download, BeginUnpack, Untar, CreateMachine, SetHDUuid, LockForClone, CloneHD, Refused
  <2> QED
    BY <2>1 DEF Fault, NoFault
<1>3. CASE BeginUnpack(v)
  <2>1. \A w \in VMs : pc[w] # "untar"
    BY <1>3 DEF BeginUnpack, LockInv, MutexHeld, Locked
  <2>2. Unpacking = {}
    BY <2>1 DEF Unpacking
  <2>3. UNCHANGED <<faults, kills>>
    BY <1>3 DEF BeginUnpack, NoFault
  <2>4. CASE gold[Source[v]] = "none"
    <3>1. /\ pc'[v] = "untar" /\ gold'[Source[v]] = "unpacking"
          /\ \A i \in Images \ {Source[v]} : gold'[i] = gold[i]
          /\ halfway' = halfway \ {v}
      BY <1>3, <2>4 DEF BeginUnpack
    <3>2. Source[v] \in Unpacking'
      BY <3>1 DEF Unpacking
    <3>3. WholeInv'
      BY <1>1, <2>4, <3>1 DEF ContentInv, WholeInv, LockInv, InUse, PastIt
    <3> QED
      BY <2>2, <2>3, <3>1, <3>2, <3>3 DEF ContentInv, GoldInv, HalfInv
  <2>5. CASE gold[Source[v]] # "none"
    <3>1. /\ pc'[v] = "create" /\ gold' = gold
          /\ halfway' = IF gold[Source[v]] \in Images THEN halfway \ {v} ELSE halfway \cup {v}
      BY <1>3, <2>5 DEF BeginUnpack
    <3>2. gold[Source[v]] \in {Source[v], "partial", "unpacking"}
      BY <2>5 DEF ContentInv, GoldInv
    <3>3. GoldInv'
      BY <3>1 DEF ContentInv, GoldInv
    <3>4. WholeInv'
      BY <1>1, <3>1, <3>2 DEF ContentInv, WholeInv
    <3>5. gold[Source[v]] \notin Images => faults > 0 \/ kills > 0
      BY <2>2, <3>2 DEF ContentInv, HalfInv
    <3>6. HalfInv'
      BY <2>2, <2>3, <3>1, <3>5 DEF ContentInv, HalfInv
    <3> QED
      BY <3>3, <3>4, <3>6
  <2> QED
    BY <2>4, <2>5
<1>4. CASE Untar(v)
  <2>1. archive[FileOf(v)] \in {Source[v], "garbage"} /\ gold[Source[v]] = "unpacking" /\ pc[v] = "untar"
    BY <1>4 DEF ContentInv, ArchiveInv, Untar, LockInv, BeingMade
  <2>2. \A i \in Images \ {Source[v]} : gold'[i] = gold[i] /\ (i \in Unpacking' <=> i \in Unpacking)
    BY <1>1, <1>4 DEF Untar, Unpacking
  <2>3. \/ gold'[Source[v]] = Source[v]
        \/ gold'[Source[v]] = "none" /\ pc'[v] = "failed"
        \/ gold'[Source[v]] = "partial" /\ pc'[v] = "failed" /\ faults' = faults + 1
    BY <1>4, <2>1 DEF Untar, Fault
  <2>4. GoldInv'
    BY <2>2, <2>3 DEF ContentInv, GoldInv
  <2>5. WholeInv'
    BY <1>1, <1>4, <2>1, <2>2, <2>3 DEF ContentInv, WholeInv, Untar
  <2>6. halfway' = halfway
    BY <1>4 DEF Untar
  <2>7. HalfInv'
    <3>1. halfway' # {} => faults' > 0 \/ kills' > 0
      BY <1>2, <2>6 DEF ContentInv, HalfInv
    <3>2. ASSUME NEW i \in Images, \/ gold'[i] = "partial"
                                   \/ gold'[i] = "unpacking" /\ i \notin Unpacking'
          PROVE  faults' > 0 \/ kills' > 0
      <4>1. CASE i = Source[v]
        BY <1>2, <2>3, <3>2, <4>1
      <4>2. CASE i # Source[v]
        BY <1>2, <2>2, <3>2, <4>2 DEF ContentInv, HalfInv
      <4> QED
        BY <4>1, <4>2
    <3> QED
      BY <3>1, <3>2 DEF HalfInv
  <2> QED
    BY <2>4, <2>5, <2>7
<1>5. CASE Fetch(v) \/ Download(v) \/ CreateMachine(v) \/ SetHDUuid(v) \/ LockForClone(v) \/ CloneHD(v)
  <2>1. UNCHANGED <<gold, halfway>> /\ pc[v] # "untar" /\ pc'[v] # "untar"
        /\ (pc'[v] \in {"create", "setUuid", "copy", "clone"} => pc[v] \in {"create", "setUuid", "copy", "clone"})
    BY <1>5 DEF Fetch, Download, CreateMachine, SetHDUuid, LockForClone, CloneHD, Refused
  <2>2. Unpacking' = Unpacking
    BY <1>1, <2>1 DEF Unpacking
  <2>3. GoldInv' /\ WholeInv'
    BY <1>1, <2>1 DEF ContentInv, GoldInv, WholeInv
  <2>4. HalfInv'
    BY <1>2, <2>1, <2>2 DEF ContentInv, HalfInv
  <2> QED
    BY <2>3, <2>4
<1> QED
  BY <1>3, <1>4, <1>5 DEF Create

LEMMA CreateDisk ==
  ASSUME Typed, Typed', LockInv, ContentInv, NEW v \in VMs, Create(v)
  PROVE  DiskInv'
<1> USE ConstantsAssumption, SourcesAreImages DEF Typed, Goto, Fail, files
<1>1. \A w \in VMs \ {v} : /\ pc'[w] = pc[w] /\ disk'[w] = disk[w]
                           /\ w \in halfway' <=> w \in halfway
  BY DEF Create, Fetch, Download, BeginUnpack, Untar, CreateMachine, SetHDUuid, LockForClone, CloneHD, Refused
<1>2. pc'[v] = "done" => disk'[v] = Source[v] \/ (v \in halfway' /\ disk'[v] = "partial")
  <2>1. CASE CloneHD(v)
    <3>1. gold[Source[v]] \in {Source[v], "partial", "unpacking"} /\ UNCHANGED halfway
      BY <2>1 DEF CloneHD, ContentInv, GoldInv, LockInv, InUse, PastIt
    <3>2. v \notin halfway => gold[Source[v]] = Source[v]
      BY <2>1 DEF CloneHD, ContentInv, WholeInv
    <3> QED
      BY <2>1, <3>1, <3>2 DEF CloneHD, Cloned, Refused
  <2>2. CASE ~CloneHD(v)
    BY <2>2 DEF Create, Fetch, Download, BeginUnpack, Untar, CreateMachine, SetHDUuid, LockForClone, Refused
  <2> QED
    BY <2>1, <2>2
<1> QED
  BY <1>1, <1>2 DEF ContentInv, DiskInv

LEMMA NextContent ==
  ASSUME OwnFiles, Typed, Typed', LockInv, ContentInv, [Next]_vars
  PROVE  ContentInv'
<1>1. CASE Kill
  <2>1. ArchiveInv' /\ DiskInv' /\ WholeInv'
    BY <1>1 DEF Kill, ContentInv, ArchiveInv, DiskInv, WholeInv, FileOf, files
  <2>4. FileInv'
    <3> SUFFICES ASSUME NEW v \in VMs, gold'[Source[v]] = "unpacking"
                 PROVE  archive[FileOf(v)] \in {Source[v], "partial", "garbage"}
      BY <1>1 DEF Kill, FileInv, FileOf
    <3>1. CASE Source[v] \in Unpacking
      BY <3>1, SourcesAreImages DEF Unpacking, LockInv, BeingMade, ContentInv, FileInv
    <3>2. CASE Source[v] \notin Unpacking
      BY <1>1, <3>2, KillLeaves, SourcesAreImages DEF ContentInv, FileInv
    <3> QED
      BY <3>1, <3>2
  <2>2. GoldInv'
    <3>1. \A i \in Unpacking : \E v \in VMs : Source[v] = i
      BY DEF Unpacking
    <3> QED
      BY <1>1, <3>1, KillLeaves DEF ContentInv, GoldInv
  <2>3. HalfInv'
    BY <1>1 DEF Kill, HalfInv, Typed
  <2> QED
    BY <2>1, <2>2, <2>3, <2>4 DEF ContentInv
<1>2. CASE UNCHANGED vars
  <2>1. Unpacking' = Unpacking
    BY <1>2 DEF vars, Unpacking
  <2> QED
    BY <1>2, <2>1 DEF vars, ContentInv, ArchiveInv, FileInv, GoldInv, WholeInv, DiskInv, HalfInv, FileOf
<1>3. ASSUME NEW i \in Images, TarEnds(i)
      PROVE  ContentInv'
  <2>1. UNCHANGED <<archive, disk, pc, mutex, halfway, faults, kills>>
    BY <1>3 DEF TarEnds
  <2>2. /\ gold[i] = "unpacking" /\ i \notin Unpacking /\ Unpacking' = Unpacking
        /\ \A j \in Images \ {i} : gold'[j] = gold[j]
        /\ gold'[i] = "partial" \/ (gold'[i] \in Images /\ gold'[i] = archive[File[i]])
    BY <1>3, <2>1, TarLeaves DEF Unpacking
  <2>3. gold'[i] \in {i, "partial"}
    <3>1. PICK v \in VMs : Source[v] = i
      BY <2>2 DEF ContentInv, GoldInv
    <3>2. archive[File[i]] \in {i, "partial", "garbage"}
      BY <2>2, <3>1 DEF ContentInv, FileInv, FileOf
    <3> QED
      BY <2>2, <3>2, ConstantsAssumption
  <2>4. ArchiveInv' /\ DiskInv'
    BY <2>1 DEF ContentInv, ArchiveInv, DiskInv, FileOf
  <2>7. FileInv'
    BY <2>1, <2>2, <2>3, SourcesAreImages, ConstantsAssumption DEF ContentInv, FileInv, FileOf
  <2>5. GoldInv' /\ WholeInv'
    BY <2>1, <2>2, <2>3, SourcesAreImages, ConstantsAssumption DEF ContentInv, GoldInv, WholeInv
  <2>6. HalfInv'
    BY <2>1, <2>2, <2>3 DEF ContentInv, HalfInv
  <2> QED
    BY <2>4, <2>5, <2>6, <2>7 DEF ContentInv
<1>4. ASSUME NEW v \in VMs, Create(v)
      PROVE  ContentInv'
  BY <1>4, CreateArchive, CreateFile, CreateGold, CreateDisk DEF ContentInv
<1> QED
  BY <1>1, <1>2, <1>3, <1>4 DEF Next

LEMMA ContentHolds ==
  ASSUME OwnFiles
  PROVE  Spec => [](Typed /\ LockInv /\ ContentInv)
<1>1. Init => ContentInv
  <2> SUFFICES ASSUME Init PROVE ContentInv
    OBVIOUS
  <2>1. ASSUME NEW v \in VMs, Source[v] \notin Remote
        PROVE  archive[FileOf(v)] = Source[v]
    <3> DEFINE mine(i) == File[i] = FileOf(v)
    <3>1. Source[v] \in Images \ Remote /\ mine(Source[v])
      BY <2>1, SourcesAreImages DEF FileOf
    <3>2. \A i \in Images \ Remote : mine(i) => i = Source[v]
      BY <3>1, ConstantsAssumption DEF FileOf
    <3>3. archive[FileOf(v)] = CHOOSE i \in Images \ Remote : mine(i)
      BY <3>1, SourcesAreImages DEF Init
    <3> HIDE DEF mine
    <3> QED
      BY <3>1, <3>2, <3>3
  <2> QED
    BY <2>1, ConstantsAssumption, SourcesAreImages
       DEF Init, ContentInv, ArchiveInv, FileInv, GoldInv, WholeInv, DiskInv, HalfInv
<1> QED
  BY <1>1, NextContent, LockInvHolds, PTL DEF Spec

(* A machine that has been created has the disk of its own image, or, if   *)
(* its create met a directory that was half way, of a part of it, for any  *)
(* number of machines, failing commands and kills.                         *)
THEOREM DisksAreOwn ==
  ASSUME OwnFiles
  PROVE  Spec => []OwnImageUnlessCutShort
<1>1. ContentInv => OwnImageUnlessCutShort
  BY DEF ContentInv, DiskInv, OwnImageUnlessCutShort
<1> QED
  BY <1>1, ContentHolds, PTL

-----------------------------------------------------------------------------
(* The creates that have failed, or will: somebody else's archive is not   *)
(* what makes them fail. A create joins them only with a failure of its    *)
(* own.                                                                    *)
Doomed == {v \in VMs : \/ pc[v] = "failed" /\ v \notin halfway
                       \/ pc[v] \in {"unpack", "untar"} /\ archive[FileOf(v)] = "garbage"}

FailuresArePaid == Cardinality(Doomed) <= faults

LEMMA CreateDooms ==
  ASSUME OwnFiles, Typed, Typed', LockInv, ContentInv, NEW v \in VMs, Create(v)
  PROVE  \/ Doomed' \subseteq Doomed /\ faults' >= faults
         \/ Doomed' \subseteq Doomed \cup {v} /\ faults' = faults + 1
<1> USE ConstantsAssumption, SourcesAreImages, NoRivals
    DEF Typed, Goto, Fail, SetGold, SetArchive, files
<1>1. \A w \in VMs \ {v} : pc'[w] = pc[w] /\ (w \in halfway' <=> w \in halfway)
  BY DEF Create, Fetch, Download, BeginUnpack, Untar, CreateMachine, SetHDUuid, LockForClone, CloneHD, Refused
<1>2. \A w \in VMs \ {v} : pc[w] \in {"unpack", "untar"} => archive'[FileOf(w)] = archive[FileOf(w)]
  <2>1. Fetch(v) \/ Download(v) => Source[v] \in Remote \/ UNCHANGED archive
    BY DEF Fetch, Download, ContentInv, ArchiveInv
  <2>2. CASE Fetch(v) \/ Download(v)
    BY <2>1, <2>2 DEF Fetch, Download, OwnFiles, FileOf
  <2> QED
    BY <2>2 DEF Create, BeginUnpack, Untar, CreateMachine, SetHDUuid, LockForClone, CloneHD
<1>4. Doomed' \subseteq Doomed \cup {v}
  BY <1>1, <1>2 DEF Doomed, FileOf
<1>5. CASE Fault
  BY <1>4, <1>5 DEF Fault
<1>6. CASE NoFault /\ v \notin Doomed'
  BY <1>4, <1>6 DEF NoFault
<1>7. CASE NoFault /\ v \in Doomed'
  <2>1. \/ pc'[v] = "failed" /\ v \notin halfway'
        \/ pc'[v] \in {"unpack", "untar"} /\ archive'[FileOf(v)] = "garbage"
    BY <1>7 DEF Doomed, FileOf
  <2>2. v \in Doomed
    <3> USE <2>1 DEF Doomed
    <3>1. CASE Fetch(v)
      BY <3>1 DEF Fetch, ContentInv, ArchiveInv, FileOf
    <3>2. CASE Download(v)
      <4>1. NoFault => faults' # faults + 1
        BY DEF NoFault
      <4>2. Goto(v, "unpack") /\ archive'[FileOf(v)] = Source[v]
        BY <1>7, <3>2, <4>1 DEF Download, Fault, ContentInv, ArchiveInv
      <4> QED
        BY <4>2
    <3>3. CASE BeginUnpack(v)
      BY <3>3 DEF BeginUnpack
    <3>4. CASE Untar(v)
      <4>1. NoFault => faults' # faults + 1
        BY DEF NoFault
      <4>2. pc[v] = "untar" /\ archive[FileOf(v)] \in {Source[v], "garbage"}
        BY <3>4 DEF Untar, ContentInv, ArchiveInv
      <4> QED
        BY <1>7, <3>4, <4>1, <4>2 DEF Untar, Fault
    <3>5. CASE CreateMachine(v) \/ SetHDUuid(v) \/ CloneHD(v)
      <4>1. NoFault => faults' # faults + 1
        BY DEF NoFault
      <4>2. UNCHANGED halfway /\ (v \notin halfway => gold[Source[v]] \in Images)
        BY <3>5 DEF CreateMachine, SetHDUuid, CloneHD, ContentInv, WholeInv
      <4> QED
        BY <1>7, <3>5, <4>1, <4>2 DEF CreateMachine, SetHDUuid, CloneHD, Refused, Fault
    <3>6. CASE LockForClone(v)
      BY <3>6 DEF LockForClone
    <3> QED
      BY <3>1, <3>2, <3>3, <3>4, <3>5, <3>6 DEF Create
  <2> QED
    BY <1>4, <1>7, <2>2 DEF NoFault
<1>8. Fault \/ NoFault
  BY DEF Create, Fetch, Download, BeginUnpack, Untar, CreateMachine, SetHDUuid, LockForClone, CloneHD, Refused
<1> QED
  BY <1>5, <1>6, <1>7, <1>8

LEMMA KillDooms ==
  ASSUME Typed, Kill
  PROVE  Doomed' \subseteq Doomed /\ faults' = faults
BY DEF Kill, Doomed, FileOf, Typed, files

LEMMA NextPaid ==
  ASSUME OwnFiles, IsFiniteSet(VMs), Typed, Typed', LockInv, ContentInv, FailuresArePaid, [Next]_vars
  PROVE  FailuresArePaid'
<1>1. \/ Doomed' \subseteq Doomed /\ faults' >= faults
      \/ \E v \in VMs : Doomed' \subseteq Doomed \cup {v} /\ faults' = faults + 1
  <2>1. CASE UNCHANGED vars
    BY <2>1 DEF vars, Doomed, FileOf, Typed
  <2>2. CASE Kill
    BY <2>2, KillDooms DEF Typed
  <2>3. CASE \E i \in Images : TarEnds(i)
    BY <2>3 DEF TarEnds, Doomed, FileOf, Typed
  <2> QED
    BY <2>1, <2>2, <2>3, CreateDooms DEF Next
<1>2. Doomed \subseteq VMs /\ IsFiniteSet(Doomed) /\ Cardinality(Doomed) \in Nat
  BY FS_Subset, FS_CardinalityType DEF Doomed
<1>3. CASE Doomed' \subseteq Doomed /\ faults' >= faults
  <2>1. Cardinality(Doomed') <= Cardinality(Doomed) /\ Cardinality(Doomed') \in Nat
    BY <1>2, <1>3, FS_Subset, FS_CardinalityType
  <2> QED
    BY <1>2, <1>3, <2>1 DEF FailuresArePaid, Typed
<1>4. ASSUME NEW v \in VMs, Doomed' \subseteq Doomed \cup {v}, faults' = faults + 1
      PROVE  FailuresArePaid'
  <2>1. /\ IsFiniteSet(Doomed \cup {v}) /\ Cardinality(Doomed \cup {v}) \in Nat
        /\ Cardinality(Doomed \cup {v}) = Cardinality(Doomed)
             \/ Cardinality(Doomed \cup {v}) = Cardinality(Doomed) + 1
    BY <1>2, FS_AddElement, FS_CardinalityType
  <2>2. Cardinality(Doomed') <= Cardinality(Doomed \cup {v}) /\ Cardinality(Doomed') \in Nat
    BY <1>4, <2>1, FS_Subset, FS_CardinalityType
  <2> QED
    BY <1>2, <1>4, <2>1, <2>2 DEF FailuresArePaid, Typed
<1> QED
  BY <1>1, <1>3, <1>4

(* However many create at the same time, and however often the provider is *)
(* killed and run again: no more creates fail than commands have failed,   *)
(* but for those that met a directory which a stopped unpacking had left,  *)
(* or a tar that has outlived the provider was writing; and there are such *)
(* creates only after a failing command or a kill.                         *)
THEOREM FailuresCount ==
  ASSUME OwnFiles, IsFiniteSet(VMs)
  PROVE  Spec => []FailuresAreOwn
<1>1. Init => FailuresArePaid
  <2>1. Init => Doomed = {}
    BY ConstantsAssumption DEF Init, Doomed
  <2> QED
    BY <2>1, FS_EmptySet DEF Init, FailuresArePaid
<1>2. FailuresArePaid /\ Typed /\ ContentInv => FailuresAreOwn
  <2> SUFFICES ASSUME FailuresArePaid, Typed, ContentInv PROVE FailuresAreOwn
    OBVIOUS
  <2> DEFINE Failed == {v \in VMs : pc[v] = "failed" /\ v \notin halfway}
  <2>1. Failed \subseteq Doomed /\ IsFiniteSet(Doomed)
    BY FS_Subset DEF Doomed
  <2>2. Cardinality(Failed) <= Cardinality(Doomed) /\ Cardinality(Failed) \in Nat /\ Cardinality(Doomed) \in Nat
    BY <2>1, FS_Subset, FS_CardinalityType
  <2> QED
    BY <2>2 DEF FailuresArePaid, FailuresAreOwn, Typed, ContentInv, HalfInv
<1> QED
  BY <1>1, <1>2, NextPaid, ContentHolds, PTL DEF Spec
=============================================================================
