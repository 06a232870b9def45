----------------------------- MODULE GoldImages -----------------------------
(***************************************************************************)
(* The image branch of resourceVMCreate for VMs that are created at the    *)
(* same time: fetchIfRemote downloads the archive into the working         *)
(* directory, under the last part of its URL; unpackImage unpacks it into  *)
(* the gold directory of the image, unless that has files already; and the *)
(* disks are cloned from there. imageOpMutex covers the unpacking and the  *)
(* cloning, not the download. Archives and directories outlive the         *)
(* provider process, which may be killed at any point, and so does a tar   *)
(* that it has started.                                                    *)
(***************************************************************************)
EXTENDS Naturals, FiniteSets

CONSTANTS VMs,       \* the virtual machine resources that are created
          Images,    \* values of their `image' (a string each)
          Source,    \* Source[v]: the image of v
          File,      \* File[i]: the file that holds the archive of i
          Remote,    \* the images that are URLs; the others are local files
          CutShort,  \* tar may fail, or be killed, half way
          MaxFaults, \* bound on failing commands and downloads
          MaxKills   \* bound on kills of the provider

ASSUME ConstantsAssumption ==
  /\ Source \in [VMs -> Images] /\ DOMAIN File = Images /\ Remote \subseteq Images
  /\ CutShort \in BOOLEAN /\ {MaxFaults, MaxKills} \subseteq Nat
  /\ Images \cap {"none", "partial", "unpacking", "garbage"} = {}
  /\ \A i, j \in Images \ Remote : File[i] = File[j] => i = j

VARIABLES archive,  \* archive[f]: what the file f holds
          gold,     \* gold[i]: what the gold directory of the image i holds
          disk,     \* disk[v]: what the disk of the machine v was cloned from
          pc,       \* pc[v]: where the create of v is
          mutex,    \* holders of imageOpMutex
          halfway,  \* auxiliary: the creates whose gold directory was not
                    \* whole, yet was not empty either, when they came to it
          faults, kills

vars  == <<archive, gold, disk, pc, mutex, halfway, faults, kills>>
files == <<archive, gold, disk, halfway>>

(* All of an image, nothing, a part of one, what tar has written so far, or*)
(* something that is no image.                                             *)
Contents == Images \cup {"none", "partial", "unpacking", "garbage"}
Files    == {File[i] : i \in Images}

Goto(v, step) == pc' = [pc EXCEPT ![v] = step]
Fault == faults < MaxFaults /\ faults' = faults + 1 /\ UNCHANGED kills
NoFault == UNCHANGED <<faults, kills>>
Fail(v) == Goto(v, "failed")

FileOf(v)   == File[Source[v]]
SetArchive(v, c) == archive' = [archive EXCEPT ![FileOf(v)] = c]
SetGold(v, c)    == gold' = [gold EXCEPT ![Source[v]] = c]

-----------------------------------------------------------------------------
(* fetchIfRemote                                                           *)

(* The other downloads into the same file.                                 *)
Rivals(v) == {w \in VMs \ {v} : pc[w] = "downloading" /\ FileOf(w) = FileOf(v)}
Mixed(v)  == Rivals(v) # {} /\ (archive[FileOf(v)] = "garbage"
                                  \/ \E w \in Rivals(v) : Source[w] # Source[v])

(* Mutant: a file that is there is not downloaded again.                   *)
Fetch_KeepsFile(v) ==
  /\ pc[v] = "fetch"
  /\ IF Source[v] \in Remote /\ archive[FileOf(v)] = "none"
     THEN SetArchive(v, "partial") /\ Goto(v, "downloading")
     ELSE UNCHANGED archive /\ Goto(v, "unpack")
  /\ NoFault /\ UNCHANGED <<gold, disk, mutex, halfway>>

(* os.Create truncates a file that is there, whoever uses it.              *)
Fetch(v) ==
  /\ pc[v] = "fetch"
  /\ IF Source[v] \in Remote
     THEN /\ SetArchive(v, IF Mixed(v) THEN "garbage" ELSE "partial")
          /\ Goto(v, "downloading")
     ELSE UNCHANGED archive /\ Goto(v, "unpack")
  /\ NoFault /\ UNCHANGED <<gold, disk, mutex, halfway>>

(* The status code is not looked at: an error page is an archive, too.     *)
Download(v) ==
  /\ pc[v] = "downloading"
  /\ \/ /\ Goto(v, "unpack") /\ NoFault
        /\ IF archive[FileOf(v)] = "garbage" THEN UNCHANGED archive
           ELSE SetArchive(v, IF Rivals(v) = {} THEN Source[v] ELSE "partial")
     \/ Goto(v, "unpack") /\ Fault /\ SetArchive(v, "garbage")
     \/ Fail(v) /\ Fault /\ UNCHANGED archive
  /\ UNCHANGED <<gold, disk, mutex, halfway>>

-----------------------------------------------------------------------------
(* unpackImage, under imageOpMutex                                         *)

(* Mutants: no lock is taken; a directory with files is unpacked again.    *)
BeginUnpack_NoLock(v) ==
  /\ pc[v] = "unpack"
  /\ IF gold[Source[v]] = "none"
     THEN Goto(v, "untar") /\ SetGold(v, "unpacking")
     ELSE Goto(v, "create") /\ UNCHANGED gold
  /\ NoFault /\ UNCHANGED <<archive, disk, mutex, halfway>>
BeginUnpack_Again(v) ==
  /\ pc[v] = "unpack" /\ mutex = {} /\ mutex' = {v}
  /\ Goto(v, "untar") /\ SetGold(v, "unpacking")
  /\ NoFault /\ UNCHANGED <<archive, disk, halfway>>

(* A directory that has files counts as unpacked.                          *)
BeginUnpack(v) ==
  /\ pc[v] = "unpack" /\ mutex = {}
  /\ \/ /\ gold[Source[v]] = "none"
        /\ mutex' = {v} /\ Goto(v, "untar") /\ SetGold(v, "unpacking")
     \/ /\ gold[Source[v]] # "none"
        /\ Goto(v, "create") /\ UNCHANGED <<mutex, gold>>
  /\ halfway' = IF gold[Source[v]] \in Images \cup {"none"} THEN halfway \ {v} ELSE halfway \cup {v}
  /\ NoFault /\ UNCHANGED <<archive, disk>>

Untar_KeepsLock(v) ==                                                    \* mutant
  /\ pc[v] = "untar"
  /\ \/ /\ archive[FileOf(v)] \in Images /\ SetGold(v, archive[FileOf(v)])
        /\ Goto(v, "create") /\ mutex' = {}
     \/ archive[FileOf(v)] \notin Images /\ SetGold(v, "none") /\ Fail(v) /\ UNCHANGED mutex
  /\ NoFault /\ UNCHANGED <<archive, disk, halfway>>

(* What tar has unpacked before it fails stays.                            *)
Untar(v) ==
  /\ pc[v] = "untar" /\ mutex' = mutex \ {v}
  /\ LET a == archive[FileOf(v)] IN
       \/ a \in Images /\ SetGold(v, a) /\ Goto(v, "create") /\ NoFault
       \/ a = "garbage" /\ SetGold(v, "none") /\ Fail(v) /\ NoFault
       \/ a \in {"none", "partial"} /\ Fail(v) /\ NoFault
          /\ \E c \in {"none", "partial"} : SetGold(v, c)
       \/ CutShort /\ Fault /\ Fail(v) /\ \E c \in {"none", "partial"} : SetGold(v, c)
  /\ UNCHANGED <<archive, disk, halfway>>

-----------------------------------------------------------------------------
(* gatherDisks, createMachine, and the loop that clones the disks          *)

(* In a directory that is only partly there may be no disk, or one that    *)
(* VBoxManage refuses.                                                     *)
Refused(v) == gold[Source[v]] \notin Images /\ Fail(v) /\ NoFault

CreateMachine(v) ==
  /\ pc[v] = "create"
  /\ \/ gold[Source[v]] # "none" /\ Goto(v, "setUuid") /\ NoFault
     \/ Refused(v)
     \/ Fail(v) /\ Fault
  /\ UNCHANGED <<files, mutex>>

SetHDUuid(v) ==
  /\ pc[v] = "setUuid"
  /\ \/ Goto(v, "copy") /\ NoFault
     \/ Refused(v)
     \/ Fail(v) /\ Fault
  /\ UNCHANGED <<files, mutex>>

LockForClone_Skipped(v) ==                                               \* mutant
  /\ pc[v] = "copy" /\ Goto(v, "clone") /\ mutex' = mutex \cup {v} /\ NoFault /\ UNCHANGED files

LockForClone(v) ==
  /\ pc[v] = "copy" /\ Goto(v, "clone")
  /\ mutex = {} /\ mutex' = {v}
  /\ NoFault /\ UNCHANGED files

(* The disks are those that gatherDisks has listed, which need not be all  *)
(* if the directory was not whole then.                                    *)
Cloned(v) == LET g == gold[Source[v]] IN
  IF v \in halfway THEN {"partial"} \cup ({g} \cap Images) ELSE {g}

CloneHD(v) ==
  /\ pc[v] = "clone" /\ mutex' = mutex \ {v}
  /\ \/ \E c \in Cloned(v) : disk' = [disk EXCEPT ![v] = c] /\ Goto(v, "done") /\ NoFault
     \/ Refused(v) /\ UNCHANGED disk
     \/ Fail(v) /\ Fault /\ UNCHANGED disk
  /\ UNCHANGED <<archive, gold, halfway>>

-----------------------------------------------------------------------------
(* The provider is killed, and Terraform is run again. A tar that has been *)
(* started goes on, or stops with the provider; from something that is no  *)
(* archive it makes nothing.                                               *)
Unpacking == {Source[v] : v \in {w \in VMs : pc[w] = "untar"}}

Left(i) == IF archive[File[i]] = "garbage" THEN {"none"}
           ELSE {"unpacking"} \cup (IF CutShort THEN {"none", "partial"} ELSE {})

Kill ==
  /\ kills < MaxKills /\ kills' = kills + 1
  /\ \E v \in VMs : pc[v] \notin {"done", "failed"}
  /\ pc' = [v \in VMs |-> IF pc[v] \in {"done", "failed"} THEN pc[v] ELSE "fetch"]
  /\ mutex' = {}
  /\ \E left \in [Unpacking -> {"none", "partial", "unpacking"}] :
       /\ \A i \in Unpacking : left[i] \in Left(i)
       /\ gold' = [i \in Images |-> IF i \in Unpacking THEN left[i] ELSE gold[i]]
  /\ UNCHANGED <<archive, disk, halfway, faults>>

(* A tar that has outlived the provider ends; a download of the next run   *)
(* truncates the file that it reads.                                       *)
TarEnds(i) ==
  /\ gold[i] = "unpacking" /\ i \notin Unpacking
  /\ \E c \in ({archive[File[i]]} \cap Images) \cup (IF CutShort \/ i \in Remote THEN {"partial"} ELSE {}) :
       gold' = [gold EXCEPT ![i] = c]
  /\ UNCHANGED <<archive, disk, pc, mutex, halfway, faults, kills>>

-----------------------------------------------------------------------------
Init == /\ archive = [f \in Files |-> IF \E i \in Images \ Remote : File[i] = f
                                      THEN CHOOSE i \in Images \ Remote : File[i] = f
                                      ELSE "none"]
        /\ gold = [i \in Images |-> "none"]
        /\ disk = [v \in VMs |-> "none"]
        /\ pc = [v \in VMs |-> "fetch"]
        /\ mutex = {} /\ halfway = {} /\ faults = 0 /\ kills = 0

Create(v) == \/ Fetch(v) \/ Download(v) \/ BeginUnpack(v) \/ Untar(v)
             \/ CreateMachine(v) \/ SetHDUuid(v) \/ LockForClone(v) \/ CloneHD(v)

Next == Kill \/ (\E i \in Images : TarEnds(i)) \/ (\E v \in VMs : Create(v))

(* sync.Mutex lets every waiter in eventually; commands and downloads end. *)
Fairness == \A v \in VMs : WF_vars(Create(v)) /\ SF_vars(BeginUnpack(v) \/ LockForClone(v))

Spec == Init /\ [][Next]_vars /\ Fairness

TypeOK == /\ archive \in [Files -> Contents] /\ gold \in [Images -> Contents]
          /\ disk \in [VMs -> Contents]
          /\ pc \in [VMs -> {"fetch", "downloading", "unpack", "untar", "create",
                             "setUuid", "copy", "clone", "done", "failed"}]
          /\ mutex \subseteq VMs /\ Cardinality(mutex) <= 1 /\ halfway \subseteq VMs
          /\ faults \in 0..MaxFaults /\ kills \in 0..MaxKills

-----------------------------------------------------------------------------
(* Properties                                                              *)

(* A VM that has been created has the disk of the image it was asked for,  *)
(* whatever other creates do at the same time. Not so for images that are  *)
(* downloaded into the same file.                                          *)
OwnImage == \A v \in VMs : pc[v] = "done" => disk[v] = Source[v]

(* The same for images with files of their own, whatever fails and is      *)
(* killed: all of the image, unless the create met a directory that an     *)
(* unpacking had left half way, or that a tar which has outlived the       *)
(* provider was writing; it takes what is there for the image.             *)
OwnImageUnlessCutShort ==
  \A v \in VMs : pc[v] = "done" => disk[v] = Source[v] \/ (v \in halfway /\ disk[v] = "partial")

(* A gold directory that is complete is never written again: clones may be *)
(* reading it, and gatherDisks has listed it without the lock.             *)
CompleteGoldIsFinal ==
  [][\A i \in Images : gold[i] = i => gold'[i] = i]_vars

(* A failing command fails the create that issued it and no other one,     *)
(* before and after a kill, but for creates that met a directory which was *)
(* not whole; and those there are only after a failure or a kill.          *)
FailuresAreOwn ==
  /\ Cardinality({v \in VMs : pc[v] = "failed" /\ v \notin halfway}) <= faults
  /\ halfway # {} => faults > 0 \/ kills > 0

(* Every create ends; none waits for imageOpMutex for ever.                *)
AllEnd == \A v \in VMs : <>(pc[v] \in {"done", "failed"})
=============================================================================
