------------------------------- MODULE VMParts -------------------------------
(***************************************************************************)
(* The settings of a VM, its network adapters in detail, and its storage.  *)
(* They are written by the same operations, but to different parts of the  *)
(* machine: a behaviour is about one of them.                              *)
(***************************************************************************)
EXTENDS Integers, Sequences

CONSTANTS Origins,                   \* what the VM may be created from
          Configs, Machines, Slots,  \* the adapters configured, and of a new machine
          Asked, Files, AutoPorts,   \* the storage configured, and the disks there may be
          MaxEdits, MaxEvents, MaxFaults

VARIABLES part,                                  \* "settings", "adapters" or "storage"
          cfg, vm, op, step, failed,             \* of the settings
          want, tf, host, nic, rule, kept, stale, gap,         \* of the adapters
          asked, folder, disks, ports, attached, isos, next,   \* of the storage
          pc, edits, events, faults

settingsVars == <<cfg, vm, op, step, failed>>
adapterVars  == <<want, tf, host, nic, rule, kept, stale, gap>>
storageVars  == <<asked, folder, disks, ports, attached, isos, next>>
vars         == <<part, settingsVars, adapterVars, storageVars, pc, edits, events, faults>>

Settings == INSTANCE VMSettings
Nics     == INSTANCE Adapters
Store    == INSTANCE Storage

(* VirtualBox knows the devices of adapters by their raw names. An ISO     *)
(* file is no disk file.                                                   *)
ASSUME ConstantsAssumption ==
  /\ Origins \subseteq {"image", "clone", "ova"}
  /\ Slots \in Nat \ {0} /\ {MaxEdits, MaxEvents, MaxFaults} \subseteq Nat
  /\ Configs \subseteq Seq(Nics!Adapters)
  /\ Machines \subseteq [1..Slots -> Nics!SlotType]
  /\ \A m \in Machines : \A i \in 1..Slots : m[i].device \notin DOMAIN Nics!RawOf
  /\ Files \in Seq(STRING) /\ {"configdrive", "old"} \subseteq Store!Items(Files)
  /\ \A i, j \in DOMAIN Files : Files[i] = Files[j] => i = j
  /\ Asked \subseteq Store!Requests /\ AutoPorts \in Nat \ {0}
  /\ \A a \in Asked : \A o \in Store!Items(a.opticals) : o.base \notin Store!Items(Files)

(* For the provers, to which a word is not a string.                       *)
ASSUME WordsAreStrings ==
  Nics!Types \cup Nics!Words \cup DOMAIN Nics!RawOf \cup {Nics!RawOf[d] : d \in DOMAIN Nics!RawOf}
    \cup {"none", ""} \subseteq STRING

NoSettings == cfg = <<>> /\ vm = <<>> /\ op = "update" /\ step = 1 /\ failed = FALSE
NoAdapters == want = <<>> /\ tf = {} /\ host = <<>> /\ nic = 1 /\ rule = 1
              /\ kept = FALSE /\ stale = FALSE /\ gap = FALSE
NoStorage  == /\ asked = <<>> /\ folder = {} /\ disks = <<>> /\ ports = <<>>
              /\ attached = <<>> /\ isos = <<>> /\ next = 1

Init == \/ /\ part = "settings" /\ Settings!Init /\ NoAdapters /\ NoStorage
           /\ pc = "idle" /\ events = 0
        \/ part = "adapters" /\ Nics!Init /\ NoSettings /\ NoStorage
        \/ part = "storage" /\ Store!Init /\ NoSettings /\ NoAdapters /\ edits = 0 /\ events = 0

IsSettings == part = "settings" /\ UNCHANGED <<part, adapterVars, storageVars, pc, events>>
IsAdapters == part = "adapters" /\ UNCHANGED <<part, settingsVars, storageVars>>
IsStorage  == part = "storage" /\ UNCHANGED <<part, settingsVars, adapterVars, edits, events>>

Next == \/ IsSettings /\ Settings!Next
        \/ IsAdapters /\ Nics!Next
        \/ IsStorage /\ Store!Next

Spec == Init /\ [][Next]_vars /\ WF_vars(IsAdapters /\ Nics!Refresh) /\ WF_vars(IsAdapters /\ Nics!Apply)

(* The types of each.                                                      *)
TypeOK == CASE part = "settings" -> Settings!TypeOK
            [] part = "adapters" -> Nics!TypeOK
            [] part = "storage"  -> Store!TypeOK

(* A successful create or update leaves every setting on the machine that  *)
(* its branch handles, and what an update always passes follows the        *)
(* configuration back to its defaults (resourceVMCreate, resourceVMUpdate). *)
SuccessMeansConfigured ==
  part = "settings" => Settings!SuccessMeansConfigured /\ Settings!UpdateReverts

(* A VM created from an image has the configured settings and no others    *)
(* (the last branch of resourceVMCreate).                                  *)
FreshVMIsExact == part = "settings" => Settings!FreshVMIsExact

(* A successful create from an image has all disks, ISO files and media in *)
(* slots of their own, and fails by itself only for an impossible request  *)
(* (gatherDisks and the storage part of resourceVMCreate).                 *)
MediaInPlace == part = "storage" => Store!MediaInPlace

(* An empty plan means that the machine has the configured adapters, apart *)
(* from three cases that Adapters names (parseMachineInfo, netVboxToTf).   *)
CleanPlanMeansAdapters == part = "adapters" => Nics!CleanPlanMeansAdapters

(* After an apply without an error the configured ports are forwarded      *)
(* (applyNICSettings).                                                     *)
PortsForwarded == part = "adapters" => Nics!PortsForwarded

(* Repeated applies bring the adapters to what is configured, outside the  *)
(* cases that Adapters names (resourceVMUpdate, resourceVMRead).           *)
AdaptersConverge == []<>(part = "adapters" => pc = "clean" \/ Nics!Stuck)
=============================================================================
