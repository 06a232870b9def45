------------------------------ MODULE VMSettings ------------------------------
(***************************************************************************)
(* How the configuration of a VM gets to VirtualBox: the sequences of      *)
(* VBoxManage commands of the three branches of resourceVMCreate and of    *)
(* resourceVMUpdate, with the condition under which each command is        *)
(* issued. A step may fail half way; the user then applies again.          *)
(*                                                                         *)
(* Value 0 of a setting is the default of the schema, and what VirtualBox  *)
(* gives a new machine; for collections it means that the element is not   *)
(* there.                                                                  *)
(***************************************************************************)
EXTENDS Naturals, FiniteSets, Sequences

CONSTANTS Origins,     \* ways to create the VM: image, clone, ova
          MaxEdits,    \* bound on changes of the configuration
          MaxFaults    \* bound on failing commands

VARIABLES cfg,    \* the configuration
          vm,     \* the settings of the machine
          op,     \* the operation that applies it
          step,   \* its next step; past the last one when it has succeeded
          failed, \* the operation has ended with an error
          edits, faults

vars == <<cfg, vm, op, step, failed, edits, faults>>

(* "base": what modifyVM passes always. "nic1" is the type of the first    *)
(* adapter, the next three keys are its settings. "cable" 0: connected.    *)
KeysOf == [modify     |-> {"base", "nic1", "nic2"},
           firmware   |-> {"firmware"},
           graphics   |-> {"graphics"},
           nics       |-> {"promisc", "cable", "forward"},
           rmFolders  |-> {"folderA", "folderB"},
           addFolders |-> {"folderA", "folderB"},
           cap        |-> {"cap"},
           nested     |-> {"nested"},
           userData   |-> {"userData"},
           usb        |-> {"ohci", "xhci"},
           clipboard  |-> {"clipboard"},
           chipset    |-> {"chipset"},
           serial     |-> {"serial0"}]

Keys     == UNION {KeysOf[s] : s \in DOMAIN KeysOf}
Values(k) == IF k \in {"base", "nic1"} THEN 0..2 ELSE 0..1
Defaults  == [k \in Keys |-> 0]

(* Configurations, and settings of an origin, in which only keys that      *)
(* interact are away from their defaults together.                         *)
Interacting == {KeysOf[s] : s \in DOMAIN KeysOf} \cup {KeysOf["nics"] \cup {"nic1"}}
Only(ks)    == {f \in [ks -> 0..2] : \A k \in ks : f[k] \in Values(k)}
Sparse      == UNION {{[k \in Keys |-> IF k \in ks THEN f[k] ELSE 0] : f \in Only(ks)} :
                        ks \in Interacting}

-----------------------------------------------------------------------------
Common == <<"modify", "firmware", "graphics", "nics", "addFolders", "cap", "nested">>
Rest   == <<"userData", "usb", "clipboard", "chipset", "serial">>
Update == <<"modify", "firmware", "graphics", "nics", "rmFolders", "addFolders", "cap",
            "nested">> \o Rest

(* Mutants: the update forgets the serial ports; the branch of the image   *)
(* ends where that of the clone does.                                      *)
Steps_NoSerial(o)     == IF o = "update" THEN SubSeq(Update, 1, 12) ELSE Common \o Rest
Steps_ImageAsClone(o) == IF o = "update" THEN Update ELSE Common

Steps(o) == CASE o = "image"  -> Common \o Rest
              [] o = "ova"    -> Common \o <<"userData">>
              [] o = "clone"  -> Common
              [] o = "update" -> Update

(* Which keys a step passes to VBoxManage.                                 *)
Always == {"base", "graphics"}

Passed(o, k) ==
  CASE k \in Always    -> TRUE
    [] k = "nested"    -> o = "update" \/ cfg[k] # 0
    [] k = "promisc"   -> cfg["nic1"] # 0 /\ cfg[k] # 0
    [] k = "cable"     -> cfg["nic1"] # 0 /\ cfg[k] = 0
    [] k = "forward"   -> cfg["nic1"] = 1 \/ (cfg["nic1"] = 2 /\ cfg[k] # 0)
    [] OTHER           -> cfg[k] # 0

After_WrongKey(s, ks) ==                                                 \* mutant
  [k \in Keys |-> IF k \notin ks \/ ~Passed(op, k) THEN vm[k] ELSE cfg["base"]]

(* The machine after the commands of step s for the keys ks. Only the      *)
(* folders of the configuration are removed.                               *)
After(s, ks) ==
  [k \in Keys |-> IF k \notin ks \/ ~Passed(op, k) THEN vm[k]
                  ELSE IF s = "rmFolders" THEN 0 ELSE cfg[k]]

(* A shared folder that exists cannot be added.                            *)
Clash(s) == s = "addFolders" /\ \E k \in KeysOf[s] : cfg[k] # 0 /\ vm[k] # 0

Running == ~failed /\ step <= Len(Steps(op))
Done    == ~failed /\ step > Len(Steps(op))

RunStep ==
  /\ Running
  /\ LET s == Steps(op)[step] IN
       \/ /\ ~Clash(s)
          /\ vm' = After(s, KeysOf[s])
          /\ step' = step + 1
          /\ UNCHANGED <<failed, faults>>
       \/ /\ Clash(s) \/ faults < MaxFaults
          /\ faults' = IF Clash(s) THEN faults ELSE faults + 1
          /\ failed' = (s # "rmFolders")          \* whose errors are ignored
          /\ step' = IF s = "rmFolders" THEN step + 1 ELSE step
          /\ \E ks \in IF Clash(s) THEN {{}} ELSE SUBSET KeysOf[s] : vm' = After(s, ks)
  /\ UNCHANGED <<cfg, op, edits>>

(* Another apply, after a success with another configuration or after an   *)
(* error. An error of a create leaves the VM unrecorded: no update of it.  *)
Apply == /\ Done \/ (failed /\ op = "update")
         /\ op' = "update" /\ step' = 1 /\ failed' = FALSE
         /\ \/ failed /\ UNCHANGED <<cfg, edits>>
            \/ edits < MaxEdits /\ edits' = edits + 1 /\ cfg' \in Sparse
         /\ UNCHANGED <<vm, faults>>

Init == /\ op \in Origins /\ cfg \in Sparse
        /\ vm \in IF op = "image" THEN {Defaults} ELSE Sparse
        /\ step = 1 /\ failed = FALSE /\ edits = 0 /\ faults = 0

Next == RunStep \/ Apply

Spec == Init /\ [][Next]_vars

TypeOK == /\ \A k \in Keys : {cfg[k], vm[k]} \subseteq Values(k)
          /\ op \in Origins \cup {"update"}
          /\ step \in 1..(Len(Steps(op)) + 1)
          /\ failed \in BOOLEAN
          /\ edits \in 0..MaxEdits /\ faults \in 0..MaxFaults

-----------------------------------------------------------------------------
(* Properties                                                              *)

(* What a branch of the create leaves out of what it is asked for.         *)
LeftOut(o) ==
  LET hardware == {"usb", "clipboard", "chipset", "serial"}
      steps    == CASE o = "ova"   -> hardware
                    [] o = "clone" -> hardware \cup {"userData"}
                    [] OTHER       -> {}
  IN  UNION {KeysOf[s] : s \in steps}

(* Adapter settings are for an adapter that is configured; "cable" has no  *)
(* way to VirtualBox when it is false (GetOk takes false for unset).       *)
Effective == {k \in Keys \ LeftOut(op) : /\ cfg[k] # 0 /\ k # "cable"
                                         /\ k \in {"promisc", "forward"} => cfg["nic1"] # 0}

(* An operation that succeeds leaves the machine with every setting that   *)
(* the user asked for and that its branch does not leave out, whatever     *)
(* earlier applies left half done.                                         *)
SuccessMeansConfigured == Done => \A k \in Effective : vm[k] = cfg[k]

(* What the code always passes follows the configuration in both           *)
(* directions: these settings go back to their defaults in an update.      *)
UpdateReverts ==
  Done /\ op = "update" => \A k \in {"base", "graphics", "nested"} : vm[k] = cfg[k]

(* A VM created from an image without a failing command is the configured  *)
(* one and nothing else.                                                   *)
FreshVMIsExact ==
  Done /\ op = "image" =>
    \A k \in Keys \ {"promisc", "cable", "forward"} : vm[k] = cfg[k]
=============================================================================
