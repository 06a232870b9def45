------------------------------- MODULE VMDelete -------------------------------
(***************************************************************************)
(* resourceVMDelete and the functions it calls (hardPoweroff, getMachine,  *)
(* parseMachineInfo, cleanupVMFolder): one action per VBoxManage command   *)
(* or file-system access, with the guest, the hypervisor and the other     *)
(* users of the host acting between any two of them.                       *)
(***************************************************************************)
EXTENDS Naturals

CONSTANTS AcpiPolls,      \* polls after the ACPI button           (60 in the code)
          HardPolls,      \* polls after a hard poweroff           (10 in the code)
          CleanupScans,   \* scans of the folder before the deadline (about 3)
          MaxFaults,      \* bound on the VBoxManage and file-system failures
          ReadDirFails,   \* the machine folder may be unreadable
          Interference,   \* other users of the host operate the VM too
          Sluggish,       \* powering off passes through a visible transition
          MayRetry,       \* the user repeats a failed destroy
          Diagnostic      \* stream on which VBoxManage names its error code

ASSUME ConstantsAssumption ==
  /\ AcpiPolls \in Nat \ {0} /\ HardPolls \in Nat \ {0}
  /\ CleanupScans \in Nat \ {0}
  /\ MaxFaults \in Nat
  /\ {ReadDirFails, Interference, Sluggish, MayRetry} \subseteq BOOLEAN
  /\ Diagnostic \in {"stdout", "stderr"}

VARIABLES pc,       \* where resourceVMDelete is
          tries,    \* its loop counter (i, j, or the scans of cleanupVMFolder)
          vm,       \* the machine as VirtualBox has it
          folder,   \* the machine folder on disk
          faults    \* failures that happened so far

vars == <<pc, tries, vm, folder, faults>>

(* The raw VMState values. "starting" and "stopping" stand for every state *)
(* that the switch of parseMachineInfo does not list.                      *)
Off        == {"poweroff", "aborted", "saved"}
Live       == {"running", "starting", "stopping", "terminating", "paused"}
Registered == Off \cup Live

(* "own": holds this VM's .vbox only; "shared": another machine's .vbox    *)
(* too; "leftover": files but no .vbox.                                    *)
Folders == {"own", "shared", "leftover", "none"}

Steps == {"query", "acpi", "poll", "hard", "hardPoll", "hardVerify",
          "finalCheck", "unregister", "cleanup", "remove", "ok", "failed"}

(* Mutant: unlisted states read as off.                                    *)
ParseState_UnknownIsOff(raw) ==
  IF raw \in Off \cup {"running", "paused"} THEN raw ELSE "aborted"

ParseState(raw) ==
  IF raw = "terminating" THEN "aborted"
  ELSE IF raw \in Off \cup {"running", "paused"} THEN raw ELSE "running"

-----------------------------------------------------------------------------
(* getMachine. Its error text is the exit status, so a missing VM is told  *)
(* from a failing VBoxManage only by what was written to stdout.           *)

Readings == {"running", "poweroff", "paused", "saved", "aborted",
             "notExist", "error"}

Answer == IF vm # "gone" THEN ParseState(vm)
          ELSE IF Diagnostic = "stdout" THEN "notExist" ELSE "error"

Fault == faults < MaxFaults /\ faults' = faults + 1

GetMachine(r) == \/ r = Answer /\ UNCHANGED faults
                 \/ r = "error" /\ Fault

Goto(step) == pc' = step /\ tries' = 0

(* Another round of the loop the delete is in, or the step after it.       *)
Loop_OneTooMany(rounds, step) ==   \* mutant
  IF tries < rounds THEN tries' = tries + 1 /\ UNCHANGED pc ELSE Goto(step)

Loop(rounds, step) ==
  IF tries + 1 < rounds THEN tries' = tries + 1 /\ UNCHANGED pc ELSE Goto(step)

-----------------------------------------------------------------------------
(* resourceVMDelete up to the unregistration                               *)

(* Mutants: an error taken for a missing VM; a missing VM taken for an     *)
(* error; the case of the saved state dropped from the switch.             *)
AfterQuery_ErrorIsGone(r) ==
  CASE r \in {"notExist", "error"} -> "ok" [] r \in Off -> "finalCheck"
    [] r = "paused" -> "hard" [] OTHER -> "acpi"
AfterQuery_GoneIsError(r) ==
  CASE r \in {"notExist", "error"} -> "failed" [] r \in Off -> "finalCheck"
    [] r = "paused" -> "hard" [] OTHER -> "acpi"
AfterQuery_SavedIsPolled(r) ==
  CASE r = "notExist" -> "ok" [] r = "error" -> "failed"
    [] r \in {"poweroff", "aborted"} -> "finalCheck"
    [] r = "paused" -> "hard" [] OTHER -> "acpi"

AfterQuery(r) == CASE r = "notExist"           -> "ok"
                   [] r = "error"              -> "failed"
                   [] r \in Off                -> "finalCheck"
                   [] r = "paused"             -> "hard"
                   [] OTHER                    -> "acpi"

Query == /\ pc = "query"
         /\ \E r \in Readings : GetMachine(r) /\ Goto(AfterQuery(r))
         /\ UNCHANGED <<vm, folder>>

(* The button is only an event for the guest, see GuestStops.              *)
PressAcpi == /\ pc = "acpi"
             /\ Goto("poll")
             /\ UNCHANGED <<vm, folder, faults>>

PollWith(onGone, onError, otherwise) ==
  /\ pc = "poll"
  /\ \E r \in Readings :
       /\ GetMachine(r)
       /\ CASE r = "notExist"                -> onGone
            [] r = "error"                   -> onError
            [] r \in {"poweroff", "aborted"} -> Goto("finalCheck")
            [] OTHER                         -> otherwise
  /\ UNCHANGED <<vm, folder>>

(* Mutants: a transient error does not use up a poll; it is taken for a    *)
(* vanished VM; a deaf guest is not powered off hard.                      *)
Poll_FreeErrors == PollWith(Goto("ok"), UNCHANGED <<pc, tries>>, Loop(AcpiPolls, "hard"))
Poll_ErrorIsGone == PollWith(Goto("ok"), Goto("ok"), Loop(AcpiPolls, "hard"))
Poll_NoEscalation ==
  PollWith(Goto("ok"), Loop(AcpiPolls, "hard"), Loop(AcpiPolls, "finalCheck"))

Poll == PollWith(Goto("ok"), Loop(AcpiPolls, "hard"), Loop(AcpiPolls, "hard"))

PoweringOff == IF Sluggish THEN {"poweroff", "stopping", "terminating"}
                           ELSE {"poweroff"}

(* The command's error is ignored: the polls decide.                       *)
HardPoweroff == /\ pc = "hard"
                /\ Goto("hardPoll")
                /\ \/ vm \in Live /\ vm' \in PoweringOff /\ UNCHANGED faults
                   \/ vm \notin Live /\ UNCHANGED <<vm, faults>>
                   \/ Fault /\ UNCHANGED vm
                /\ UNCHANGED folder

HardDone == {"notExist", "poweroff", "aborted"}

HardPoll == /\ pc = "hardPoll"
            /\ \E r \in Readings :
                 /\ GetMachine(r)
                 /\ IF r \in HardDone THEN Goto("finalCheck")
                                      ELSE Loop(HardPolls, "hardVerify")
            /\ UNCHANGED <<vm, folder>>

HardVerify == /\ pc = "hardVerify"
              /\ \E r \in Readings :
                   /\ GetMachine(r)
                   /\ Goto(IF r \in HardDone THEN "finalCheck" ELSE "failed")
              /\ UNCHANGED <<vm, folder>>

Refused == {"error", "running", "paused"}

FinalCheck == /\ pc = "finalCheck"
              /\ \E r \in Readings :
                   /\ GetMachine(r)
                   /\ Goto(IF r \in Refused THEN "failed" ELSE "unregister")
              /\ UNCHANGED <<vm, folder>>

-----------------------------------------------------------------------------
(* unregistervm --delete and the clean-up of the machine folder            *)

(* What VirtualBox leaves of the folder when it deletes the VM's files.    *)
FilesDeleted == IF folder = "own" THEN folder' \in {"none", "leftover"}
                                  ELSE UNCHANGED folder

Unregister ==
  /\ pc = "unregister"
  /\ \/ /\ vm \in Off /\ vm' = "gone" /\ FilesDeleted
        /\ Goto("cleanup") /\ UNCHANGED faults
     \/ /\ vm \notin Off                      \* locked, or not registered
        /\ Goto("failed") /\ UNCHANGED <<vm, folder, faults>>
     \/ /\ Fault /\ Goto("failed")            \* failed, maybe half way
        /\ \/ UNCHANGED <<vm, folder>>
           \/ vm \in Off /\ vm' = "gone" /\ FilesDeleted

HoldsConfig == folder \in {"own", "shared"}

(* Mutants: the deadline gives up; configs are not looked for.             *)
ScanFolder_GivesUp ==
  /\ pc = "cleanup"
  /\ \/ folder # "leftover" /\ Goto("ok")
     \/ folder = "leftover" /\ Loop(CleanupScans, "ok")
  /\ UNCHANGED <<vm, folder, faults>>
ScanFolder_AnyFolder ==
  /\ pc = "cleanup"
  /\ \/ folder = "none" /\ Goto("ok")
     \/ folder # "none" /\ Loop(CleanupScans, "remove")
  /\ UNCHANGED <<vm, folder, faults>>

(* One round of cleanupVMFolder's loop: stat, read the folder, look at the *)
(* clock. An unreadable folder counts as one without a machine config.     *)
ScanFolder ==
  /\ pc = "cleanup"
  /\ \/ /\ folder = "none" \/ HoldsConfig
        /\ Goto("ok") /\ UNCHANGED faults
     \/ Fault /\ Goto("ok")
     \/ folder = "leftover" /\ Loop(CleanupScans, "remove") /\ UNCHANGED faults
     \/ ReadDirFails /\ HoldsConfig /\ Fault /\ Loop(CleanupScans, "remove")
  /\ UNCHANGED <<vm, folder>>

RemoveFolder == /\ pc = "remove"
                /\ Goto("ok")
                /\ \/ folder' = "none" /\ UNCHANGED faults
                   \/ Fault /\ UNCHANGED folder
                /\ UNCHANGED vm

(* terraform destroy once more. Its refresh reads the VM first, as Query does. *)
Retry == /\ MayRetry
         /\ pc = "failed"
         /\ Goto("query")
         /\ UNCHANGED <<vm, folder, faults>>

Delete == \/ Query \/ PressAcpi \/ Poll \/ HardPoweroff \/ HardPoll \/ HardVerify
          \/ FinalCheck \/ Unregister \/ ScanFolder \/ RemoveFolder

-----------------------------------------------------------------------------
(* The guest, VirtualBox and the other users of the host                   *)

GuestStops == /\ vm = "running"
              /\ vm' \in PoweringOff \cup {"aborted"}
              /\ UNCHANGED <<pc, tries, folder, faults>>

(* A transition of the hypervisor ends.                                    *)
Settle == /\ \/ vm = "starting"    /\ vm' = "running"
             \/ vm = "stopping"    /\ vm' = "poweroff"
             \/ vm = "terminating" /\ vm' = "aborted"
          /\ UNCHANGED <<pc, tries, folder, faults>>

(* VBoxSVC closes its last handles and finishes its own deletion.          *)
LateDeletion == /\ folder = "leftover" /\ folder' = "none"
                /\ UNCHANGED <<pc, tries, vm, faults>>

Meddle == /\ Interference
          /\ \/ vm = "running" /\ vm' \in {"paused", "saved"}
             \/ vm = "paused"  /\ vm' \in {"running", "saved"}
             \/ vm \in Off     /\ vm' \in {"starting", "gone"}
          /\ UNCHANGED <<pc, tries, folder, faults>>

(* Another machine is created in the folder the deleted one left.          *)
ReuseFolder == /\ Interference
               /\ folder = "leftover" /\ folder' = "shared"
               /\ UNCHANGED <<pc, tries, vm, faults>>

Environment == GuestStops \/ Settle \/ LateDeletion \/ Meddle \/ ReuseFolder

-----------------------------------------------------------------------------
Init == /\ pc = "query" /\ tries = 0 /\ faults = 0
        /\ \/ /\ vm \in IF Sluggish THEN Registered
                           ELSE Registered \ {"stopping", "terminating"}
              /\ folder \in {"own", "shared"}
           \/ vm = "gone" /\ folder \in {"none", "shared"}

Next == Delete \/ Retry \/ Environment

(* The provider's goroutine keeps running; a transition of the hypervisor  *)
(* ends. Nothing makes a guest or another user act.                        *)
Fairness == WF_vars(Delete) /\ WF_vars(Retry) /\ WF_vars(Settle)

Spec == Init /\ [][Next]_vars /\ Fairness

LastRound == CASE pc = "poll"     -> AcpiPolls - 1
               [] pc = "hardPoll" -> HardPolls - 1
               [] pc = "cleanup"  -> CleanupScans - 1
               [] OTHER           -> 0

(* The type invariant; every loop keeps to its number of rounds.           *)
TypeOK == /\ pc \in Steps
          /\ tries \in 0..LastRound
          /\ vm \in Registered \cup {"gone"}
          /\ folder \in Folders
          /\ faults \in 0..MaxFaults

-----------------------------------------------------------------------------
(* Properties                                                              *)

(* Whatever fails or interferes, Delete returns nil only for a VM that     *)
(* VirtualBox no longer has registered (crud:788-869).                     *)
SuccessMeansGone == pc = "ok" => vm = "gone"

(* "never unregister a live VM": left alone by other users, a machine that *)
(* `unregistervm --delete' is about to be issued for is not live, whatever *)
(* VBoxManage failures the polls met; only the "terminating" state, which  *)
(* parseMachineInfo reads as aborted, slips through.                       *)
OffBeforeUnregister ==
  ~Interference /\ pc = "unregister" => vm \notin Live \ {"terminating"}

(* A saved or paused guest executes nothing, so the graceful shutdown and  *)
(* its 60 s of polls are not spent on it, and a saved one is not powered   *)
(* off either: its saved state goes with unregistervm (crud:802-814).      *)
IdleGuestsAreNotPolled ==
  ~Interference =>
    /\ vm \in {"saved", "paused"} => pc \notin {"acpi", "poll"}
    /\ vm = "saved" => pc \notin {"hard", "hardPoll", "hardVerify"}

(* The clean-up never removes a folder that holds a machine config: only   *)
(* VirtualBox's own unregistration does (crud:877-881, 902-909).           *)
FolderWithConfigKept ==
  [][HoldsConfig /\ folder' # folder => pc = "unregister"]_vars

(* Without failures, a destroyed VM leaves no orphaned folder behind.      *)
NoLeftovers == faults = 0 /\ pc = "ok" => folder # "leftover"

(* Every destroy ends, in success or in an error.                          *)
Terminates == pc = "query" ~> pc \in {"ok", "failed"}

(* A destroy that is repeated until it succeeds gets rid of the machine,   *)
(* even if the guest ignores the ACPI button.                              *)
EventuallyDestroyed == <>[](pc = "ok" /\ vm = "gone")

(* Delete implements the abstract destroy.                                 *)
Destroy == INSTANCE VMDestroy WITH
             verdict <- IF pc = "ok" THEN "ok"
                        ELSE IF pc = "failed" THEN "error" ELSE "pending"
ImplementsDestroy == Destroy!Spec

(* "VM already gone - nothing to do" (crud:794): where no command fails    *)
(* and nobody interferes, destroying a VM that is gone is no error.        *)
GoneIsSuccess == faults = 0 /\ ~Interference /\ vm = "gone" => pc # "failed"
=============================================================================
