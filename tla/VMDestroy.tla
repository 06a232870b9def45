------------------------------ MODULE VMDestroy ------------------------------
(***************************************************************************)
(* What `terraform destroy' promises about one virtual machine, without    *)
(* saying how: the machine is removed from the registry only when it is    *)
(* off (or saved), destroy never brings a machine back to life, and it     *)
(* reports success only for a machine that is no longer registered.        *)
(***************************************************************************)
CONSTANT Interference   \* TRUE: other users of the host also operate the VM

VARIABLES vm,       \* the machine as VirtualBox has it, "gone" if unregistered
          verdict   \* what Terraform was told

Off        == {"poweroff", "aborted", "saved"}
Live       == {"running", "starting", "stopping", "terminating", "paused"}
Registered == Off \cup Live

Init == /\ vm \in Registered \cup {"gone"}
        /\ verdict = "pending"

(* A registered machine changes state. Left alone, an idle one stays put.  *)
Evolve == /\ vm \in Registered
          /\ IF Interference THEN vm' \in Registered \cup {"gone"}
                             ELSE vm \in Live /\ vm' \in Registered
          /\ UNCHANGED verdict

Removed == vm \in Off /\ vm' = "gone"

Remove == /\ verdict = "pending"
          /\ Removed
          /\ UNCHANGED verdict

Succeed == /\ verdict = "pending"
           /\ vm = "gone"
           /\ verdict' = "ok"
           /\ UNCHANGED vm

Fail == /\ verdict = "pending"
        /\ verdict' = "error"
        /\ Removed \/ UNCHANGED vm

Again == /\ verdict = "error"
         /\ verdict' = "pending"
         /\ UNCHANGED vm

Next == Evolve \/ Remove \/ Succeed \/ Fail \/ Again

Spec == Init /\ [][Next]_<<vm, verdict>>
=============================================================================
