----------------------------- MODULE MCBootOrder -----------------------------
(* One VM boots from the network first, the other has no boot_order.       *)
EXTENDS BootOrder

CONSTANTS netboot, plain
TwoVMs == {netboot, plain}
Orders == [v \in TwoVMs |-> IF v = netboot THEN <<"net", "disk">> ELSE <<>>]
=============================================================================
