------------------------------ MODULE BootOrder ------------------------------
(***************************************************************************)
(* The boot order of the VMs that one provider process creates or updates  *)
(* concurrently. tfToVbox assigns the package variable defaultBootOrder, a *)
(* slice, to vm.BootOrder and then writes the configured devices through   *)
(* it; modifyVM reads its arguments from there. So all VMs share one       *)
(* array, without a lock. A Go string is a pointer and a length, written   *)
(* one after the other: a concurrent read may see one of each.             *)
(***************************************************************************)
EXTENDS Naturals, Sequences

CONSTANTS VMs,      \* the machines in the making
          Slots,    \* boot slots (4 in the code)
          Devices,  \* devices a slot may name
          Asked     \* Asked[v]: the boot_order in the configuration of v

VARIABLES defaultBootOrder,  \* the shared array
          pc,                \* pc[v]: "write" in tfToVbox, "read" in modifyVM
          i,                 \* i[v]: index of the loop v is in
          args               \* args[v]: the --bootN arguments v has built

vars == <<defaultBootOrder, pc, i, args>>

Str(d)  == [ptr |-> d, len |-> d]
Default == [k \in 1..Slots |-> IF k = 1 THEN Str("disk") ELSE Str("none")]

WritePtr(v) ==
  /\ pc[v] = "write" /\ i[v] <= Len(Asked[v])
  /\ defaultBootOrder' = [defaultBootOrder EXCEPT ![i[v]].ptr = Asked[v][i[v]]]
  /\ pc' = [pc EXCEPT ![v] = "writeLen"]
  /\ UNCHANGED <<i, args>>

WriteLen(v) ==
  /\ pc[v] = "writeLen"
  /\ defaultBootOrder' = [defaultBootOrder EXCEPT ![i[v]].len = Asked[v][i[v]]]
  /\ pc' = [pc EXCEPT ![v] = "write"]
  /\ i' = [i EXCEPT ![v] = @ + 1]
  /\ UNCHANGED args

Written(v) == /\ pc[v] = "write" /\ i[v] > Len(Asked[v])
              /\ pc' = [pc EXCEPT ![v] = "read"]
              /\ i' = [i EXCEPT ![v] = 1]
              /\ UNCHANGED <<defaultBootOrder, args>>

ReadSlot(v) == /\ pc[v] = "read"
               /\ args' = [args EXCEPT ![v] = Append(@, defaultBootOrder[i[v]])]
               /\ i' = [i EXCEPT ![v] = @ + 1]
               /\ pc' = [pc EXCEPT ![v] = IF i[v] = Slots THEN "done" ELSE "read"]
               /\ UNCHANGED defaultBootOrder

Init == /\ defaultBootOrder = Default
        /\ pc = [v \in VMs |-> "write"] /\ i = [v \in VMs |-> 1]
        /\ args = [v \in VMs |-> <<>>]

Next == \E v \in VMs : WritePtr(v) \/ WriteLen(v) \/ Written(v) \/ ReadSlot(v)

Spec == Init /\ [][Next]_vars

-----------------------------------------------------------------------------
(* The boot order the configuration of v stands for.                       *)
Expected(v) == [k \in 1..Slots |-> IF k <= Len(Asked[v]) THEN Str(Asked[v][k])
                                   ELSE Default[k]]

(* "boot_order - Boot device order" (docs/resources/vm.md:123) is of the  *)
(* one resource: no VM gets the whole order of another one that asks for   *)
(* something else, whatever strings are torn besides.                      *)
NoOthersBootOrder ==
  \A u, v \in VMs : pc[v] = "done" /\ args[v] = Expected(u) => Expected(u) = Expected(v)
=============================================================================
