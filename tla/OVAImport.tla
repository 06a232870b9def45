------------------------------ MODULE OVAImport ------------------------------
(***************************************************************************)
(* The start of resourceVMCreate for VMs that come from an OVA: concurrent *)
(* creates take importOpMutex and run importOVAWithRetry, which tries the  *)
(* import three times and, before it tries again, unregisters the machine  *)
(* that has the target name. The provider may be killed at any point; the  *)
(* next run of Terraform starts over with what VirtualBox is left with.    *)
(***************************************************************************)
EXTENDS Naturals, FiniteSets

CONSTANTS VMs,         \* the virtual machine resources that are created
          Names,       \* names of machines
          Name,        \* Name[v]: the name configured for v
          Attempts,    \* attempts at an import (3 in the code)
          Strangers,   \* names that other users' machines may have at the start
          MaxFaults    \* bound on failing commands and kills

ASSUME ConstantsAssumption == /\ Name \in [VMs -> Names]
                              /\ Attempts \in Nat \ {0} /\ MaxFaults \in Nat
                              /\ Strangers \subseteq Names

VARIABLES host,     \* host[n]: the machine registered under the name n
          pc,       \* pc[v]: where the create of v is
          attempt,  \* attempt[v]: its attempt at the import
          mutex,    \* holders of importOpMutex
          faults

vars == <<host, pc, attempt, mutex, faults>>

(* A machine is absent, left half made by a failed import, imported for a  *)
(* resource, or another user's (off or in use).                            *)
Absent   == [kind |-> "absent"]
Partial  == [kind |-> "partial"]
Machines == {Absent, Partial} \cup [kind : {"imported"}, for : VMs]
              \cup [kind : {"stranger"}, live : BOOLEAN]

Fault == faults < MaxFaults /\ faults' = faults + 1

Goto(v, step) == pc' = [pc EXCEPT ![v] = step]

-----------------------------------------------------------------------------
Lock_Skipped(v) ==                                                       \* mutant
  /\ pc[v] = "start" /\ mutex' = mutex \cup {v}
  /\ Goto(v, "import") /\ UNCHANGED <<host, attempt, faults>>

Lock(v) == /\ pc[v] = "start"
           /\ mutex = {} /\ mutex' = {v}
           /\ Goto(v, "import")
           /\ UNCHANGED <<host, attempt, faults>>

(* VBoxManage import starts.                                               *)
Begin(v) == /\ pc[v] = "import"
            /\ Goto(v, "importing")
            /\ UNCHANGED <<host, attempt, mutex, faults>>

(* Another import is going on in VBoxSVC.                                  *)
Contended(v) == \E w \in VMs \ {v} : pc[w] = "importing"

(* Mutants: one attempt too many; the lock kept after the last one.        *)
Retry_OneTooMany(v) == IF attempt[v] <= Attempts
                       THEN /\ attempt' = [attempt EXCEPT ![v] = @ + 1]
                            /\ Goto(v, "cleanup") /\ UNCHANGED mutex
                       ELSE /\ Goto(v, "failed") /\ mutex' = mutex \ {v}
                            /\ UNCHANGED attempt
Retry_HoldsLock(v) == IF attempt[v] < Attempts
                      THEN /\ attempt' = [attempt EXCEPT ![v] = @ + 1]
                           /\ Goto(v, "cleanup") /\ UNCHANGED mutex
                      ELSE Goto(v, "failed") /\ UNCHANGED <<mutex, attempt>>

(* After a failed attempt: the next one, or the error of the last.         *)
Retry(v) == IF attempt[v] < Attempts
            THEN /\ attempt' = [attempt EXCEPT ![v] = @ + 1]
                 /\ Goto(v, "cleanup") /\ UNCHANGED mutex
            ELSE /\ Goto(v, "failed") /\ mutex' = mutex \ {v}
                 /\ UNCHANGED attempt

Succeed(v) ==
  /\ pc[v] = "importing"
  /\ host[Name[v]] = Absent /\ ~Contended(v)
  /\ host' = [host EXCEPT ![Name[v]] = [kind |-> "imported", for |-> v]]
  /\ Goto(v, "done") /\ mutex' = mutex \ {v}
  /\ UNCHANGED <<attempt, faults>>

Fail_TakesExisting(v) ==                                                 \* mutant
  /\ pc[v] = "importing" /\ UNCHANGED faults
  /\ host[Name[v]] # Absent
  /\ Goto(v, "done") /\ mutex' = mutex \ {v} /\ UNCHANGED <<host, attempt>>

(* The name is taken, VBoxSVC is busy with another import, or any failure. *)
Fail(v) ==
  /\ pc[v] = "importing"
  /\ Retry(v)
  /\ \/ (Contended(v) \/ host[Name[v]] # Absent) /\ UNCHANGED faults
     \/ Fault
  /\ \/ UNCHANGED host
     \/ host[Name[v]] = Absent /\ host' = [host EXCEPT ![Name[v]] = Partial]

InUse(m) == m.kind = "stranger" /\ m.live

Cleanup_Nothing(v) ==                                                    \* mutant
  /\ pc[v] = "cleanup" /\ Goto(v, "import") /\ UNCHANGED <<host, attempt, mutex, faults>>

(* getMachine by name and unregistervm --delete by UUID; VirtualBox keeps  *)
(* a machine that is in use, and errors of either command are ignored.     *)
Cleanup(v) ==
  /\ pc[v] = "cleanup"
  /\ Goto(v, "import")
  /\ \/ /\ host' = IF InUse(host[Name[v]]) THEN host
                   ELSE [host EXCEPT ![Name[v]] = Absent]
        /\ UNCHANGED faults
     \/ Fault /\ UNCHANGED host
  /\ UNCHANGED <<attempt, mutex>>

(* The provider is killed. VirtualBox may or may not finish an import that *)
(* is going on.                                                            *)
Kill ==
  /\ Fault
  /\ \E v \in VMs : pc[v] \notin {"done", "failed"}
  /\ pc' = [v \in VMs |-> IF pc[v] \in {"done", "failed"} THEN pc[v] ELSE "start"]
  /\ attempt' = [v \in VMs |-> IF pc[v] \in {"done", "failed"} THEN attempt[v] ELSE 1]
  /\ mutex' = {}
  /\ \/ UNCHANGED host
     \/ \E v \in VMs :
          /\ pc[v] = "importing" /\ host[Name[v]] = Absent
          /\ host' \in {[host EXCEPT ![Name[v]] = m] :
                          m \in {Partial, [kind |-> "imported", for |-> v]}}

-----------------------------------------------------------------------------
Init == /\ host \in [Names -> {Absent} \cup [kind : {"stranger"}, live : BOOLEAN]]
        /\ \A n \in Names \ Strangers : host[n] = Absent
        /\ pc = [v \in VMs |-> "start"] /\ attempt = [v \in VMs |-> 1]
        /\ mutex = {} /\ faults = 0

Create(v) == Lock(v) \/ Begin(v) \/ Succeed(v) \/ Fail(v) \/ Cleanup(v)

Next == Kill \/ \E v \in VMs : Create(v)

(* sync.Mutex lets every waiter in eventually; a command returns.          *)
Fairness == \A v \in VMs : SF_vars(Lock(v)) /\ WF_vars(Create(v))

Spec == Init /\ [][Next]_vars /\ Fairness

TypeOK == /\ host \in [Names -> Machines]
          /\ pc \in [VMs -> {"start", "import", "importing", "cleanup", "done", "failed"}]
          /\ attempt \in [VMs -> 1..Attempts]
          /\ mutex \subseteq VMs
          /\ faults \in 0..MaxFaults

-----------------------------------------------------------------------------
(* Properties                                                              *)

(* "they run one at a time within a provider process" (resource_vm.go:17): *)
(* while one create is between its lock and its unlock, no other is; the   *)
(* retries, the backoff and the removal of leftovers included.             *)
OneAtATime ==
  \A v, w \in VMs : {pc[v], pc[w]} \subseteq {"import", "importing", "cleanup"} => v = w

(* "Clean up a partially registered VM from the failed attempt"            *)
(* (crud:756): a retry removes no machine that was complete.               *)
OnlyPartialsRemoved ==
  [][\A n \in Names : host'[n] = Absent => host[n].kind \in {"absent", "partial"}]_vars

(* With names of their own that nobody else has taken, the imports survive *)
(* any failures as long as there are fewer of them than attempts: leftovers*)
(* of a failed attempt or of a killed provider, and the other imports, do  *)
(* not use up attempts for good.                                           *)
FailuresAreCounted == (\E v \in VMs : pc[v] = "failed") => faults >= Attempts

(* A create that has gone on from the import finds its own machine.        *)
DoneMeansImported ==
  \A v \in VMs : pc[v] = "done" => host[Name[v]] = [kind |-> "imported", for |-> v]

(* Every create ends, one way or the other.                                *)
AllEnd == \A v \in VMs : <>(pc[v] \in {"done", "failed"})
=============================================================================
