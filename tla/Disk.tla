-------------------------------- MODULE Disk --------------------------------
(***************************************************************************)
(* A virtualbox_disk resource over repeated runs of Terraform, one action  *)
(* for each VBoxManage command. All commands name the disk by its path,    *)
(* which may hold somebody else's file. The format and the variant are one *)
(* value, which a resize does not change.                                  *)
(***************************************************************************)
EXTENDS Naturals, FiniteSets

CONSTANTS MaxEdits,   \* bound on changes of the configuration
          MaxEvents,  \* bound on what other users of the host do
          MaxFaults   \* bound on failing commands

VARIABLES want,  \* the configured disk, {} if there is none
          tf,    \* Terraform's record of it, {} if there is none
          host,  \* the disk at its path, {} if there is none
          pc,    \* where Terraform is
          edits, events, faults

vars == <<want, tf, host, pc, edits, events, faults>>
counters == <<edits, events, faults>>

Disks == [size : 1..2, form : 1..2]
Media == [size : 1..2, form : 1..2, own : BOOLEAN, busy : BOOLEAN]  \* busy: attached to a VM

Fault == faults < MaxFaults /\ faults' = faults + 1 /\ UNCHANGED <<edits, events>>

(* A failed update records what it was to do, a failed create nothing.     *)
Failed == pc' = "idle" /\ tf' = IF tf = {} THEN {} ELSE want

-----------------------------------------------------------------------------
(* resourceDiskRead. Any error of showmediuminfo counts as a missing disk. *)
Read(m) == [size |-> m.size, form |-> m.form]

Lookup == \/ tf' = {Read(m) : m \in host} /\ UNCHANGED counters
          \/ Fault /\ tf' = {}

Refresh == /\ pc \in {"idle", "clean"} /\ pc' = "plan"
           /\ IF tf = {} THEN UNCHANGED <<tf, counters>> ELSE Lookup
           /\ UNCHANGED <<want, host>>

Plan == /\ pc = "plan"
        /\ \/ want = {} /\ pc' = IF tf = {} THEN "clean" ELSE "remove"
           \/ tf = {} /\ want # {} /\ pc' = "create"
           \/ \E w \in want, e \in tf :
                pc' = IF e.form # w.form THEN "remove" ELSE IF e # w THEN "resize" ELSE "clean"
        /\ UNCHANGED <<want, tf, host, counters>>

-----------------------------------------------------------------------------
(* createmedium refuses a path that is taken.                              *)
Create ==
  /\ pc = "create"
  /\ \/ /\ host = {} /\ pc' = "lookup" /\ UNCHANGED <<tf, counters>>
        /\ host' = {[size |-> w.size, form |-> w.form, own |-> TRUE, busy |-> FALSE] : w \in want}
     \/ host # {} /\ Failed /\ UNCHANGED <<host, counters>>
     \/ Fault /\ Failed /\ UNCHANGED host
  /\ UNCHANGED want

(* The query for the UUID that becomes the id of a new disk.               *)
FindUuid == /\ pc = "lookup"
            /\ \/ host # {} /\ pc' = "read" /\ UNCHANGED <<tf, counters>>
               \/ host = {} /\ Failed /\ UNCHANGED counters
               \/ Fault /\ Failed
            /\ UNCHANGED <<want, host>>

Resize_ToOldSize ==                                                      \* mutant
  /\ pc = "resize" /\ pc' = "read" /\ UNCHANGED <<want, tf, host, counters>>

(* VirtualBox grows a disk that is not in use, and shrinks none.           *)
Resizable(m) == ~m.busy /\ \A w \in want : w.size >= m.size

Resize ==
  /\ pc = "resize"
  /\ \/ \E m \in host, w \in want : /\ Resizable(m) /\ host' = {[m EXCEPT !.size = w.size]}
                                    /\ pc' = "read" /\ UNCHANGED <<tf, counters>>
     \/ (\A m \in host : ~Resizable(m)) /\ Failed /\ UNCHANGED <<host, counters>>
     \/ Fault /\ Failed /\ UNCHANGED host
  /\ UNCHANGED want

(* The read that ends a create or an update; with an error it drops the    *)
(* record of a disk that has just been made.                               *)
FinalRead == pc = "read" /\ pc' = "idle" /\ Lookup /\ UNCHANGED <<want, host>>

(* closemedium --delete; in a replacement, the create comes next. Its error*)
(* is the exit status, in which a missing file is not recognised.          *)
Remove ==
  /\ pc = "remove"
  /\ \/ /\ \E m \in host : ~m.busy
        /\ host' = {} /\ tf' = {} /\ pc' = IF want = {} THEN "idle" ELSE "create"
        /\ UNCHANGED counters
     \/ (\A m \in host : m.busy) /\ pc' = "idle" /\ UNCHANGED <<tf, host, counters>>
     \/ Fault /\ pc' = "idle" /\ UNCHANGED <<tf, host>>
  /\ UNCHANGED want

-----------------------------------------------------------------------------
EditConfig == /\ pc \in {"idle", "clean"} /\ pc' = "idle"
              /\ edits < MaxEdits /\ edits' = edits + 1
              /\ want' \in {{}} \cup {{d} : d \in Disks}
              /\ UNCHANGED <<tf, host, events, faults>>

(* Another user attaches, detaches, resizes or deletes the disk, or puts   *)
(* one of their own in its place.                                          *)
Meddle == /\ events < MaxEvents /\ events' = events + 1
          /\ \/ \E m \in host : host' \in {{[m EXCEPT !.busy = ~@]}, {[m EXCEPT !.size = 2]}, {}}
             \/ host' \in {{m} : m \in {m \in Media : ~m.own /\ ~m.busy}}
          /\ UNCHANGED <<want, tf, pc, edits, faults>>

Init == /\ want \in {{d} : d \in Disks}
        /\ host \in {{}} \cup {{m} : m \in {m \in Media : ~m.own}}
        /\ tf = {} /\ pc = "idle"
        /\ edits = 0 /\ events = 0 /\ faults = 0

Apply == Plan \/ Create \/ FindUuid \/ Resize \/ FinalRead \/ Remove

Next == Refresh \/ Apply \/ EditConfig \/ Meddle

(* Terraform is run again and again, and its commands return.              *)
Fairness == WF_vars(Refresh) /\ WF_vars(Apply)

Spec == Init /\ [][Next]_vars /\ Fairness

TypeOK ==
  /\ want \subseteq Disks /\ Cardinality(want) <= 1
  /\ tf \subseteq Disks /\ Cardinality(tf) <= 1
  /\ host \subseteq Media /\ Cardinality(host) <= 1
  /\ pc \in {"idle", "plan", "clean", "create", "lookup", "resize", "read", "remove"}
  /\ edits \in 0..MaxEdits /\ events \in 0..MaxEvents /\ faults \in 0..MaxFaults

-----------------------------------------------------------------------------
(* Properties                                                              *)

Lost == pc \in {"idle", "clean"} /\ tf = {} /\ \E m \in host : m.own

(* A disk that the provider made is in Terraform's record between runs,    *)
(* unless a command failed or somebody else acted.                         *)
LossesComeFromFailures == Lost => faults + events > 0

(* Where repeating the apply does not help: a create finds the path taken, *)
(* by somebody or by a disk of the provider's whose record was dropped; an *)
(* update finds a disk that is in use or larger than asked for; a delete   *)
(* finds it in use.                                                        *)
Stuck == \/ pc = "create" /\ host # {}
         \/ pc = "resize" /\ \E m \in host : ~Resizable(m)
         \/ pc = "remove" /\ \E m \in host : m.busy

InPlace == want = {} \/ {Read(m) : m \in host} = want

Settled == (pc = "clean" /\ InPlace) \/ Stuck

(* Otherwise, applying again and again comes to a plan without changes for *)
(* a disk that is as asked for, after failed commands, replacements and    *)
(* the deeds of other users.                                               *)
Converges == []<>Settled
=============================================================================
