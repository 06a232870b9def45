------------------------------- MODULE Export -------------------------------
(***************************************************************************)
(* virtualbox_vm_export resources with output paths in one directory, over *)
(* repeated runs of Terraform, which handles them concurrently. A resource *)
(* is called by the base name of its path, the extension gives the format. *)
(* VirtualBox writes an OVA as one file and an OVF as several, "vmdk" for  *)
(* all but the first.                                                      *)
(***************************************************************************)
EXTENDS Naturals, FiniteSets

CONSTANTS Bases,      \* the resources
          Prefix,     \* pairs <<b, c>>: the base name c begins with b
          MaxEdits,   \* bound on changes of the configuration
          MaxEvents,  \* bound on what other users of the directory do
          MaxFaults   \* bound on failing commands and system calls

VARIABLES want,   \* the extension each is to have, "none" if it is not configured
          tf,     \* the extension each has in Terraform's record, or "none"
          files,  \* the files in the directory
          todo,   \* the paths that a delete has found and not removed yet
          pc,     \* where Terraform is with each
          edits, events, faults

vars == <<want, tf, files, todo, pc, edits, events, faults>>
counters == <<edits, events, faults>>

Extensions == {"ova", "ovf"}
Paths == Bases \X (Extensions \cup {"vmdk"})
Files == [path : Paths, own : BOOLEAN]       \* own: written by the resource

Taken == {f.path : f \in files}

Fault == faults < MaxFaults /\ faults' = faults + 1 /\ UNCHANGED <<edits, events>>

Goto(e, p)   == pc' = [pc EXCEPT ![e] = p]
Record(e, x) == tf' = [tf EXCEPT ![e] = x]

-----------------------------------------------------------------------------
(* A run of Terraform reads all resources, plans, and applies the plans.   *)
AtRest == \A e \in Bases : pc[e] \in {"idle", "clean"}

Start == AtRest /\ pc' = [e \in Bases |-> "refresh"] /\ UNCHANGED <<want, tf, files, todo, counters>>

(* resourceVMExportRead looks for the file of the path only; it keeps the  *)
(* record when the file is there and when stat fails otherwise.            *)
Refresh(e) == /\ pc[e] = "refresh" /\ Goto(e, "plan")
              /\ \/ Record(e, IF <<e, tf[e]>> \in Taken THEN tf[e] ELSE "none") /\ UNCHANGED counters
                 \/ tf[e] # "none" /\ Fault /\ UNCHANGED tf
              /\ UNCHANGED <<want, files, todo>>

(* Every argument forces a replacement.                                    *)
Planned(e) == CASE want[e] = tf[e]   -> "clean"
                [] tf[e] # "none"    -> "remove"
                [] OTHER             -> "export"

Plan == /\ \A e \in Bases : pc[e] = "plan"
        /\ pc' = [e \in Bases |-> Planned(e)]
        /\ UNCHANGED <<want, tf, files, todo, counters>>

-----------------------------------------------------------------------------
(* VBoxManage export refuses a path that is taken; an export that fails in *)
(* the middle may leave what it has written.                               *)
Target(e) == <<e, IF pc[e] = "export" THEN want[e] ELSE "vmdk">>

Export(e) ==
  /\ pc[e] \in {"export", "disks"}
  /\ \/ /\ Target(e) \notin Taken /\ UNCHANGED counters
        /\ files' = files \cup {[path |-> Target(e), own |-> TRUE]}
        /\ Goto(e, IF pc[e] = "export" /\ want[e] = "ovf" THEN "disks" ELSE "record")
     \/ /\ \/ Target(e) \in Taken /\ UNCHANGED counters
           \/ Fault
        /\ Goto(e, "idle")
        /\ files' \in {files, {f \in files : ~f.own \/ f.path # <<e, "ovf">> \/ pc[e] = "export"}}
  /\ UNCHANGED <<want, tf, todo>>

SetId(e) == /\ pc[e] = "record" /\ Goto(e, "idle") /\ Record(e, want[e])
            /\ UNCHANGED <<want, files, todo, counters>>

-----------------------------------------------------------------------------
(* os.Remove of a path, whose errors are ignored.                          *)
RemoveFile(p) == \/ files' = {f \in files : f.path # p} /\ UNCHANGED counters
                 \/ p \in Taken /\ Fault /\ UNCHANGED files

Matches_AnyFile(e) == Taken                                              \* mutant

(* filepath.Glob(base + "*")                                               *)
Matches(e) == {p \in Taken : p[1] = e \/ <<e, p[1]>> \in Prefix}

RemoveMain(e) == /\ pc[e] = "remove" /\ RemoveFile(<<e, tf[e]>>)
                 /\ Goto(e, IF tf[e] = "ovf" THEN "glob" ELSE "forget")
                 /\ UNCHANGED <<want, tf, todo>>

Glob(e) == /\ pc[e] = "glob" /\ Goto(e, "sweep") /\ todo' = [todo EXCEPT ![e] = Matches(e)]
           /\ UNCHANGED <<want, tf, files, counters>>

Sweep(e) == /\ pc[e] = "sweep"
            /\ \/ \E p \in todo[e] : /\ RemoveFile(p) /\ todo' = [todo EXCEPT ![e] = @ \ {p}]
                                     /\ UNCHANGED pc
               \/ todo[e] = {} /\ Goto(e, "forget") /\ UNCHANGED <<files, todo, counters>>
            /\ UNCHANGED <<want, tf>>

(* In a replacement the create comes next.                                 *)
Forget(e) == /\ pc[e] = "forget" /\ Record(e, "none")
             /\ Goto(e, IF want[e] = "none" THEN "idle" ELSE "export")
             /\ UNCHANGED <<want, files, todo, counters>>

-----------------------------------------------------------------------------
EditConfig(e) == /\ AtRest /\ Goto(e, "idle")
                 /\ edits < MaxEdits /\ edits' = edits + 1
                 /\ \E x \in Extensions \cup {"none"} : want' = [want EXCEPT ![e] = x]
                 /\ UNCHANGED <<tf, files, todo, events, faults>>

(* Another user removes a file or puts one of their own there.             *)
Meddle == /\ events < MaxEvents /\ events' = events + 1
          /\ \/ \E f \in files : files' = files \ {f}
             \/ \E p \in Paths \ Taken : files' = files \cup {[path |-> p, own |-> FALSE]}
          /\ UNCHANGED <<want, tf, todo, pc, edits, faults>>

Init == /\ want \in [Bases -> Extensions]
        /\ files \in {{}} \cup {{[path |-> p, own |-> FALSE]} : p \in Paths}
        /\ tf = [e \in Bases |-> "none"] /\ todo = [e \in Bases |-> {}]
        /\ pc = [e \in Bases |-> "idle"]
        /\ edits = 0 /\ events = 0 /\ faults = 0

Reads == Start \/ \E e \in Bases : Refresh(e)

Apply == \/ Plan
         \/ /\ \A e \in Bases : pc[e] \notin {"refresh", "plan"}
            /\ \E e \in Bases : Export(e) \/ SetId(e) \/ RemoveMain(e) \/ Glob(e) \/ Sweep(e) \/ Forget(e)

Next == Reads \/ Apply \/ Meddle \/ \E e \in Bases : EditConfig(e)

(* Terraform is run again and again, and its commands return.              *)
Fairness == WF_vars(Reads) /\ WF_vars(Apply)

Spec == Init /\ [][Next]_vars /\ Fairness

TypeOK ==
  /\ {want, tf} \subseteq [Bases -> Extensions \cup {"none"}]
  /\ files \subseteq Files /\ \A f, g \in files : f.path = g.path => f = g
  /\ \A e \in Bases : /\ todo[e] \subseteq Paths
                      /\ pc[e] # "sweep" => todo[e] = {}
  /\ pc \in [Bases -> {"idle", "refresh", "plan", "clean", "export", "disks", "record",
                       "remove", "glob", "sweep", "forget"}]
  /\ edits \in 0..MaxEdits /\ events \in 0..MaxEvents /\ faults \in 0..MaxFaults

-----------------------------------------------------------------------------
(* Properties                                                              *)

Whole(e) == LET parts == IF tf[e] = "ovf" THEN {"ovf", "vmdk"} ELSE {tf[e]}
            IN  \A x \in parts : [path |-> <<e, x>>, own |-> TRUE] \in files

(* The exports whose base name begins with that of another one: a delete   *)
(* of the other one, as an OVF, removes their files as well.               *)
Exposed(e) == \E b \in Bases : <<b, e>> \in Prefix

(* Any other export is recorded only while all its files are there,        *)
(* whatever is exported and deleted at the same time, and whatever fails.  *)
ExportsAreWhole ==
  events = 0 => \A e \in Bases : pc[e] \in {"idle", "clean"} /\ tf[e] # "none" /\ ~Exposed(e) => Whole(e)

(* Files of an export that Terraform has no record of come only from a     *)
(* failed step or from another user.                                       *)
LossesComeFromFailures ==
  \A e \in Bases :
    pc[e] \in {"idle", "clean"} /\ tf[e] = "none" /\ ~Exposed(e) /\ (\E f \in files : f.own /\ f.path[1] = e)
      => \/ faults + events > 0
         \/ \E f \in files : ~f.own /\ f.path[1] = e

(* Where repeating the apply does not help: a file is in the way, somebody *)
(* else's or one that an ignored or interrupted step left.                 *)
Stuck(e) == pc[e] = "idle" /\ tf[e] = "none" /\ \E f \in files : f.path[1] = e

Settled(e) == pc[e] = "clean" \/ Stuck(e)

(* Otherwise, applying again and again comes to an empty plan.             *)
Converges == \A e \in Bases : []<>Settled(e)
=============================================================================
