----------------------------- MODULE VMLifecycle -----------------------------
(***************************************************************************)
(* One virtualbox_vm resource over repeated runs of Terraform: refresh     *)
(* (resourceVMExists, resourceVMRead), plan, and apply (resourceVMCreate,  *)
(* resourceVMUpdate, or resourceVMDelete first for a tainted machine).     *)
(* The two states that must agree are Terraform's record of the machine    *)
(* and the machine registered in VirtualBox under the resource's name.     *)
(*                                                                         *)
(* The settings are three generations: `base' for what modifyVM sets and   *)
(* resourceVMRead reads back (cpus, memory, adapters), `flags' for what    *)
(* modifyVM sets and nothing reads back (os_type, vram, ioapic, pae,       *)
(* largepages, vtx_vpid), and `extras' for what the commands after it set, *)
(* which nothing reads back either (VMSettings has those one by one).      *)
(***************************************************************************)
EXTENDS Naturals, FiniteSets

CONSTANTS Paths,         \* ways to create the VM that occur
          Specs,         \* generations of settings the user may ask for
          Refused,       \* those that tfToVbox cannot convert
          BootLists,     \* lengths of the boot_order the user may write
          Prompt,        \* guests shut down within waitForPoweroff's 90 s
          Interference,  \* other users of the host operate VMs too
          MaxEdits,      \* bound on changes of the configuration
          MaxEvents,     \* bound on what happens outside Terraform
          MaxFaults      \* bound on failing commands and file operations

ASSUME ConstantsAssumption ==
  /\ Paths \subseteq {"image", "clone", "ova"}
  /\ Specs \subseteq Nat \ {0} /\ Refused \subseteq Specs
  /\ BootLists \subseteq 0..4
  /\ {Prompt, Interference} \subseteq BOOLEAN
  /\ {MaxEdits, MaxEvents, MaxFaults} \subseteq Nat

VARIABLES path,   \* how this VM is created: image, clone or ova
          want,   \* the configuration
          tf,     \* Terraform's record of the VM, {} if it has none
          host,   \* the machine registered under its name, {} if none
          pc,     \* where Terraform is
          edits, events, faults,
          \* auxiliary, for the properties only:
          failed, \* the last create or update ended with an error
          wrong,  \* tfToVbox has refused a configuration
          seen    \* the events before the last refresh or command that succeeded

counters == <<edits, events, faults>>
aux      == <<failed, wrong, seen>>
vars     == <<path, want, tf, host, pc, counters, aux>>

Powers  == {"poweroff", "running", "paused", "saved", "aborted"}
Live    == {"running", "paused"}
Slots   == 4
Configs == [status : {"running", "poweroff", "unset"}, spec : Specs, boot : BootLists]
Values  == Specs \cup {0}
Entries == [status : Powers \cup {"unset"}, base : Values, flags : Values, extras : Values,
            boot : 0..Slots, tainted : BOOLEAN]
Machines == [owner : {"provider", "other"}, power : Powers,
             base : Values, flags : Values, extras : Values]

Machine(o, p) == [owner |-> o, power |-> p, base |-> 0, flags |-> 0, extras |-> 0]

(* The machine that the UUID in Terraform's record can name.               *)
Ours == {m \in host : m.owner = "provider"}

Fault == faults < MaxFaults /\ faults' = faults + 1 /\ UNCHANGED <<edits, events>>

-----------------------------------------------------------------------------
(* What Terraform records                                                  *)

WantedStatus == IF want.status # "unset" \/ tf = {} THEN want.status
                ELSE (CHOOSE e \in tf : TRUE).status

Planned == [status |-> WantedStatus, base |-> want.spec, flags |-> want.spec,
            extras |-> want.spec, boot |-> want.boot, tainted |-> FALSE]

(* Mutants: cpus, memory and adapters are not read back; the status is not.*)
Read_KeepsMemory(e, m) == [e EXCEPT !.status = m.power, !.boot = Slots]
Read_KeepsStatus(e, m) == [e EXCEPT !.base = m.base, !.boot = Slots]

(* resourceVMRead over a record e of machine m. It reads back all the boot *)
(* slots VirtualBox has, and of what modifyVM sets only the base.          *)
Read(e, m) == [e EXCEPT !.status = m.power, !.base = m.base, !.boot = Slots]

(* An operation that fails records nothing of a VM it was creating, but    *)
(* the planned values of one it was updating.                              *)
Fails(w) == /\ pc' = "idle" /\ tf' = IF tf = {} THEN {} ELSE {Planned}
            /\ failed' = TRUE /\ wrong' = w /\ UNCHANGED seen
Failed == Fails(wrong)

-----------------------------------------------------------------------------
(* Refresh and plan                                                        *)

Refresh == /\ pc \in {"idle", "clean"}
           /\ \/ /\ pc' = "plan" /\ UNCHANGED counters
                 /\ tf' = {Read(e, m) : e \in tf, m \in Ours}
                 /\ seen' = events
              \/ tf # {} /\ Fault /\ pc' = "idle" /\ UNCHANGED <<tf, seen>>
           /\ UNCHANGED <<path, want, host, failed, wrong>>

Differs(e) == \/ want.status \notin {"unset", e.status}
              \/ e.base # want.spec
              \/ e.flags # want.spec
              \/ e.extras # want.spec
              \/ e.boot # want.boot

Plan == /\ pc = "plan"
        /\ \/ tf = {} /\ pc' = "register"
           \/ \E e \in tf : pc' = IF e.tainted THEN "replace"
                                  ELSE IF Differs(e) THEN "query" ELSE "clean"
        /\ UNCHANGED <<path, want, tf, host, counters, aux>>

-----------------------------------------------------------------------------
(* Create                                                                  *)

New == {Machine("provider", "poweroff")}

(* Mutants: a machine that has the name is unregistered for any kind of    *)
(* VM; an import does not unregister it first.                             *)
Register_Replaces ==
  /\ pc = "register" /\ pc' = "configure"
  /\ host' = New
  /\ UNCHANGED <<path, want, tf, counters, aux>>
Register_Duplicates ==
  /\ pc = "register" /\ pc' = "configure"
  /\ host' = IF path = "ova" THEN host \cup New ELSE New
  /\ UNCHANGED <<path, want, tf, counters, aux>>

(* createvm and clonevm refuse a name that is taken. So does import, but   *)
(* its retries first unregister a machine of that name that is not in use. *)
(* A create that fails after this command leaves the machine behind.       *)
NameIsFree == host = {} \/ (path = "ova" /\ \A m \in host : m.power \notin Live)

Register == /\ pc = "register"
            /\ \/ /\ NameIsFree /\ host' = New /\ pc' = "configure"
                  /\ UNCHANGED <<tf, counters, aux>>
               \/ ~NameIsFree /\ Failed /\ UNCHANGED <<host, counters>>
               \/ /\ Fault /\ Failed
                  /\ UNCHANGED host \/ (NameIsFree /\ host' = New)
            /\ UNCHANGED <<path, want>>

-----------------------------------------------------------------------------
(* Create and update: modifyVM, the settings after it, and the start       *)

(* A command on the VM that needs it in one of the power states ps, and    *)
(* leaves it as m2(m).                                                     *)
Command(ps, m2(_), next) ==
  /\ \/ \E m \in Ours : m.power \in ps /\ host' = {m2(m)} /\ pc' = next
                        /\ seen' = events /\ UNCHANGED <<tf, counters, failed, wrong>>
     \/ (\A m \in Ours : m.power \notin ps) /\ Failed /\ UNCHANGED <<host, counters>>
     \/ Fault /\ Failed /\ UNCHANGED host
  /\ UNCHANGED <<path, want>>

(* The errors of tfToVbox, which no command is to blame for: a memory size *)
(* that does not parse, an adapter of an unknown type or without the       *)
(* interface or network it needs.                                          *)
Converts == want.spec \notin Refused

Configure == /\ pc = "configure"
             /\ \/ /\ Converts
                   /\ LET m2(m) == [m EXCEPT !.base = want.spec, !.flags = want.spec]
                      IN  Command({"poweroff", "aborted"}, m2, "tune")
                \/ /\ ~Converts /\ Fails(TRUE)
                   /\ UNCHANGED <<path, want, host, counters>>

Tune == /\ pc = "tune"
        /\ LET m2(m) == [m EXCEPT !.extras = want.spec]
           IN  Command({"poweroff", "aborted"}, m2, "start")

Start == /\ pc = "start"
         /\ \/ /\ WantedStatus = "poweroff" /\ pc' = "finish"
               /\ UNCHANGED <<path, want, tf, host, counters, aux>>
            \/ /\ WantedStatus # "poweroff"
               /\ LET m2(m) == [m EXCEPT !.power = "running"]
                  IN  Command({"poweroff", "aborted", "saved"}, m2, "finish")

(* SetId for a new VM, and the final read. A read that fails taints a VM   *)
(* that has just been created.                                             *)
Finish_IdOnlyIfStarted ==                                                \* mutant
  /\ pc = "finish" /\ pc' = "idle"
  /\ tf' = IF WantedStatus = "poweroff" THEN tf ELSE {Read(Planned, m) : m \in Ours}
  /\ failed' = FALSE
  /\ UNCHANGED <<path, want, host, counters, wrong, seen>>

Finish == /\ pc = "finish" /\ pc' = "idle"
          /\ \/ /\ tf' = {Read(Planned, m) : m \in Ours} /\ failed' = FALSE
                /\ UNCHANGED counters
             \/ /\ Fault /\ failed' = TRUE
                /\ tf' = {[Planned EXCEPT !.tainted = (tf = {})]}
          /\ UNCHANGED <<path, want, host, wrong, seen>>

-----------------------------------------------------------------------------
(* Update up to modifyVM                                                   *)

Query_NoShutdown ==                                                      \* mutant
  /\ pc = "query"
  /\ LET m2(m) == m
         e == CHOOSE e \in tf : TRUE
     IN  Command(Powers, m2, IF want.status = "poweroff" THEN "wait" ELSE "configure")

(* Whether the VM has to be shut down is read off the recorded status.     *)
Query == /\ pc = "query"
         /\ LET m2(m) == m
                e == CHOOSE e \in tf : TRUE
            IN  Command(Powers, m2, IF e.status = "running" THEN "wait" ELSE "configure")

(* waitForPoweroff's polls: only "poweroff" will do; "aborted" or no       *)
(* machine is an error, and so is running out of time.                     *)
WaitForPoweroff ==
  /\ pc = "wait"
  /\ \/ \E m \in Ours : m.power = "poweroff" /\ pc' = "configure" /\ UNCHANGED <<tf, counters, aux>>
     \/ (\A m \in Ours : m.power = "aborted") /\ Failed /\ UNCHANGED counters
     \/ /\ \E m \in Ours : m.power \in {"paused", "saved"} \cup (IF Prompt THEN {} ELSE {"running"})
        /\ Failed /\ UNCHANGED counters
     \/ Fault /\ Failed
  /\ UNCHANGED <<path, want, host>>

-----------------------------------------------------------------------------
(* Destroy, of a tainted VM before it is created again or by the user; how *)
(* is in VMDelete. One that fails keeps the record, and may already have   *)
(* powered the VM off or even unregistered it.                             *)
Delete(next) == /\ \/ host' = host \ Ours /\ tf' = {} /\ pc' = next /\ UNCHANGED faults
                   \/ /\ faults < MaxFaults /\ faults' = faults + 1 /\ pc' = "idle"
                      /\ host' \in {host, host \ Ours} \cup
                                   {{[m EXCEPT !.power = "poweroff"]} : m \in Ours}
                      /\ UNCHANGED tf
                /\ UNCHANGED <<path, want, events, aux>>

Replace == pc = "replace" /\ Delete("register") /\ UNCHANGED edits

Destroy == /\ pc \in {"idle", "clean"} /\ tf # {}
           /\ edits < MaxEdits /\ edits' = edits + 1
           /\ Delete("idle")

EditConfig == /\ pc \in {"idle", "clean"} /\ pc' = "idle"
              /\ edits < MaxEdits /\ edits' = edits + 1
              /\ want' \in Configs
              /\ UNCHANGED <<path, tf, host, events, faults, aux>>

-----------------------------------------------------------------------------
(* The guest and the other users of the host                               *)

(* The guest acts on the ACPI button.                                      *)
GuestObeys == /\ pc = "wait"
              /\ \E m \in Ours : m.power = "running" /\ host' = {[m EXCEPT !.power = "poweroff"]}
              /\ UNCHANGED <<path, want, tf, pc, counters, aux>>

Event == events < MaxEvents /\ events' = events + 1
         /\ UNCHANGED <<path, want, tf, pc, edits, faults, aux>>

GuestStops ==
  /\ Event
  /\ \E m \in host, p \in {"poweroff", "aborted"} :
       m.power = "running" /\ host' = {[m EXCEPT !.power = p]}

Meddle ==
  /\ Interference /\ Event
  /\ \/ \E m \in host, p \in Powers \ {"aborted"} : host' = {[m EXCEPT !.power = p]}
     \/ host # {} /\ host' = {}
     \/ host = {} /\ host' = {Machine("other", "poweroff")}

-----------------------------------------------------------------------------
Init == /\ path \in Paths /\ want \in Configs
        /\ tf = {} /\ pc = "idle"
        /\ host \in {{}} \cup {{Machine("other", p)} : p \in {"poweroff", "running"}}
        /\ edits = 0 /\ events = 0 /\ faults = 0
        /\ failed = FALSE /\ wrong = FALSE /\ seen = 0

Apply == \/ Plan \/ Register \/ Configure \/ Tune \/ Start \/ Finish
         \/ Query \/ WaitForPoweroff \/ Replace

Next == Refresh \/ Apply \/ Destroy \/ EditConfig \/ GuestObeys \/ GuestStops \/ Meddle

(* The user runs Terraform again and again, every run gets on, and a guest *)
(* that is asked to shut down does.                                        *)
Fairness == WF_vars(Refresh) /\ WF_vars(Apply) /\ WF_vars(GuestObeys)

Spec == Init /\ [][Next]_vars /\ Fairness

TypeOK ==
  /\ path \in Paths /\ want \in Configs
  /\ tf \subseteq Entries /\ Cardinality(tf) <= 1
  /\ host \subseteq Machines /\ Cardinality(host) <= 1
  /\ pc \in {"idle", "clean", "plan", "register", "configure", "tune", "start",
             "finish", "query", "wait", "replace"}
  /\ edits \in 0..MaxEdits /\ events \in 0..MaxEvents /\ faults \in 0..MaxFaults
  /\ failed \in BOOLEAN /\ wrong \in BOOLEAN /\ seen \in 0..events

-----------------------------------------------------------------------------
(* Properties                                                              *)

(* A VM that is not created from an OVA and finds its name taken leaves    *)
(* the other machine alone in every run of Terraform, whatever fails: only *)
(* its own user, or the guest, changes it.                                 *)
OthersMachineUntouched ==
  [][path # "ova" /\ host # Ours /\ host' # host => events' # events]_vars

(* After an apply that found nothing to do, the VM has the cpus, memory and*)
(* adapters of the configuration, even if earlier applies failed half way  *)
(* and recorded values they had not applied. The settings that no read     *)
(* fetches (the flags of modifyVM and what the commands after it set) it   *)
(* has unless the last create or update ended with an error.               *)
CleanPlanMeansConfigured ==
  pc = "clean" => \A m \in Ours : /\ m.base = want.spec
                                  /\ failed \/ (m.flags = want.spec /\ m.extras = want.spec)

(* A create or update that ended well, or one that found nothing to do,    *)
(* leaves the VM in the power state asked for (a crashed VM counts as off),*)
(* also if the record was stale when it began, unless the guest or somebody*)
(* changed the VM after the last command that it needed.                   *)
SuccessMeansStatus ==
  [][(pc' = "clean" \/ (pc = "finish" /\ ~failed')) /\ events' = seen' =>
       \A m \in Ours' : /\ want.status = "running" => m.power = "running"
                        /\ want.status = "poweroff" => m.power \in {"poweroff", "aborted"}]_vars

(* A machine the provider registered is in Terraform's record whenever no  *)
(* apply is going on, unless a command failed, somebody else acted, or a   *)
(* configuration was one that tfToVbox, which comes after the machine has  *)
(* been registered, cannot convert.                                        *)
OrphansComeFromFailures ==
  pc \in {"idle", "clean"} /\ Ours # {} /\ tf = {} => faults + events > 0 \/ wrong

(* The situations that repeating the apply does not get out of: a          *)
(* configuration that cannot be converted, a name taken by somebody's      *)
(* machine or by one that a failed create left behind, a VM that is paused *)
(* or saved (modifyvm needs it off), and a crashed VM wanted off, which    *)
(* stays "aborted".                                                        *)
Stuck == /\ pc = "idle"
         /\ \/ ~Converts
            \/ tf = {} /\ ~NameIsFree
            \/ \E m \in Ours : m.power \in {"paused", "saved"}
            \/ want.status = "poweroff" /\ \E m \in Ours : m.power = "aborted"

(* Outside these, applying again and again comes to an empty plan.         *)
Converges == []<>(pc = "clean" \/ Stuck)
=============================================================================
