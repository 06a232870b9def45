------------------------------ MODULE Adapters ------------------------------
(***************************************************************************)
(* The network adapters of one VM: netTfToVbox, the part of modifyVM that  *)
(* is about adapters, applyNICSettings command by command, and what        *)
(* parseMachineInfo and netVboxToTf make of the machine, from the create   *)
(* over repeated runs of Terraform. A VM that could not be created is left *)
(* to VMLifecycle.                                                         *)
(***************************************************************************)
EXTENDS Naturals, Sequences, FiniteSets

CONSTANTS Configs,   \* what network_adapter may be: sequences of adapters
          Machines,  \* the adapters a machine may have before the create
          Slots,     \* how many adapters a machine has room for
          MaxEdits,  \* bound on changes of the configuration
          MaxEvents, \* bound on what other users of the machine do
          MaxFaults  \* bound on failing commands

VARIABLES want,  \* the configured adapters
          tf,    \* Terraform's record of them, {} before the VM is recorded
          host,  \* the machine's adapters, of type "none" if there is none
          pc,    \* where Terraform is
          nic,   \* the adapter that applyNICSettings is at
          rule,  \* the port forwarding rule of it
          kept,  \* the record is what an apply wrote, and its read has kept
          stale, \* auxiliary: since the machine was read or written whole,
                 \* an apply has failed or somebody has changed the machine
          gap,   \* auxiliary: an adapter came behind an empty slot, at the
                 \* beginning or when somebody changed the machine
          edits, events, faults

vars == <<want, tf, host, pc, nic, rule, kept, stale, gap, edits, events, faults>>
counters == <<edits, events, faults>>

(* The words of Terraform and of VirtualBox: the same for all types but    *)
(* one, a device has a name and a raw value.                               *)
Types  == {"nat", "bridged", "hostonly", "internal", "generic", "natnetwork"}
Words  == (Types \ {"internal"}) \cup {"intnet"}
RawOf  == [PCIII |-> "Am79C970A", IntelPro1000MTServer |-> "82545EM", VirtIO |-> "virtio"]
NetIsNeeded == {"bridged", "hostonly", "natnetwork"}

Rules    == [name : STRING, port : STRING]   \* port: the protocol and the host port
Adapters == [type : STRING, device : STRING, net : STRING, promisc : BOOLEAN,   \* allowed
             cable : BOOLEAN, dns : BOOLEAN, rules : Seq(Rules)]
SlotType == [type : Words \cup {"none"}, device : STRING, net : STRING, promisc : BOOLEAN,
             cable : BOOLEAN, dns : BOOLEAN, rules : SUBSET Rules]

Fault == faults < MaxFaults /\ faults' = faults + 1 /\ UNCHANGED <<edits, events>>

(* A failed update records what it was to do, a failed create nothing.     *)
Failed == /\ stale' = TRUE
          /\ IF tf = {} THEN pc' = "lost" /\ UNCHANGED tf ELSE pc' = "idle" /\ tf' = {want}

-----------------------------------------------------------------------------
(* Reading                                                                 *)

Raw(d)    == IF d \in DOMAIN RawOf THEN RawOf[d] ELSE d
Name(raw) == IF \E d \in DOMAIN RawOf : RawOf[d] = raw
             THEN CHOOSE d \in DOMAIN RawOf : RawOf[d] = raw ELSE raw

Type(word) == IF word = "intnet" THEN "internal" ELSE word

IsAttached(s) == s.type # "none"

Attached_AsManyAsWanted ==                                               \* mutant
  LET all == SelectSeq(host, IsAttached) IN [i \in DOMAIN all \cap DOMAIN want |-> all[i]]

(* The adapters that are there, in the order of their slots.               *)
Attached == LET there == {i \in DOMAIN host : IsAttached(host[i])} IN
  [k \in 1..Cardinality(there) |->
     host[CHOOSE i \in there : Cardinality({j \in there : j <= i}) = k]]

(* The settings that the list of VirtualBox is not searched for get their  *)
(* defaults.                                                               *)
Reported == [i \in DOMAIN Attached |->
               [type |-> Type(Attached[i].type), device |-> Name(Attached[i].device), net |-> Attached[i].net,
                promisc |-> FALSE, cable |-> TRUE, dns |-> FALSE, rules |-> <<>>]]

(* A running guest whose tools do not report all of its adapters yet makes *)
(* netVboxToTf return without setting anything.                            *)
Refresh == /\ pc \in {"idle", "clean"}
           /\ \/ /\ pc' = "plan" /\ tf' = {Reported} /\ kept' = FALSE /\ stale' = FALSE
                 /\ UNCHANGED counters
              \/ pc' = "plan" /\ UNCHANGED <<tf, kept, stale, counters>>
              \/ pc' = "idle" /\ Fault /\ UNCHANGED <<tf, kept, stale>>
           /\ UNCHANGED <<want, host, nic, rule, gap>>

(* Two names of one device make no difference.                             *)
SameAdapter(a, b) == [a EXCEPT !.device = Raw(@)] = [b EXCEPT !.device = Raw(@)]
SameAdapters(s, t) == Len(s) = Len(t) /\ \A i \in DOMAIN s : SameAdapter(s[i], t[i])

Plan == /\ pc = "plan" /\ \E e \in tf : pc' = IF SameAdapters(e, want) THEN "clean" ELSE "convert"
        /\ UNCHANGED <<want, tf, host, nic, rule, kept, stale, gap, counters>>

-----------------------------------------------------------------------------
(* Writing                                                                 *)

(* The error of an unknown type is overwritten by the conversion of the    *)
(* device, so that an empty word goes to modifyvm.                         *)
Network(type) == IF type \in Types THEN type ELSE ""

Convertible(w) == w.device \in DOMAIN RawOf /\ (w.type \in NetIsNeeded => w.net # "")

Convert == /\ pc = "convert"
           /\ IF \A i \in DOMAIN want : Convertible(want[i])
              THEN pc' = "modify" /\ UNCHANGED <<tf, stale>> ELSE Failed
           /\ UNCHANGED <<want, host, nic, rule, kept, gap, counters>>

Modified_KeepsDevice(s, w) ==                                            \* mutant
  [s EXCEPT !.type = Network(w.type), !.net = IF w.type \in NetIsNeeded THEN w.net ELSE ""]

Modified(s, w) == [s EXCEPT !.type = Network(w.type), !.device = Raw(w.device),
                            !.net = IF w.type \in NetIsNeeded THEN w.net ELSE ""]

(* One command for all configured adapters; those after them stay.         *)
Accepted == Len(want) <= Slots /\ \A i \in DOMAIN want : Network(want[i].type) \in Words

Modify ==
  /\ pc = "modify"
  /\ \/ /\ Accepted /\ stale' = FALSE /\ UNCHANGED <<tf, counters>>
        /\ host' = [i \in DOMAIN host |-> IF i \in DOMAIN want THEN Modified(host[i], want[i]) ELSE host[i]]
        /\ nic' = 1 /\ pc' = IF want = <<>> THEN "read" ELSE "promisc"
     \/ ~Accepted /\ Failed /\ UNCHANGED <<host, nic, counters>>
     \/ Fault /\ Failed /\ UNCHANGED <<host, nic>>
  /\ UNCHANGED <<want, rule, kept, gap>>

(* The commands for an adapter in their order, what each sets, and when it *)
(* is issued. GetOk takes a false cable_connected for unset.               *)
After == [promisc |-> "cable", cable |-> "dns", dns |-> "net", net |-> "rules", rules |-> "add"]

Passed(w, f) == CASE f = "promisc" -> w.promisc
                  [] f = "cable"   -> w.cable
                  [] f = "dns"     -> w.type = "nat" /\ w.dns
                  [] f = "net"     -> w.type = "natnetwork"
                  [] f = "rules"   -> w.type = "nat" \/ (w.type = "natnetwork" /\ w.rules # <<>>)

(* "rules" deletes the rules there are; its error is ignored.              *)
NicSetting ==
  /\ pc \in DOMAIN After
  /\ LET w == want[nic] IN
       \/ /\ Passed(w, pc) /\ host' = [host EXCEPT ![nic][pc] = IF pc = "rules" THEN {} ELSE w[pc]]
          /\ pc' = After[pc] /\ UNCHANGED <<tf, stale, counters>>
       \/ ~Passed(w, pc) /\ pc' = After[pc] /\ UNCHANGED <<tf, host, stale, counters>>
       \/ /\ Passed(w, pc) /\ Fault /\ UNCHANGED host
          /\ IF pc = "rules" THEN pc' = "add" /\ UNCHANGED <<tf, stale>> ELSE Failed
  /\ rule' = 1 /\ UNCHANGED <<want, nic, kept, gap>>

NextNic == IF nic < Len(want) THEN nic' = nic + 1 /\ pc' = "promisc" ELSE pc' = "read" /\ UNCHANGED nic

AddRule_Skipped ==                                                       \* mutant
  /\ pc = "add" /\ NextNic /\ UNCHANGED <<want, tf, host, rule, kept, stale, gap, counters>>

(* VirtualBox refuses a second rule of a name.                             *)
AddRule ==
  /\ pc = "add"
  /\ LET w == want[nic]
         more == w.type \in {"nat", "natnetwork"} /\ rule <= Len(w.rules)
         free == more /\ \A r \in host[nic].rules : r.name # w.rules[rule].name
     IN \/ ~more /\ NextNic /\ UNCHANGED <<tf, host, rule, stale, counters>>
        \/ /\ free /\ host' = [host EXCEPT ![nic].rules = @ \cup {w.rules[rule]}]
           /\ rule' = rule + 1 /\ UNCHANGED <<tf, pc, nic, stale, counters>>
        \/ more /\ ~free /\ Failed /\ UNCHANGED <<host, nic, rule, counters>>
        \/ more /\ Fault /\ Failed /\ UNCHANGED <<host, nic, rule>>
  /\ UNCHANGED <<want, kept, gap>>

(* The read that ends a create or an update. When it leaves the record as  *)
(* it was, that is the plan, or what a poll of waitUntilVMIsReady has read. *)
FinalRead ==
  /\ pc = "read"
  /\ \/ pc' = "idle" /\ tf' = {Reported} /\ kept' = FALSE /\ stale' = FALSE /\ UNCHANGED counters
     \/ pc' = "idle" /\ tf' = {want} /\ kept' = TRUE /\ UNCHANGED <<stale, counters>>
     \/ Fault /\ Failed /\ UNCHANGED kept
  /\ UNCHANGED <<want, host, nic, rule, gap>>

-----------------------------------------------------------------------------
EditConfig == /\ pc \in {"idle", "clean"} /\ pc' = "idle"
              /\ edits < MaxEdits /\ edits' = edits + 1 /\ want' \in Configs
              /\ UNCHANGED <<tf, host, nic, rule, kept, stale, gap, events, faults>>

Gapless(h) == \A i, j \in DOMAIN h : i <= j /\ IsAttached(h[j]) => IsAttached(h[i])

(* Another user detaches an adapter, makes it a NAT adapter or drops its   *)
(* rules.                                                                  *)
Meddle == /\ events < MaxEvents /\ events' = events + 1
          /\ \E i \in DOMAIN host : host' \in {[host EXCEPT ![i].type = "none"],
                                               [host EXCEPT ![i].type = "nat", ![i].net = ""],
                                               [host EXCEPT ![i].rules = {}]}
          /\ stale' = TRUE /\ gap' = (gap \/ ~Gapless(host'))
          /\ UNCHANGED <<want, tf, pc, nic, rule, kept, edits, faults>>

Init == /\ want \in Configs /\ host \in Machines
        /\ tf = {} /\ pc = "convert" /\ nic = 1 /\ rule = 1
        /\ kept = FALSE /\ stale = FALSE /\ gap = ~Gapless(host)
        /\ edits = 0 /\ events = 0 /\ faults = 0

Apply == Plan \/ Convert \/ Modify \/ NicSetting \/ AddRule \/ FinalRead

Next == Refresh \/ Apply \/ EditConfig \/ Meddle

(* Terraform is run again and again, and its commands return.              *)
Fairness == WF_vars(Refresh) /\ WF_vars(Apply)

Spec == Init /\ [][Next]_vars /\ Fairness

TypeOK ==
  /\ want \in Configs /\ host \in [1..Slots -> SlotType]
  /\ Cardinality(tf) <= 1 /\ \A e \in tf : e \in Seq(Adapters)
  /\ pc \in {"idle", "plan", "clean", "convert", "modify", "add", "read", "lost"} \cup DOMAIN After
  /\ nic \in 1..Slots /\ rule \in Nat /\ {kept, stale, gap} \subseteq BOOLEAN
  /\ edits \in 0..MaxEdits /\ events \in 0..MaxEvents /\ faults \in 0..MaxFaults

-----------------------------------------------------------------------------
(* Properties                                                              *)

Has(s, w) == /\ IsAttached(s) /\ Type(s.type) = w.type /\ s.device = Raw(w.device)
             /\ w.type \in NetIsNeeded => s.net = w.net

InOrder(at) == \A k, l \in DOMAIN at : k < l => at[k] < at[l]

(* A plan without changes means that the configured adapters are attached, *)
(* in their order, with their types, devices and networks, that there are  *)
(* no others, and that they are in the slots of their numbers. Three cases *)
(* are named: since the machine was last read or written whole, an apply   *)
(* has failed or somebody has changed the machine, and reads that keep the *)
(* record hide it (stale); the record is what an apply wrote, and hides    *)
(* adapters behind those configured (kept); and a slot before an attached  *)
(* adapter was empty when the machine came or was changed, and the list    *)
(* does not show it (gap).                                                 *)
CleanPlanMeansAdapters ==
  pc = "clean" /\ ~stale =>
    /\ \E at \in [DOMAIN want -> DOMAIN host] :
         InOrder(at) /\ \A k \in DOMAIN want : Has(host[at[k]], want[k])
    /\ ~kept => Cardinality({i \in DOMAIN host : IsAttached(host[i])}) = Len(want)
    /\ ~gap => \A i \in DOMAIN want : Has(host[i], want[i])

RulesOf(w) == {w.rules[j] : j \in DOMAIN w.rules}

(* When all commands of an apply have succeeded, the configured ports are  *)
(* forwarded; a NAT adapter has no other rules unless a command failed.    *)
PortsForwarded ==
  pc = "read" /\ events = 0 =>
    \A i \in DOMAIN want :
      want[i].type \in {"nat", "natnetwork"} =>
        /\ RulesOf(want[i]) \subseteq host[i].rules
        /\ want[i].type = "nat" /\ faults = 0 => host[i].rules = RulesOf(want[i])

(* Where repeating the apply does not help: the configuration cannot be    *)
(* written, has settings that the read resets, or the machine has more     *)
(* adapters than are configured.                                           *)
Unreadable == \E i \in DOMAIN want : \/ want[i].promisc \/ want[i].dns \/ ~want[i].cable
                                     \/ want[i].rules # <<>>

Refused == ~Accepted \/ \E i \in DOMAIN want : ~Convertible(want[i])

Stuck == pc = "lost" \/ Unreadable \/ Refused \/ Len(Reported) > Len(want)

(* Otherwise, applying again and again comes to a plan without changes,    *)
(* after failed commands, incomplete reads and the deeds of other users.   *)
AdaptersConverge == []<>(pc = "clean" \/ Stuck)
=============================================================================
