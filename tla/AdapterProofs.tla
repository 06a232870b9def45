---------------------------- MODULE AdapterProofs ----------------------------
(***************************************************************************)
(* Proofs about the network adapters of a VM, for every configuration and  *)
(* new machine, and any number of slots, edits and failing commands. The   *)
(* settings and the storage leave the adapters alone. At the end, the      *)
(* types of all parts of a VM.                                             *)
(***************************************************************************)
EXTENDS VMSettingsProofs, FiniteSetTheorems

Commands == {"promisc", "cable", "dns", "net", "rules"}
Written  == Commands \cup {"add", "read"}

LEMMA SomeSlots == Slots \in Nat \ {0}
BY ConstantsAssumption

LEMMA AfterCommands == DOMAIN Nics!After = Commands
BY DEF Nics!After, Commands

LEMMA AfterPromisc ==
  /\ Nics!After["promisc"] = "cable" /\ Nics!After["cable"] = "dns" /\ Nics!After["dns"] = "net"
  /\ Nics!After["net"] = "rules" /\ Nics!After["rules"] = "add"
BY DEF Nics!After

-----------------------------------------------------------------------------
(* Slots                                                                   *)

Fields    == {"type", "device", "net", "promisc", "cable", "dns", "rules"}
Shaped(s) == DOMAIN s = Fields /\ s = [f \in Fields |-> s[f]]

LEMMA SlotsAreShaped ==
  ASSUME NEW s \in Nics!SlotType
  PROVE  Shaped(s)
BY DEF Nics!SlotType, Shaped, Fields

LEMMA ChangedSlot ==
  ASSUME NEW s, Shaped(s), NEW f \in Fields, NEW x
  PROVE  /\ Shaped([s EXCEPT ![f] = x])
         /\ [s EXCEPT ![f] = x][f] = x
         /\ \A g \in Fields \ {f} : [s EXCEPT ![f] = x][g] = s[g]
BY DEF Shaped

LEMMA ModifiedSlot ==
  ASSUME NEW s, Shaped(s), NEW w
  PROVE  /\ Shaped(Nics!Modified(s, w))
         /\ Nics!Modified(s, w).type = Nics!Network(w.type)
         /\ Nics!Modified(s, w).device = Nics!Raw(w.device)
         /\ w.type \in Nics!NetIsNeeded => Nics!Modified(s, w).net = w.net
<1> DEFINE net == IF w.type \in Nics!NetIsNeeded THEN w.net ELSE ""
           ty  == Nics!Network(w.type)
           dev == Nics!Raw(w.device)
<1>1. Nics!Modified(s, w) = [s EXCEPT !.type = ty, !.device = dev, !.net = net]
  BY DEF Nics!Modified
<1> HIDE DEF net, ty, dev
<1>2. /\ Shaped([s EXCEPT !.type = ty, !.device = dev, !.net = net])
      /\ [s EXCEPT !.type = ty, !.device = dev, !.net = net].type = ty
      /\ [s EXCEPT !.type = ty, !.device = dev, !.net = net].device = dev
      /\ [s EXCEPT !.type = ty, !.device = dev, !.net = net].net = net
  BY DEF Shaped, Fields
<1> QED
  BY <1>1, <1>2 DEF ty, dev, net

-----------------------------------------------------------------------------
(* Types: where Terraform is, and that applyNICSettings keeps to the       *)
(* adapters and rules of a configuration that modifyvm has accepted.       *)

HostTyped(h) == DOMAIN h = 1..Slots /\ h = [i \in 1..Slots |-> h[i]] /\ \A i \in 1..Slots : Shaped(h[i])

NicsTyped ==
  /\ want \in Configs /\ HostTyped(host)
  /\ pc \in {"idle", "plan", "clean", "convert", "modify", "lost"} \cup Written
  /\ events \in Nat /\ faults \in Nat
  /\ pc \in {"modify"} \cup Written => \A i \in DOMAIN want : Nics!Convertible(want[i])
  /\ pc \in Written => Nics!Accepted
  /\ pc \in Commands \cup {"add"} => nic \in 1..Len(want)
  /\ pc = "add" => rule \in 1..(Len(want[nic].rules) + 1)

LEMMA Wanted ==
  ASSUME NicsTyped
  PROVE  /\ Len(want) \in Nat /\ DOMAIN want = 1..Len(want)
         /\ \A i \in DOMAIN want : /\ Len(want[i].rules) \in Nat
                                   /\ DOMAIN want[i].rules = 1..Len(want[i].rules)
<1>1. want \in Seq(Nics!Adapters)
  BY ConstantsAssumption DEF NicsTyped
<1>2. Len(want) \in Nat /\ DOMAIN want = 1..Len(want)
  BY <1>1
<1>3. ASSUME NEW i \in DOMAIN want
      PROVE  want[i].rules \in Seq(Nics!Rules)
  <2>1. want[i] \in Nics!Adapters
    BY <1>1
  <2> QED
    BY <2>1 DEF Nics!Adapters
<1>4. ASSUME NEW i \in DOMAIN want
      PROVE  Len(want[i].rules) \in Nat /\ DOMAIN want[i].rules = 1..Len(want[i].rules)
  BY <1>3
<1> QED
  BY <1>2, <1>4

LEMMA ChangedHost ==
  ASSUME HostTyped(host), NEW i \in 1..Slots, NEW f \in Fields, NEW x, host' = [host EXCEPT ![i][f] = x]
  PROVE  /\ HostTyped(host')
         /\ host'[i][f] = x
         /\ \A g \in Fields \ {f} : host'[i][g] = host[i][g]
         /\ \A j \in (1..Slots) \ {i} : host'[j] = host[j]
<1> DEFINE s == [host[i] EXCEPT ![f] = x]
<1>1. Shaped(s) /\ s[f] = x /\ \A g \in Fields \ {f} : s[g] = host[i][g]
  <2>1. Shaped(host[i])
    BY DEF HostTyped
  <2> HIDE DEF s
  <2>2. \A t : Shaped(t) => /\ Shaped([t EXCEPT ![f] = x])
                            /\ [t EXCEPT ![f] = x][f] = x
                            /\ \A g \in Fields \ {f} : [t EXCEPT ![f] = x][g] = t[g]
    BY ChangedSlot
  <2> QED
    BY <2>1, <2>2 DEF s
<1>2. host' = [host EXCEPT ![i] = s]
  OBVIOUS
<1> HIDE DEF s
<1> QED
  BY <1>1, <1>2 DEF HostTyped

LEMMA ModifiedHost ==
  ASSUME HostTyped(host),
         host' = [i \in DOMAIN host |-> IF i \in DOMAIN want THEN Nics!Modified(host[i], want[i]) ELSE host[i]]
  PROVE  /\ HostTyped(host')
         /\ \A i \in 1..Slots :
              IF i \in DOMAIN want
              THEN /\ host'[i].type = Nics!Network(want[i].type) /\ host'[i].device = Nics!Raw(want[i].device)
                   /\ want[i].type \in Nics!NetIsNeeded => host'[i].net = want[i].net
              ELSE host'[i] = host[i]
<1>1. DOMAIN host = 1..Slots /\ \A i \in 1..Slots : Shaped(host[i])
  BY DEF HostTyped
<1>2. DOMAIN host' = 1..Slots /\ host' = [i \in 1..Slots |-> host'[i]]
  BY <1>1
<1>3. \A i \in 1..Slots : host'[i] = IF i \in DOMAIN want THEN Nics!Modified(host[i], want[i]) ELSE host[i]
  BY <1>1
<1>4. ASSUME NEW i \in DOMAIN want, i \in 1..Slots
      PROVE  /\ Shaped(host'[i])
             /\ host'[i].type = Nics!Network(want[i].type) /\ host'[i].device = Nics!Raw(want[i].device)
             /\ want[i].type \in Nics!NetIsNeeded => host'[i].net = want[i].net
  <2>1. host'[i] = Nics!Modified(host[i], want[i])
    BY <1>3, <1>4
  <2>2. Shaped(host[i])
    BY <1>1, <1>4
  <2> QED
    BY <2>1, <2>2, ModifiedSlot
<1>5. \A i \in 1..Slots : i \notin DOMAIN want => host'[i] = host[i]
  BY <1>3
<1>6. \A i \in 1..Slots : Shaped(host'[i])
  BY <1>1, <1>4, <1>5
<1>7. HostTyped(host')
  BY <1>2, <1>6 DEF HostTyped
<1> QED
  BY <1>4, <1>5, <1>7

(* What the steps do to the slots, as far as no other user acts.           *)
LEMMA HostSteps ==
  ASSUME NicsTyped, Nics!Next, ~Nics!Meddle
  PROVE  \/ host' = host
         \/ /\ pc = "modify" /\ Nics!Accepted
            /\ host' = [i \in DOMAIN host |-> IF i \in DOMAIN want THEN Nics!Modified(host[i], want[i]) ELSE host[i]]
         \/ /\ pc \in Commands /\ nic \in 1..Slots /\ \E x : host' = [host EXCEPT ![nic][pc] = x]
         \/ /\ pc = "add" /\ nic \in 1..Slots /\ \E x : host' = [host EXCEPT ![nic]["rules"] = x]
<1>1. pc \in Commands \cup {"add"} => nic \in 1..Slots
  <2> SUFFICES ASSUME pc \in Commands \cup {"add"} PROVE nic \in 1..Slots
    OBVIOUS
  <2>1. nic \in 1..Len(want) /\ Len(want) <= Slots /\ Len(want) \in Nat /\ Slots \in Nat
    BY Wanted, ConstantsAssumption DEF NicsTyped, Written, Nics!Accepted
  <2> QED
    BY <2>1
<1>2. CASE Nics!Refresh \/ Nics!Plan \/ Nics!Convert \/ Nics!FinalRead \/ Nics!EditConfig
  BY <1>2 DEF Nics!Refresh, Nics!Plan, Nics!Convert, Nics!FinalRead, Nics!EditConfig
<1>3. CASE Nics!Modify
  BY <1>3 DEF Nics!Modify
<1>4. CASE Nics!NicSetting
  <2>1. host' = host \/ host' = [host EXCEPT ![nic][pc] = IF pc = "rules" THEN {} ELSE want[nic][pc]]
    BY <1>4 DEF Nics!NicSetting
  <2> QED
    BY <1>1, <1>4, <2>1, AfterCommands DEF Nics!NicSetting
<1>5. CASE Nics!AddRule
  <2>1. \/ host' = host
        \/ host' = [host EXCEPT ![nic]["rules"] = host[nic]["rules"] \cup {want[nic].rules[rule]}]
    BY <1>5 DEF Nics!AddRule
  <2> QED
    BY <1>1, <1>5, <2>1 DEF Nics!AddRule
<1> QED
  BY <1>2, <1>3, <1>4, <1>5 DEF Nics!Next, Nics!Apply

LEMMA MeddledHost ==
  ASSUME HostTyped(host), Nics!Meddle
  PROVE  HostTyped(host')
<1>1. PICK i \in DOMAIN host : host' \in {[host EXCEPT ![i].type = "none"],
                                          [host EXCEPT ![i].type = "nat", ![i].net = ""],
                                          [host EXCEPT ![i].rules = {}]}
  BY DEF Nics!Meddle
<1>2. i \in 1..Slots /\ Shaped(host[i])
  BY DEF HostTyped
<1> DEFINE s == [host[i] EXCEPT !.type = "nat"]
<1>3. \A x : \A f \in {"type", "rules"} : Shaped([host[i] EXCEPT ![f] = x])
  BY <1>2, ChangedSlot DEF Fields
<1>4. Shaped(s)
  BY <1>3
<1>5. Shaped([s EXCEPT !.net = ""])
  <2> HIDE DEF s
  <2> QED
    BY <1>4, ChangedSlot DEF Fields
<1>6. \E x : Shaped(x) /\ host' = [host EXCEPT ![i] = x]
  <2>1. CASE host' = [host EXCEPT ![i].type = "none"]
    BY <1>3, <2>1
  <2>2. CASE host' = [host EXCEPT ![i].rules = {}]
    BY <1>3, <2>2
  <2>3. CASE host' = [host EXCEPT ![i].type = "nat", ![i].net = ""]
    <3>1. host' = [host EXCEPT ![i] = [s EXCEPT !.net = ""]]
      BY <1>2, <2>3 DEF HostTyped
    <3> QED
      BY <1>5, <3>1
  <2> QED
    BY <1>1, <2>1, <2>2, <2>3
<1> QED
  BY <1>2, <1>6 DEF HostTyped

LEMMA NicsNextTyped ==
  ASSUME NicsTyped, Nics!Next
  PROVE  NicsTyped'
<1> DEFINE Goal == NicsTyped'
<1> USE DEF Nics!Fault, Nics!Failed, Nics!counters
<1>1. ASSUME Nics!Refresh PROVE Goal
  BY <1>1 DEF Nics!Refresh, NicsTyped, Written, Commands
<1>2. ASSUME Nics!Plan PROVE Goal
  BY <1>2 DEF Nics!Plan, NicsTyped, Written, Commands
<1>3. ASSUME Nics!Convert PROVE Goal
  BY <1>3 DEF Nics!Convert, NicsTyped, Written, Commands
<1>4. ASSUME Nics!FinalRead PROVE Goal
  BY <1>4 DEF Nics!FinalRead, NicsTyped, Written, Commands
<1>5. ASSUME Nics!EditConfig PROVE Goal
  BY <1>5 DEF Nics!EditConfig, NicsTyped, Written, Commands
<1>6. ASSUME Nics!Modify PROVE Goal
  <2>1. HostTyped(host')
    <3>1. CASE host' = host
      BY <3>1 DEF NicsTyped
    <3>2. CASE host' = [i \in DOMAIN host |-> IF i \in DOMAIN want THEN Nics!Modified(host[i], want[i]) ELSE host[i]]
      BY <3>2, ModifiedHost DEF NicsTyped
    <3> QED
      BY <1>6, <3>1, <3>2 DEF Nics!Modify
  <2>2. want # <<>> => 1 \in 1..Len(want)
    BY ConstantsAssumption DEF NicsTyped
  <2> QED
    BY <1>6, <2>1, <2>2 DEF Nics!Modify, Nics!Accepted, NicsTyped, Written, Commands
<1>7. ASSUME Nics!NicSetting PROVE Goal
  <2>1. pc \in Commands /\ nic \in 1..Len(want) /\ nic \in 1..Slots
    BY <1>7, AfterCommands, Wanted, ConstantsAssumption DEF Nics!NicSetting, NicsTyped, Written, Nics!Accepted
  <2>2. HostTyped(host')
    <3>1. CASE host' = host
      BY <3>1 DEF NicsTyped
    <3>2. CASE host' = [host EXCEPT ![nic][pc] = IF pc = "rules" THEN {} ELSE want[nic][pc]]
      <4>1. pc \in Fields
        BY <2>1 DEF Fields, Commands
      <4> QED
        BY <2>1, <3>2, <4>1, ChangedHost DEF NicsTyped
    <3> QED
      BY <1>7, <3>1, <3>2 DEF Nics!NicSetting
  <2>3. \/ pc' = Nics!After[pc]
        \/ pc' = "add"
        \/ pc' \in {"lost", "idle"}
    BY <1>7 DEF Nics!NicSetting
  <2>4. pc' \in {"lost", "idle"} \cup Written
    BY <2>1, <2>3, AfterPromisc DEF Commands, Written
  <2>5. rule' = 1 /\ UNCHANGED <<want, nic>> /\ events' \in Nat /\ faults' \in Nat
    BY <1>7 DEF Nics!NicSetting, NicsTyped
  <2>6. 1 \in 1..(Len(want[nic].rules) + 1)
    BY <2>1, Wanted
  <2> QED
    BY <2>1, <2>2, <2>4, <2>5, <2>6 DEF NicsTyped, Written, Commands, Nics!Accepted
<1>8. ASSUME Nics!AddRule PROVE Goal
  <2>1. pc = "add" /\ nic \in 1..Len(want) /\ nic \in 1..Slots /\ nic \in DOMAIN want
    BY <1>8, Wanted, ConstantsAssumption DEF Nics!AddRule, NicsTyped, Written, Nics!Accepted
  <2>2. HostTyped(host')
    <3>1. CASE host' = host
      BY <3>1 DEF NicsTyped
    <3>2. CASE host' = [host EXCEPT ![nic]["rules"] = host[nic]["rules"] \cup {want[nic].rules[rule]}]
      BY <2>1, <3>2, ChangedHost DEF NicsTyped, Fields
    <3> QED
      BY <1>8, <3>1, <3>2 DEF Nics!AddRule
  <2>3. Len(want) \in Nat /\ Len(want[nic].rules) \in Nat
    BY <2>1, Wanted
  <2>4. UNCHANGED want /\ events' \in Nat /\ faults' \in Nat
    BY <1>8 DEF Nics!AddRule, NicsTyped
  <2>5. \/ pc' \in {"lost", "idle", "read"}
        \/ pc' = "promisc" /\ nic' \in 1..Len(want)
        \/ pc' = "add" /\ nic' = nic /\ rule' \in 1..(Len(want[nic].rules) + 1)
    <3>1. rule \in 1..(Len(want[nic].rules) + 1)
      BY <2>1 DEF NicsTyped
    <3> DEFINE n == Len(want)
               k == Len(want[nic].rules)
    <3>2. n \in Nat /\ k \in Nat /\ rule \in 1..(k + 1) /\ nic \in 1..n
      BY <2>1, <2>3, <3>1
    <3>3. \/ pc' \in {"lost", "idle"}
          \/ nic < n /\ nic' = nic + 1 /\ pc' = "promisc"
          \/ pc' = "read"
          \/ pc' = "add" /\ nic' = nic /\ rule <= k /\ rule' = rule + 1
      BY <1>8, <2>1 DEF Nics!AddRule, Nics!NextNic
    <3>4. pc' = "promisc" /\ nic < n /\ nic' = nic + 1 => nic' \in 1..n
      <4> HIDE DEF n, k
      <4> QED BY <3>2
    <3>5. rule <= k /\ rule' = rule + 1 => rule' \in 1..(k + 1)
      <4> HIDE DEF n, k
      <4> QED BY <3>2
    <3> QED
      BY <3>3, <3>4, <3>5
  <2> QED
    BY <2>1, <2>2, <2>4, <2>5 DEF NicsTyped, Written, Commands, Nics!Accepted
<1>9. ASSUME Nics!Meddle PROVE Goal
  <2>1. HostTyped(host')
    BY <1>9, MeddledHost DEF NicsTyped
  <2>2. UNCHANGED <<want, pc, nic, rule, faults>> /\ events' \in Nat
    BY <1>9 DEF Nics!Meddle, NicsTyped
  <2> QED
    BY <2>1, <2>2 DEF NicsTyped, Nics!Accepted
<1>10. QED
  BY <1>1, <1>2, <1>3, <1>4, <1>5, <1>6, <1>7, <1>8, <1>9 DEF Nics!Next, Nics!Apply

LEMMA NicsInitTyped ==
  ASSUME Nics!Init
  PROVE  NicsTyped
<1>1. host \in [1..Slots -> Nics!SlotType]
  BY ConstantsAssumption DEF Nics!Init
<1>2. HostTyped(host)
  BY <1>1, SlotsAreShaped DEF HostTyped
<1> QED
  BY <1>2 DEF Nics!Init, NicsTyped, Written, Commands

-----------------------------------------------------------------------------
(* Ports: the adapters before the one that applyNICSettings is at have     *)
(* their rules, and that one has those up to the rule it is at.            *)

Wide(w)        == w.type \in {"nat", "natnetwork"}
FirstRules(w, k) == {w.rules[j] : j \in 1..k}

Forwarded(i) == Wide(want[i]) =>
                  /\ Nics!RulesOf(want[i]) \subseteq host[i].rules
                  /\ want[i].type = "nat" /\ faults = 0 => host[i].rules = Nics!RulesOf(want[i])

Behind(i) == pc = "read" \/ (pc \in Commands \cup {"add"} /\ i < nic)

PortsSafe ==
  events = 0 =>
    /\ \A i \in DOMAIN want : Behind(i) => Forwarded(i)
    /\ pc = "add" /\ Wide(want[nic]) =>
         /\ FirstRules(want[nic], rule - 1) \subseteq host[nic].rules
         /\ want[nic].type = "nat" /\ faults = 0 => host[nic].rules = FirstRules(want[nic], rule - 1)

LEMMA ForwardedStays ==
  ASSUME NEW i, Forwarded(i), want' = want, host'[i] = host[i], faults \in Nat, faults' \in {faults, faults + 1}
  PROVE  Forwarded(i)'
<1>1. faults' = 0 => faults = 0
  OBVIOUS
<1> QED
  BY <1>1 DEF Forwarded, Wide, Nics!RulesOf

LEMMA PortsKept ==
  ASSUME NicsTyped, PortsSafe, Nics!Next
  PROVE  PortsSafe'
<1> DEFINE Goal == PortsSafe'
<1> USE DEF Nics!Fault, Nics!Failed, Nics!counters
<1>1. ASSUME pc' \notin {"read", "add"} \cup Commands PROVE Goal
  BY <1>1 DEF PortsSafe, Behind
<1>2. ASSUME Nics!Refresh \/ Nics!Plan \/ Nics!Convert \/ Nics!FinalRead \/ Nics!EditConfig PROVE Goal
  <2>1. pc' \notin {"read", "add"} \cup Commands
    BY <1>2 DEF Nics!Refresh, Nics!Plan, Nics!Convert, Nics!FinalRead, Nics!EditConfig, Commands
  <2> QED
    BY <1>1, <2>1
<1>3. ASSUME Nics!Modify PROVE Goal
  <2>1. CASE pc' \notin {"read", "add"} \cup Commands
    BY <1>1, <2>1
  <2>2. CASE pc' = "read" /\ want = <<>> /\ want' = want
    <3>1. DOMAIN want' = {}
      BY <2>2
    <3> QED
      BY <2>2, <3>1 DEF PortsSafe
  <2>3. CASE pc' = "promisc" /\ nic' = 1 /\ want' = want
    <3>1. \A i \in DOMAIN want' : ~(i < nic')
      BY <2>3, Wanted
    <3> QED
      BY <2>3, <3>1 DEF PortsSafe, Behind
  <2> QED
    BY <1>3, <2>1, <2>2, <2>3 DEF Nics!Modify, Commands
<1>4. ASSUME Nics!Meddle PROVE Goal
  BY <1>4 DEF Nics!Meddle, PortsSafe, NicsTyped
<1>5. ASSUME Nics!NicSetting PROVE Goal
  <2>1. pc \in Commands /\ nic \in 1..Len(want) /\ nic \in 1..Slots /\ DOMAIN want \subseteq 1..Slots
    BY <1>5, AfterCommands, Wanted, ConstantsAssumption DEF Nics!NicSetting, NicsTyped, Written, Nics!Accepted
  <2>2. UNCHANGED <<want, nic>> /\ events' = events /\ rule' = 1 /\ faults' \in {faults, faults + 1}
    BY <1>5 DEF Nics!NicSetting
  <2>3. \A i \in 1..Slots \ {nic} : host'[i] = host[i]
    <3>1. CASE host' = [host EXCEPT ![nic][pc] = IF pc = "rules" THEN {} ELSE want[nic][pc]]
      BY <3>1
    <3> QED
      BY <1>5, <3>1 DEF Nics!NicSetting
  <2>4. pc' # "read"
    BY <1>5, <2>1, AfterPromisc DEF Nics!NicSetting, Commands
  <2>5. ASSUME events' = 0, NEW i \in DOMAIN want', Behind(i)'
        PROVE  Forwarded(i)'
    <3>1. i < nic /\ i \in DOMAIN want /\ i \in 1..Slots /\ i # nic
      BY <2>1, <2>2, <2>4, <2>5 DEF Behind
    <3>2. Forwarded(i)
      BY <2>1, <2>2, <2>5, <3>1 DEF PortsSafe, Behind
    <3> QED
      BY <2>2, <2>3, <3>1, <3>2, ForwardedStays DEF NicsTyped
  <2>6. ASSUME pc' = "add"
        PROVE  /\ FirstRules(want'[nic'], rule' - 1) = {}
               /\ want'[nic'].type = "nat" /\ faults' = 0 => host'[nic'].rules = {}
    <3>1. pc = "rules"
      BY <1>5, <2>1, <2>6, AfterPromisc DEF Nics!NicSetting, Commands
    <3>2. FirstRules(want[nic], 0) = {}
      BY DEF FirstRules
    <3>3. ASSUME want[nic].type = "nat", faults' = 0
          PROVE  host'[nic].rules = {}
      <4>1. faults' # faults + 1
        BY <3>3 DEF NicsTyped
      <4>2. host' = [host EXCEPT ![nic]["rules"] = {}]
        BY <1>5, <3>1, <3>3, <4>1 DEF Nics!NicSetting, Nics!Passed
      <4> QED
        BY <2>1, <4>2, ChangedHost DEF NicsTyped, Fields
    <3> QED
      BY <2>2, <3>2, <3>3
  <2> QED
    BY <2>5, <2>6 DEF PortsSafe
<1>6. ASSUME Nics!AddRule PROVE Goal
  <2> DEFINE w == want[nic]
             n == Len(want)
             k == Len(want[nic].rules)
  <2>1. /\ pc = "add" /\ nic \in 1..n /\ nic \in 1..Slots /\ n \in Nat
        /\ k \in Nat /\ rule \in 1..(k + 1) /\ DOMAIN w.rules = 1..k /\ DOMAIN want = 1..n /\ n <= Slots
    BY <1>6, Wanted, ConstantsAssumption DEF Nics!AddRule, NicsTyped, Written, Nics!Accepted
  <2>2. want' = want /\ events' = events /\ faults' \in {faults, faults + 1}
    BY <1>6 DEF Nics!AddRule
  <2>3. CASE pc' \in {"idle", "lost"}
    BY <1>1, <2>3 DEF Commands
  <2>4. ASSUME UNCHANGED <<host, faults>>, ~(Wide(w) /\ rule <= k), Nics!NextNic PROVE Goal
    <3>1. SUFFICES ASSUME events' = 0, NEW i \in DOMAIN want', Behind(i)'
                   PROVE  Forwarded(i)'
      BY <2>4 DEF PortsSafe, Nics!NextNic
    <3>2. i \in 1..n /\ (i < nic \/ i = nic)
      <4> HIDE DEF n, k
      <4>1. i \in 1..n
        BY <2>1, <2>2, <3>1
      <4>2. \/ nic < n /\ nic' = nic + 1 /\ pc' = "promisc"
            \/ ~(nic < n) /\ pc' = "read"
        BY <2>4 DEF Nics!NextNic, n
      <4>3. CASE nic < n /\ nic' = nic + 1 /\ pc' = "promisc"
        <5>1. i < nic'
          BY <3>1, <4>3 DEF Behind, Commands
        <5> QED
          BY <2>1, <4>1, <4>3, <5>1
      <4>4. CASE ~(nic < n)
        BY <2>1, <4>1, <4>4
      <4> QED
        BY <4>1, <4>2, <4>3, <4>4
    <3>3. CASE i < nic
      BY <2>1, <2>2, <2>4, <3>1, <3>2, <3>3, ForwardedStays DEF PortsSafe, Behind, NicsTyped
    <3>4. CASE i = nic
      <4>1. Wide(w) => FirstRules(w, rule - 1) = Nics!RulesOf(w)
        <5> SUFFICES ASSUME Wide(w) PROVE FirstRules(w, rule - 1) = Nics!RulesOf(w)
          OBVIOUS
        <5>1. rule - 1 = k
          <6> HIDE DEF k
          <6> QED BY <2>1, <2>4
        <5> QED
          BY <2>1, <5>1 DEF FirstRules, Nics!RulesOf
      <4>2. Forwarded(nic)
        BY <2>1, <2>2, <3>1, <4>1 DEF PortsSafe, Forwarded
      <4> QED
        BY <2>2, <2>4, <3>4, <4>2, ForwardedStays DEF NicsTyped
    <3> QED
      BY <3>2, <3>3, <3>4
  <2>5. ASSUME rule <= k, host' = [host EXCEPT ![nic]["rules"] = host[nic]["rules"] \cup {w.rules[rule]}],
               rule' = rule + 1, UNCHANGED <<pc, nic, faults>>
        PROVE  Goal
    <3>1. host'[nic].rules = host[nic].rules \cup {w.rules[rule]}
      <4> DEFINE x == host[nic]["rules"] \cup {w.rules[rule]}
      <4>1. host' = [host EXCEPT ![nic]["rules"] = x]
        BY <2>5
      <4> HIDE DEF x
      <4>2. host'[nic]["rules"] = x
        BY <2>1, <4>1, ChangedHost DEF NicsTyped, Fields
      <4> QED
        BY <4>2 DEF x
    <3>2. \A i \in 1..Slots \ {nic} : host'[i] = host[i]
      BY <2>5
    <3>3. FirstRules(w, rule' - 1) = FirstRules(w, rule - 1) \cup {w.rules[rule]}
      <4>1. rule' - 1 = rule /\ 1..rule = (1..(rule - 1)) \cup {rule}
        <5> HIDE DEF k
        <5> QED BY <2>1, <2>5
      <4> QED
        BY <4>1 DEF FirstRules
    <3>4. ASSUME events' = 0, NEW i \in DOMAIN want', Behind(i)'
          PROVE  Forwarded(i)'
      <4>1. i < nic /\ i \in DOMAIN want /\ i # nic /\ i \in 1..Slots
        <5> HIDE DEF n, k
        <5>1. i < nic /\ i \in DOMAIN want
          BY <2>1, <2>2, <2>5, <3>4 DEF Behind
        <5> QED
          BY <2>1, <5>1, ConstantsAssumption
      <4> QED
        BY <2>1, <2>2, <2>5, <3>2, <3>4, <4>1, ForwardedStays DEF PortsSafe, Behind, NicsTyped
    <3>5. ASSUME events' = 0, Wide(w)
          PROVE  /\ FirstRules(w, rule' - 1) \subseteq host'[nic].rules
                 /\ w.type = "nat" /\ faults = 0 => host'[nic].rules = FirstRules(w, rule' - 1)
      <4>1. /\ FirstRules(w, rule - 1) \subseteq host[nic].rules
            /\ w.type = "nat" /\ faults = 0 => host[nic].rules = FirstRules(w, rule - 1)
        BY <2>1, <2>2, <3>5 DEF PortsSafe
      <4> QED
        BY <3>1, <3>3, <4>1
    <3> QED
      BY <2>2, <2>5, <3>4, <3>5 DEF PortsSafe
  <2> QED
    BY <1>6, <2>3, <2>4, <2>5 DEF Nics!AddRule, Wide
<1> QED
  BY <1>2, <1>3, <1>4, <1>5, <1>6 DEF Nics!Next, Nics!Apply

-----------------------------------------------------------------------------
(* Reading: the list of VirtualBox has the attached adapters in the order  *)
(* of their slots, each at the place that counting them gives.             *)

RawDevices(h) == \A i \in 1..Slots : h[i].device \notin DOMAIN Nics!RawOf

LEMMA InstanceCardinality ==
  ASSUME NEW S
  PROVE  Nics!Cardinality(S) = Cardinality(S)
BY DEF Nics!Cardinality, Cardinality

LEMMA RawValues ==
  /\ \A d \in DOMAIN Nics!RawOf : Nics!RawOf[d] \notin DOMAIN Nics!RawOf
  /\ \A d : Nics!Raw(d) \notin DOMAIN Nics!RawOf
<1>1. \A d \in DOMAIN Nics!RawOf : Nics!RawOf[d] \notin DOMAIN Nics!RawOf
  BY DEF Nics!RawOf
<1> QED
  BY <1>1 DEF Nics!Raw

LEMMA RawOfName ==
  ASSUME NEW raw, raw \notin DOMAIN Nics!RawOf
  PROVE  Nics!Raw(Nics!Name(raw)) = raw
<1>1. CASE \E d \in DOMAIN Nics!RawOf : Nics!RawOf[d] = raw
  <2>1. PICK d : d = Nics!Name(raw)
    OBVIOUS
  <2>2. d \in DOMAIN Nics!RawOf /\ Nics!RawOf[d] = raw
    BY <1>1, <2>1 DEF Nics!Name
  <2> QED
    BY <2>1, <2>2 DEF Nics!Raw
<1>2. CASE ~(\E d \in DOMAIN Nics!RawOf : Nics!RawOf[d] = raw)
  BY <1>2 DEF Nics!Name, Nics!Raw
<1> QED
  BY <1>1, <1>2

UpTo(S, i) == {j \in S : j <= i}

LEMMA EveryPlaceIsTaken ==
  ASSUME NEW S \in SUBSET (1..Slots)
  PROVE  /\ Nics!Cardinality(S) \in Nat
         /\ \A k \in 1..Nics!Cardinality(S) : \E i \in S : Nics!Cardinality(UpTo(S, i)) = k
         /\ \A i \in S : Nics!Cardinality(UpTo(S, i)) \in 1..Nics!Cardinality(S)
         /\ \A i, j \in S : i < j => Nics!Cardinality(UpTo(S, i)) < Nics!Cardinality(UpTo(S, j))
<1> DEFINE n == Cardinality(S)
           f == [i \in S |-> Cardinality(UpTo(S, i))]
<1>1. IsFiniteSet(S) /\ S \subseteq Nat
  <2>1. IsFiniteSet(1..Slots)
    BY SomeSlots, FS_Interval
  <2>2. IsFiniteSet(S)
    BY <2>1, FS_Subset
  <2>3. 1..Slots \subseteq Nat
    BY SomeSlots
  <2> QED
    BY <2>2, <2>3
<1>2. n \in Nat
  BY <1>1, FS_CardinalityType
<1>3. \A i \in S : /\ IsFiniteSet(UpTo(S, i)) /\ Cardinality(UpTo(S, i)) \in Nat
                   /\ Cardinality(UpTo(S, i)) <= n /\ Cardinality(UpTo(S, i)) # 0
  <2> SUFFICES ASSUME NEW i \in S
               PROVE  /\ IsFiniteSet(UpTo(S, i)) /\ Cardinality(UpTo(S, i)) \in Nat
                      /\ Cardinality(UpTo(S, i)) <= n /\ Cardinality(UpTo(S, i)) # 0
    OBVIOUS
  <2>1. UpTo(S, i) \in SUBSET S /\ i \in UpTo(S, i)
    BY <1>1 DEF UpTo
  <2> QED
    BY <1>1, <2>1, FS_Subset, FS_CardinalityType, FS_EmptySet
<1>4. f \in [S -> 1..n]
  <2> HIDE DEF n
  <2> QED
    BY <1>2, <1>3
<1>5. ASSUME NEW i \in S, NEW j \in S, i < j
      PROVE  Cardinality(UpTo(S, i)) < Cardinality(UpTo(S, j))
  <2>1. i \in Nat /\ j \in Nat /\ \A k \in S : k \in Nat
    BY <1>1
  <2>2. UpTo(S, i) \in SUBSET UpTo(S, j) /\ j \in UpTo(S, j) /\ j \notin UpTo(S, i)
    <3>1. \A k \in S : k <= i => k <= j
      BY <1>5, <2>1
    <3>2. j <= j /\ ~(j <= i)
      BY <1>5, <2>1
    <3> QED
      BY <3>1, <3>2 DEF UpTo
  <2>3. /\ Cardinality(UpTo(S, i)) <= Cardinality(UpTo(S, j))
        /\ Cardinality(UpTo(S, i)) # Cardinality(UpTo(S, j))
    BY <1>3, <2>2, FS_Subset
  <2>4. Cardinality(UpTo(S, i)) \in Nat /\ Cardinality(UpTo(S, j)) \in Nat
    BY <1>3
  <2> QED
    BY <2>3, <2>4
<1>6. \A i, j \in S : f[i] = f[j] => i = j
  <2>1. ASSUME NEW i \in S, NEW j \in S, i < j PROVE f[i] # f[j]
    BY <1>3, <1>5, <2>1
  <2>2. \A i, j \in S : i < j \/ j < i \/ i = j
    BY <1>1
  <2> HIDE DEF f
  <2> QED
    BY <2>1, <2>2
<1>7. f \in Injection(S, 1..n)
  <2> HIDE DEF f
  <2> QED
    BY <1>4, <1>6 DEF Injection, IsInjective
<1>8. IsFiniteSet(1..n) /\ Cardinality(1..n) = n
  <2> HIDE DEF n
  <2> QED
    BY <1>2, FS_Interval
<1>9. f \in Surjection(S, 1..n)
  BY <1>7, <1>8, FS_Injection
<1>10. \A k \in 1..n : \E i \in S : f[i] = k
  <2> HIDE DEF f
  <2> QED
    BY <1>9 DEF Surjection
<1>11. \A k \in 1..n : \E i \in S : Cardinality(UpTo(S, i)) = k
  BY <1>10
<1>12. Nics!Cardinality(S) = n /\ \A i \in S : Nics!Cardinality(UpTo(S, i)) = Cardinality(UpTo(S, i))
  BY InstanceCardinality
<1>13. \A i \in S : Cardinality(UpTo(S, i)) \in 1..n
  <2> HIDE DEF n
  <2> QED
    BY <1>2, <1>3
<1> QED
  <2> HIDE DEF n
  <2> QED
    BY <1>2, <1>5, <1>11, <1>12, <1>13

There    == {i \in DOMAIN host : Nics!IsAttached(host[i])}
Count    == Nics!Cardinality(There)
Place(k) == CHOOSE i \in There : Nics!Cardinality(UpTo(There, i)) = k

LEMMA ThereInSlots ==
  ASSUME HostTyped(host)
  PROVE  There \in SUBSET (1..Slots) /\ There \subseteq Nat
BY SomeSlots DEF HostTyped, There

LEMMA AttachedPlaces ==
  ASSUME HostTyped(host)
  PROVE  /\ Count \in Nat
         /\ Nics!Attached = [k \in 1..Count |-> host[Place(k)]]
         /\ \A k \in 1..Count : Place(k) \in There /\ Nics!Cardinality(UpTo(There, Place(k))) = k
<1>1. /\ Count \in Nat
      /\ \A k \in 1..Count : \E i \in There : Nics!Cardinality(UpTo(There, i)) = k
  BY ThereInSlots, EveryPlaceIsTaken DEF Count
<1>2. \A k \in 1..Count : Place(k) \in There /\ Nics!Cardinality(UpTo(There, Place(k))) = k
  BY <1>1 DEF Place
<1>3. Nics!Attached = [k \in 1..Count |-> host[Place(k)]]
  BY DEF Nics!Attached, There, Count, Place, UpTo
<1> QED
  BY <1>1, <1>2, <1>3

LEMMA PlacesInOrder ==
  ASSUME HostTyped(host), NEW k \in 1..Count, NEW l \in 1..Count, k < l
  PROVE  Place(k) < Place(l)
<1> DEFINE c(i) == Nics!Cardinality(UpTo(There, i))
<1>1. Place(k) \in There /\ c(Place(k)) = k /\ Place(l) \in There /\ c(Place(l)) = l
  BY AttachedPlaces
<1>2. \A i, j \in There : i < j => c(i) < c(j)
  BY ThereInSlots, EveryPlaceIsTaken
<1>3. k \in Nat /\ l \in Nat /\ Place(k) \in Nat /\ Place(l) \in Nat
  BY <1>1, ThereInSlots, AttachedPlaces
<1> HIDE DEF c
<1>4. Place(k) # Place(l) /\ ~(Place(l) < Place(k))
  BY <1>1, <1>2, <1>3
<1> QED
  BY <1>3, <1>4

(* Attached adapters in the first slots are at the places of their slots.  *)
LEMMA FirstPlaces ==
  ASSUME HostTyped(host), NEW m \in 0..Slots, 1..m \subseteq There
  PROVE  m <= Count /\ \A k \in 1..m : Place(k) = k
<1> DEFINE c(i) == Nics!Cardinality(UpTo(There, i))
<1>1. ASSUME NEW k \in 1..m PROVE c(k) = k
  <2>1. UpTo(There, k) = 1..k
    BY ThereInSlots, SomeSlots DEF UpTo
  <2>2. Cardinality(1..k) = k
    BY SomeSlots, FS_Interval
  <2> QED
    BY <2>1, <2>2, InstanceCardinality
<1>2. /\ \A i \in There : c(i) \in 1..Count
      /\ \A i, j \in There : i < j => c(i) < c(j)
  BY ThereInSlots, EveryPlaceIsTaken DEF Count
<1>3. Count \in Nat /\ m \in Nat /\ There \subseteq Nat
  BY ThereInSlots, AttachedPlaces, SomeSlots
<1>4. \A i \in There : c(i) \in Nat
  BY <1>2, <1>3
<1>5. ASSUME NEW k \in 1..m PROVE k \in 1..Count /\ Place(k) = k
  <2>1. k \in There /\ c(k) = k
    BY <1>1
  <2>2. k \in 1..Count
    BY <1>2, <2>1
  <2>3. Place(k) \in There /\ c(Place(k)) = k
    BY <2>2, AttachedPlaces
  <2>4. k \in Nat /\ Place(k) \in Nat
    BY <1>3, <2>1, <2>3
  <2> HIDE DEF c
  <2>5. ~(k < Place(k)) /\ ~(Place(k) < k)
    BY <1>2, <2>1, <2>3, <2>4
  <2> QED
    BY <2>2, <2>4, <2>5
<1>6. m <= Count
  BY <1>3, <1>5
<1> QED
  BY <1>5, <1>6

(* Without a gap before an attached adapter, those are the first slots.    *)
LEMMA GaplessPlaces ==
  ASSUME HostTyped(host), Nics!Gapless(host)
  PROVE  \A k \in 1..Count : Place(k) = k
<1>1. CASE Count = 0
  BY <1>1
<1>2. CASE Count # 0
  <2> DEFINE p == Place(Count)
             c(i) == Nics!Cardinality(UpTo(There, i))
  <2>1. Count \in Nat /\ Count \in 1..Count
    BY <1>2, AttachedPlaces
  <2>2. p \in There /\ c(p) = Count /\ p \in 1..Slots
    BY <2>1, AttachedPlaces, ThereInSlots
  <2>3. \A i \in There : c(i) \in 1..Count /\ (p < i => c(p) < c(i))
    BY <2>2, ThereInSlots, EveryPlaceIsTaken DEF Count
  <2>4. \A i \in There : ~(p < i)
    <3> HIDE DEF p, c
    <3> QED
      BY <2>1, <2>2, <2>3
  <2>5. There = 1..p
    <3>1. DOMAIN host = 1..Slots
      BY DEF HostTyped
    <3>2. \A i \in 1..Slots : i <= p => i \in There
      <4> HIDE DEF p
      <4> QED
        BY <2>2, <3>1 DEF Nics!Gapless, There
    <3>3. \A i \in There : i \in 1..Slots /\ i <= p
      <4> HIDE DEF p
      <4> QED
        BY <2>2, <2>4, ThereInSlots, SomeSlots
    <3>4. \A i : i \in 1..p <=> i \in 1..Slots /\ i <= p
      <4> HIDE DEF p
      <4> QED
        BY <2>2, SomeSlots
    <3> HIDE DEF p
    <3>5. \A i : i \in There <=> i \in 1..p
      BY <3>2, <3>3, <3>4
    <3> QED
      BY <3>5
  <2>6. Count = p
    <3> HIDE DEF p
    <3>1. Cardinality(1..p) = p
      BY <2>2, SomeSlots, FS_Interval
    <3> QED
      BY <2>5, <3>1, InstanceCardinality DEF Count
  <2>7. p \in 0..Slots /\ 1..p \subseteq There
    <3> HIDE DEF p
    <3> QED
      BY <2>2, <2>5, SomeSlots
  <2>8. \A k \in 1..p : Place(k) = k
    <3> HIDE DEF p
    <3> QED
      BY <2>7, FirstPlaces
  <2> HIDE DEF p
  <2> QED
    BY <2>6, <2>8
<1> QED
  BY <1>1, <1>2

Shown(s) == [type |-> Nics!Type(s.type), device |-> Nics!Name(s.device), net |-> s.net,
             promisc |-> FALSE, cable |-> TRUE, dns |-> FALSE, rules |-> <<>>]

(* A record that Terraform finds no different from the machine's.          *)
LEMMA SameAsShown ==
  ASSUME NEW s, NEW w \in Nics!Adapters, Nics!SameAdapter(Shown(s), w), s.device \notin DOMAIN Nics!RawOf
  PROVE  Nics!Type(s.type) = w.type /\ s.device = Nics!Raw(w.device) /\ s.net = w.net
<1> DEFINE a == Shown(s)
           ra == Nics!Raw(a.device)
           rw == Nics!Raw(w.device)
<1>1. [a EXCEPT !.device = ra] = [w EXCEPT !.device = rw]
  BY DEF Nics!SameAdapter
<1>2. a.type = Nics!Type(s.type) /\ a.device = Nics!Name(s.device) /\ a.net = s.net /\ DOMAIN a = Fields
  BY DEF Shown, Fields
<1>3. DOMAIN w = Fields
  BY DEF Nics!Adapters, Fields
<1>4. ra = s.device
  BY <1>2, RawOfName
<1> HIDE DEF a, ra, rw
<1>5. a.type = w.type /\ a.net = w.net /\ ra = rw
  <2>1. /\ [a EXCEPT !.device = ra].type = a.type /\ [w EXCEPT !.device = rw].type = w.type
        /\ [a EXCEPT !.device = ra].net = a.net /\ [w EXCEPT !.device = rw].net = w.net
        /\ [a EXCEPT !.device = ra].device = ra /\ [w EXCEPT !.device = rw].device = rw
    BY <1>2, <1>3 DEF Fields
  <2> QED
    BY <1>1, <2>1
<1> QED
  BY <1>2, <1>4, <1>5 DEF rw

-----------------------------------------------------------------------------
LEMMA ReportedPlaces ==
  ASSUME HostTyped(host)
  PROVE  /\ Nics!Reported = [k \in 1..Count |-> Shown(host[Place(k)])]
         /\ Len(Nics!Reported) = Count
<1>1. Count \in Nat /\ Nics!Attached = [k \in 1..Count |-> host[Place(k)]]
  BY AttachedPlaces
<1>2. DOMAIN Nics!Attached = 1..Count /\ \A k \in 1..Count : Nics!Attached[k] = host[Place(k)]
  BY <1>1
<1>3. Nics!Reported = [k \in 1..Count |-> Shown(host[Place(k)])]
  BY <1>2 DEF Nics!Reported, Shown
<1>4. [k \in 1..Count |-> Shown(host[Place(k)])] \in Seq({Shown(host[Place(k)]) : k \in 1..Count})
  BY <1>1
<1> QED
  BY <1>1, <1>3, <1>4

LEMMA SameFields ==
  ASSUME NEW a \in Nics!Adapters, NEW b \in Nics!Adapters, Nics!SameAdapter(a, b)
  PROVE  a.type = b.type /\ a.net = b.net /\ Nics!Raw(a.device) = Nics!Raw(b.device)
<1> DEFINE ra == Nics!Raw(a.device)
           rb == Nics!Raw(b.device)
<1>1. [a EXCEPT !.device = ra] = [b EXCEPT !.device = rb]
  BY DEF Nics!SameAdapter
<1>2. DOMAIN a = Fields /\ DOMAIN b = Fields
  BY DEF Nics!Adapters, Fields
<1> HIDE DEF ra, rb
<1>3. /\ [a EXCEPT !.device = ra].type = a.type /\ [b EXCEPT !.device = rb].type = b.type
      /\ [a EXCEPT !.device = ra].net = a.net /\ [b EXCEPT !.device = rb].net = b.net
      /\ [a EXCEPT !.device = ra].device = ra /\ [b EXCEPT !.device = rb].device = rb
  BY <1>2 DEF Fields
<1> QED
  BY <1>1, <1>3 DEF ra, rb

-----------------------------------------------------------------------------
(* An empty plan: VirtualBox names devices by their raw values, and the    *)
(* provider leaves no gap; what an apply has written is in its slots until *)
(* the machine is read, and the record is what was written or read.        *)

InSlots(e) == \A i \in DOMAIN e : i \in 1..Slots /\ Nics!Has(host[i], e[i])

PlanSafe ==
  /\ RawDevices(host)
  /\ ~gap => Nics!Gapless(host)
  /\ ~stale /\ pc \in Written => InSlots(want)
  /\ ~stale /\ pc \notin Written =>
       \A e \in tf : IF kept THEN e \in Seq(Nics!Adapters) /\ InSlots(e) ELSE e = Nics!Reported
  /\ pc = "clean" => \E e \in tf : Nics!SameAdapters(e, want)

(* modifyvm puts the configured adapters into the first slots; those       *)
(* behind them stay, so that it leaves no gap where there was none.        *)
LEMMA ModifiedPlaces ==
  ASSUME NicsTyped, Nics!Accepted, RawDevices(host), \A i \in DOMAIN want : Nics!Convertible(want[i]),
         host' = [i \in DOMAIN host |-> IF i \in DOMAIN want THEN Nics!Modified(host[i], want[i]) ELSE host[i]],
         want' = want
  PROVE  /\ RawDevices(host')
         /\ Nics!Gapless(host) => Nics!Gapless(host')
         /\ InSlots(want)'
<1> DEFINE n == Len(want)
<1>1. n \in 0..Slots /\ DOMAIN want = 1..n
  BY Wanted, ConstantsAssumption DEF Nics!Accepted
<1>2. /\ DOMAIN host = 1..Slots /\ DOMAIN host' = 1..Slots
      /\ \A i \in 1..Slots :
           IF i \in DOMAIN want
           THEN /\ host'[i].type = Nics!Network(want[i].type) /\ host'[i].device = Nics!Raw(want[i].device)
                /\ want[i].type \in Nics!NetIsNeeded => host'[i].net = want[i].net
           ELSE host'[i] = host[i]
  BY ModifiedHost DEF NicsTyped, HostTyped
<1>3. \A i \in DOMAIN want : /\ Nics!Network(want[i].type) # "none"
                             /\ Nics!Type(Nics!Network(want[i].type)) = want[i].type
  <2>1. \A t : Nics!Network(t) \in Nics!Words => Nics!Network(t) # "none" /\ Nics!Type(Nics!Network(t)) = t
    BY DEF Nics!Network, Nics!Type, Nics!Words, Nics!Types
  <2> QED
    BY <2>1 DEF Nics!Accepted
<1>4. RawDevices(host')
  BY <1>2, RawValues DEF RawDevices
<1> HIDE DEF n
<1>5. \A i \in 1..n : i \in 1..Slots /\ Nics!IsAttached(host'[i])
  BY <1>1, <1>2, <1>3, SomeSlots DEF Nics!IsAttached
<1>6. ASSUME Nics!Gapless(host) PROVE Nics!Gapless(host')
  <2> SUFFICES ASSUME NEW i \in 1..Slots, NEW j \in 1..Slots, i <= j, Nics!IsAttached(host'[j])
               PROVE  Nics!IsAttached(host'[i])
    BY <1>2 DEF Nics!Gapless
  <2>1. CASE i \in 1..n
    BY <1>5, <2>1
  <2>2. CASE i \notin 1..n
    <3>1. j \notin 1..n
      BY <1>1, <2>2, SomeSlots
    <3>2. host'[i] = host[i] /\ host'[j] = host[j]
      BY <1>1, <1>2, <2>2, <3>1
    <3> QED
      BY <1>2, <1>6, <3>2 DEF Nics!Gapless
  <2> QED
    BY <2>1, <2>2
<1>7. InSlots(want)'
  <2>1. \A i \in DOMAIN want : i \in 1..Slots /\ Nics!IsAttached(host'[i])
    BY <1>1, <1>5
  <2> QED
    BY <1>2, <1>3, <2>1 DEF InSlots, Nics!Has
<1> QED
  BY <1>4, <1>6, <1>7

LEMMA SameTypes ==
  ASSUME HostTyped(host), HostTyped(host'), RawDevices(host),
         \A i \in 1..Slots : host'[i].type = host[i].type /\ host'[i].device = host[i].device
  PROVE  RawDevices(host') /\ (Nics!Gapless(host) => Nics!Gapless(host'))
<1>1. \A i \in 1..Slots : Nics!IsAttached(host'[i]) <=> Nics!IsAttached(host[i])
  BY DEF Nics!IsAttached
<1> QED
  BY <1>1 DEF HostTyped, RawDevices, Nics!Gapless

(* One field of the adapter that applyNICSettings is at, other than its    *)
(* type and device, and its network to the configured one.                 *)
LEMMA FieldWritten ==
  ASSUME NicsTyped, PlanSafe, pc \in Written, nic \in 1..Slots, NEW f \in Fields \ {"type", "device"}, NEW x,
         f = "net" => x = want[nic].net, want' = want,
         host' = [host EXCEPT ![nic][f] = x]
  PROVE  RawDevices(host') /\ (~gap => Nics!Gapless(host')) /\ (~stale => InSlots(want)')
<1>1. /\ HostTyped(host') /\ host'[nic][f] = x
      /\ \A g \in Fields \ {f} : host'[nic][g] = host[nic][g]
      /\ \A j \in (1..Slots) \ {nic} : host'[j] = host[j]
  <2>1. HostTyped(host) /\ Shaped(host[nic]) /\ f \in Fields
    BY DEF NicsTyped, HostTyped
  <2> DEFINE s == [host[nic] EXCEPT ![f] = x]
  <2>2. Shaped(s) /\ s[f] = x /\ \A g \in Fields \ {f} : s[g] = host[nic][g]
    <3> DEFINE h == host[nic]
    <3> HIDE DEF h
    <3>1. /\ Shaped([h EXCEPT ![f] = x]) /\ [h EXCEPT ![f] = x][f] = x
          /\ \A g \in Fields \ {f} : [h EXCEPT ![f] = x][g] = h[g]
      <4>1. Shaped(h)
        BY <2>1 DEF h
      <4> QED
        BY <2>1, <4>1, ChangedSlot
    <3> QED
      BY <3>1 DEF h
  <2>3. host' = [host EXCEPT ![nic] = s]
    OBVIOUS
  <2> HIDE DEF s
  <2> QED
    BY <2>1, <2>2, <2>3 DEF HostTyped
<1>2. \A i \in 1..Slots : /\ host'[i].type = host[i].type /\ host'[i].device = host[i].device
                          /\ host'[i].net = host[i].net \/ host'[i].net = want[i].net
  BY <1>1 DEF Fields
<1>3. RawDevices(host') /\ (~gap => Nics!Gapless(host'))
  BY <1>1, <1>2, SameTypes DEF PlanSafe, NicsTyped
<1>4. ~stale => InSlots(want)'
  BY <1>2 DEF PlanSafe, InSlots, Nics!Has, Nics!IsAttached
<1> QED
  BY <1>3, <1>4

LEMMA PlanKept ==
  ASSUME NicsTyped, PlanSafe, Nics!Next
  PROVE  PlanSafe'
<1> DEFINE Goal == PlanSafe'
<1> USE DEF Nics!Fault, Nics!Failed, Nics!counters
<1>0. /\ want \in Seq(Nics!Adapters)
      /\ Commands \subseteq Written /\ {"add", "read"} \subseteq Written
      /\ Written \cap {"idle", "plan", "clean", "convert", "modify", "lost"} = {}
  BY ConstantsAssumption DEF NicsTyped, Written, Commands
<1>1. ASSUME host' = host
      PROVE  /\ Nics!Reported' = Nics!Reported
             /\ RawDevices(host') /\ (~gap => Nics!Gapless(host'))
             /\ \A e : InSlots(e) => InSlots(e)'
  BY <1>1 DEF Nics!Reported, Nics!Attached, PlanSafe, InSlots
<1>2. ASSUME Nics!Refresh PROVE Goal
  <2>1. UNCHANGED <<host, gap, want>> /\ pc \notin Written /\ pc' \in {"plan", "idle"}
    BY <1>0, <1>2 DEF Nics!Refresh
  <2>2. CASE tf' = {Nics!Reported} /\ kept' = FALSE
    BY <1>0, <1>1, <2>1, <2>2 DEF PlanSafe
  <2>3. CASE UNCHANGED <<tf, kept, stale>>
    BY <1>0, <1>1, <2>1, <2>3 DEF PlanSafe
  <2> QED
    BY <1>2, <2>2, <2>3 DEF Nics!Refresh
<1>3. ASSUME Nics!Plan PROVE Goal
  <2>1. UNCHANGED <<host, gap, want, tf, kept, stale>> /\ pc = "plan" /\ pc' \in {"clean", "convert"}
    BY <1>3 DEF Nics!Plan
  <2>2. pc' = "clean" => \E e \in tf : Nics!SameAdapters(e, want)
    BY <1>3 DEF Nics!Plan
  <2>3. \A e : Nics!SameAdapters(e, want) => Nics!SameAdapters(e, want')
    BY <2>1
  <2> QED
    BY <1>0, <1>1, <2>1, <2>2, <2>3 DEF PlanSafe
<1>4. ASSUME Nics!Convert PROVE Goal
  <2>1. UNCHANGED <<host, gap, want, kept>> /\ pc \notin Written /\ pc' \in {"modify", "lost", "idle"}
    BY <1>0, <1>4 DEF Nics!Convert
  <2>2. stale' = TRUE \/ UNCHANGED <<tf, stale>>
    BY <1>4 DEF Nics!Convert
  <2> QED
    BY <1>0, <1>1, <2>1, <2>2 DEF PlanSafe
<1>5. ASSUME Nics!FinalRead PROVE Goal
  <2>1. UNCHANGED <<host, gap, want>> /\ pc \in Written /\ pc' \in {"lost", "idle"}
    BY <1>0, <1>5 DEF Nics!FinalRead
  <2>2. \/ tf' = {Nics!Reported} /\ kept' = FALSE
        \/ tf' = {want} /\ kept' = TRUE /\ stale' = stale
        \/ stale' = TRUE
    BY <1>5 DEF Nics!FinalRead
  <2>3. CASE tf' = {Nics!Reported} /\ kept' = FALSE
    BY <1>0, <1>1, <2>1, <2>3 DEF PlanSafe
  <2>4. CASE tf' = {want} /\ kept' = TRUE /\ stale' = stale
    <3>1. ~stale => InSlots(want)'
      BY <1>1, <2>1 DEF PlanSafe
    <3>2. InSlots(want)' => \A e \in {want} : InSlots(e)'
      BY <2>1 DEF InSlots
    <3> QED
      BY <1>0, <1>1, <2>1, <2>4, <3>1, <3>2 DEF PlanSafe
  <2>5. CASE stale' = TRUE
    BY <1>0, <1>1, <2>1, <2>5 DEF PlanSafe
  <2> QED
    BY <2>2, <2>3, <2>4, <2>5
<1>6. ASSUME Nics!EditConfig PROVE Goal
  <2>1. UNCHANGED <<host, gap, tf, kept, stale>> /\ pc \notin Written /\ pc' = "idle"
    BY <1>0, <1>6 DEF Nics!EditConfig
  <2> QED
    BY <1>0, <1>1, <2>1 DEF PlanSafe
<1>7. ASSUME Nics!Modify PROVE Goal
  <2>1. UNCHANGED <<want, kept, gap>> /\ pc = "modify"
    BY <1>7 DEF Nics!Modify
  <2>2. CASE host' = host /\ stale' = TRUE /\ pc' \in {"lost", "idle"}
    BY <1>0, <1>1, <2>1, <2>2 DEF PlanSafe
  <2>3. CASE /\ Nics!Accepted /\ pc' \in {"read", "promisc"}
             /\ host' = [i \in DOMAIN host |-> IF i \in DOMAIN want THEN Nics!Modified(host[i], want[i]) ELSE host[i]]
    <3>1. RawDevices(host') /\ (Nics!Gapless(host) => Nics!Gapless(host')) /\ InSlots(want)'
      BY <2>1, <2>3, ModifiedPlaces DEF PlanSafe, NicsTyped
    <3>2. pc' \in Written /\ pc' # "clean"
      BY <2>3 DEF Written, Commands
    <3> QED
      BY <2>1, <3>1, <3>2 DEF PlanSafe, InSlots
  <2> QED
    BY <1>7, <2>2, <2>3 DEF Nics!Modify
<1>8. ASSUME pc \in Written, nic \in 1..Slots, UNCHANGED <<want, gap>>, pc' # "clean",
             \/ pc' \in Written /\ stale' = stale
             \/ stale' = TRUE,
             \/ host' = host
             \/ \E f \in Fields \ {"type", "device"} : \E x :
                  (f = "net" => x = want[nic].net) /\ host' = [host EXCEPT ![nic][f] = x]
      PROVE  Goal
  <2>1. RawDevices(host') /\ (~gap => Nics!Gapless(host')) /\ (~stale => InSlots(want)')
    <3>1. CASE host' = host
      BY <1>1, <1>8, <3>1 DEF PlanSafe, InSlots
    <3>2. CASE \E f \in Fields \ {"type", "device"} : \E x :
                 (f = "net" => x = want[nic].net) /\ host' = [host EXCEPT ![nic][f] = x]
      BY <1>8, <3>2, FieldWritten
    <3> QED
      BY <1>8, <3>1, <3>2
  <2> QED
    BY <1>8, <2>1 DEF PlanSafe, InSlots
<1>9. ASSUME Nics!NicSetting PROVE Goal
  <2>1. pc \in Commands /\ nic \in 1..Slots
    BY <1>9, AfterCommands, Wanted, ConstantsAssumption DEF Nics!NicSetting, NicsTyped, Written, Nics!Accepted
  <2>2. Nics!After[pc] \in Written /\ Nics!After[pc] # "clean"
    BY <2>1, AfterPromisc DEF Commands, Written
  <2>3. /\ UNCHANGED <<want, gap>> /\ pc' # "clean"
        /\ (pc' \in Written /\ stale' = stale) \/ stale' = TRUE
    BY <1>0, <1>9, <2>2 DEF Nics!NicSetting
  <2>4. \/ host' = host
        \/ host' = [host EXCEPT ![nic][pc] = IF pc = "rules" THEN {} ELSE want[nic][pc]]
    BY <1>9 DEF Nics!NicSetting
  <2>5. pc \in Fields \ {"type", "device"} /\ pc \in Written
    BY <2>1 DEF Commands, Fields, Written
  <2>6. \/ host' = host
        \/ \E f \in Fields \ {"type", "device"} : \E x :
             (f = "net" => x = want[nic].net) /\ host' = [host EXCEPT ![nic][f] = x]
    BY <2>4, <2>5
  <2> QED
    BY <1>8, <2>1, <2>3, <2>5, <2>6
<1>10. ASSUME Nics!AddRule PROVE Goal
  <2>1. pc \in Written /\ nic \in 1..Slots
    BY <1>10, Wanted, ConstantsAssumption DEF Nics!AddRule, NicsTyped, Written, Nics!Accepted
  <2>2. /\ UNCHANGED <<want, gap>> /\ pc' # "clean"
        /\ (pc' \in Written /\ stale' = stale) \/ stale' = TRUE
    BY <1>0, <1>10, <2>1 DEF Nics!AddRule, Nics!NextNic, Commands
  <2>3. \/ host' = host
        \/ \E x : host' = [host EXCEPT ![nic]["rules"] = x]
    BY <1>10 DEF Nics!AddRule
  <2>4. "rules" \in Fields \ {"type", "device"} /\ "rules" # "net"
    BY DEF Fields
  <2>5. \/ host' = host
        \/ \E f \in Fields \ {"type", "device"} : \E x :
             (f = "net" => x = want[nic].net) /\ host' = [host EXCEPT ![nic][f] = x]
    BY <2>3, <2>4
  <2> QED
    BY <1>8, <2>1, <2>2, <2>5
<1>11. ASSUME Nics!Meddle PROVE Goal
  <2>1. UNCHANGED <<want, tf, pc, kept>> /\ stale' = TRUE /\ gap' = (gap \/ ~Nics!Gapless(host'))
    BY <1>11 DEF Nics!Meddle
  <2>2. RawDevices(host')
    <3>1. PICK i \in DOMAIN host : host' \in {[host EXCEPT ![i].type = "none"],
                                              [host EXCEPT ![i].type = "nat", ![i].net = ""],
                                              [host EXCEPT ![i].rules = {}]}
      BY <1>11 DEF Nics!Meddle
    <3>2. \A j \in 1..Slots : host'[j].device = host[j].device
      <4>1. i \in 1..Slots /\ DOMAIN host = 1..Slots /\ DOMAIN host[i] = Fields
        BY DEF NicsTyped, HostTyped, Shaped
      <4>2. PICK s : s.device = host[i].device /\ host' = [host EXCEPT ![i] = s]
        <5> DEFINE h == host[i]
        <5>1. \/ host' = [host EXCEPT ![i] = [h EXCEPT !.type = "none"]]
              \/ host' = [host EXCEPT ![i] = [h EXCEPT !.type = "nat", !.net = ""]]
              \/ host' = [host EXCEPT ![i] = [h EXCEPT !.rules = {}]]
          BY <3>1
        <5>2. DOMAIN h = Fields
          BY <4>1
        <5> HIDE DEF h
        <5>3. /\ [h EXCEPT !.type = "none"].device = h.device
              /\ [h EXCEPT !.type = "nat", !.net = ""].device = h.device
              /\ [h EXCEPT !.rules = {}].device = h.device
          BY <5>2 DEF Fields
        <5> QED
          BY <5>1, <5>3 DEF h
      <4> QED
        BY <4>1, <4>2
    <3> QED
      BY <3>2 DEF PlanSafe, RawDevices
  <2> QED
    BY <2>1, <2>2 DEF PlanSafe
<1> QED
  BY <1>2, <1>3, <1>4, <1>5, <1>6, <1>7, <1>9, <1>10, <1>11 DEF Nics!Next, Nics!Apply

-----------------------------------------------------------------------------
(* The adapters among the parts of a VM                                    *)

AdaptersSafe == part = "adapters" => NicsTyped /\ PortsSafe /\ PlanSafe

LEMMA AdaptersInit ==
  ASSUME Init
  PROVE  AdaptersSafe
<1> SUFFICES ASSUME part = "adapters" PROVE NicsTyped /\ PortsSafe /\ PlanSafe
  BY DEF AdaptersSafe
<1>1. Nics!Init
  BY DEF Init
<1>2. RawDevices(host)
  BY <1>1, ConstantsAssumption DEF Nics!Init, RawDevices
<1>3. pc = "convert" /\ tf = {} /\ (~gap => Nics!Gapless(host))
  BY <1>1 DEF Nics!Init
<1>4. PlanSafe
  BY <1>2, <1>3 DEF PlanSafe, Written, Commands
<1> QED
  BY <1>1, <1>4, NicsInitTyped DEF Nics!Init, PortsSafe, Behind, Commands

LEMMA AdaptersStep ==
  ASSUME AdaptersSafe, [Next]_vars
  PROVE  AdaptersSafe'
<1> SUFFICES ASSUME part' = "adapters" PROVE (NicsTyped /\ PortsSafe /\ PlanSafe)'
  BY DEF AdaptersSafe
<1>1. CASE UNCHANGED vars
  <2>1. UNCHANGED <<part, want, tf, host, pc, nic, rule, kept, stale, gap, edits, events, faults>>
    BY <1>1 DEF vars, adapterVars
  <2>2. Nics!Reported' = Nics!Reported
    BY <2>1 DEF Nics!Reported, Nics!Attached
  <2>3. PlanSafe'
    BY <2>1, <2>2 DEF AdaptersSafe, PlanSafe, InSlots, Nics!SameAdapters
  <2>4. PortsSafe'
    BY <2>1 DEF AdaptersSafe, PortsSafe, Behind, Forwarded
  <2>5. NicsTyped'
    BY <2>1 DEF AdaptersSafe, NicsTyped, Nics!Accepted
  <2> QED
    BY <2>3, <2>4, <2>5
<1>2. CASE Next
  <2>1. part = "adapters" /\ Nics!Next
    BY <1>2 DEF Next, IsSettings, IsAdapters, IsStorage
  <2> QED
    BY <2>1, NicsNextTyped, PortsKept, PlanKept DEF AdaptersSafe
<1> QED
  BY <1>1, <1>2

LEMMA AdaptersInvariant == Spec => []AdaptersSafe
BY AdaptersInit, AdaptersStep, PTL DEF Spec

LEMMA CleanPlan ==
  ASSUME NicsTyped, PlanSafe, pc = "clean", ~stale
  PROVE  Nics!CleanPlanMeansAdapters
<1>1. want \in Seq(Nics!Adapters) /\ HostTyped(host) /\ Len(want) \in Nat /\ DOMAIN want = 1..Len(want)
  BY Wanted, ConstantsAssumption DEF NicsTyped
<1>2. PICK e \in tf : Nics!SameAdapters(e, want)
  BY DEF PlanSafe
<1>3. IF kept THEN e \in Seq(Nics!Adapters) /\ InSlots(e) ELSE e = Nics!Reported
  BY DEF PlanSafe, Written, Commands
<1>4. DOMAIN host = 1..Slots /\ There \in SUBSET (1..Slots)
  BY <1>1, ThereInSlots DEF HostTyped
<1>5. \A i \in DOMAIN want : want[i] \in Nics!Adapters
  BY <1>1
<1>6. CASE kept
  <2>1. e \in Seq(Nics!Adapters) /\ Len(e) = Len(want) /\ DOMAIN e = DOMAIN want
    BY <1>1, <1>2, <1>3, <1>6 DEF Nics!SameAdapters
  <2>2. \A i \in DOMAIN want : i \in 1..Slots /\ Nics!Has(host[i], want[i])
    <3> SUFFICES ASSUME NEW i \in DOMAIN want PROVE i \in 1..Slots /\ Nics!Has(host[i], want[i])
      OBVIOUS
    <3>1. e[i] \in Nics!Adapters /\ Nics!SameAdapter(e[i], want[i])
      BY <1>2, <2>1 DEF Nics!SameAdapters
    <3>2. e[i].type = want[i].type /\ e[i].net = want[i].net /\ Nics!Raw(e[i].device) = Nics!Raw(want[i].device)
      BY <1>5, <3>1, SameFields
    <3>3. i \in 1..Slots /\ Nics!Has(host[i], e[i])
      BY <1>3, <1>6, <2>1 DEF InSlots
    <3> QED
      BY <3>2, <3>3 DEF Nics!Has
  <2> DEFINE at == [k \in DOMAIN want |-> k]
  <2>3. at \in [DOMAIN want -> DOMAIN host] /\ Nics!InOrder(at)
    BY <1>4, <2>2 DEF Nics!InOrder
  <2>4. \A k \in DOMAIN want : Nics!Has(host[at[k]], want[k])
    BY <2>2
  <2> HIDE DEF at
  <2> QED
    BY <1>6, <2>2, <2>3, <2>4 DEF Nics!CleanPlanMeansAdapters
<1>7. CASE ~kept
  <2>1. /\ Nics!Reported = [k \in 1..Count |-> Shown(host[Place(k)])]
        /\ Len(Nics!Reported) = Count /\ Count \in Nat
    BY <1>1, ReportedPlaces, AttachedPlaces
  <2>2. Count = Len(want) /\ DOMAIN want = 1..Count /\ DOMAIN Nics!Reported = 1..Count
    BY <1>1, <1>2, <1>3, <1>7, <2>1 DEF Nics!SameAdapters
  <2>3. \A k \in DOMAIN want : Place(k) \in DOMAIN host /\ Nics!Has(host[Place(k)], want[k])
    <3> SUFFICES ASSUME NEW k \in 1..Count
                 PROVE  Place(k) \in DOMAIN host /\ Nics!Has(host[Place(k)], want[k])
      BY <2>2
    <3>1. Place(k) \in There
      BY <1>1, AttachedPlaces
    <3>2. Place(k) \in DOMAIN host /\ Nics!IsAttached(host[Place(k)])
      BY <3>1 DEF There
    <3>3. Nics!SameAdapter(Shown(host[Place(k)]), want[k])
      <4>1. Nics!SameAdapter(Nics!Reported[k], want[k])
        BY <1>2, <1>3, <1>7, <2>2 DEF Nics!SameAdapters
      <4>2. Nics!Reported[k] = Shown(host[Place(k)])
        BY <2>1
      <4> QED
        BY <4>1, <4>2
    <3>4. host[Place(k)].device \notin DOMAIN Nics!RawOf
      BY <1>4, <3>2 DEF PlanSafe, RawDevices
    <3>5. want[k] \in Nics!Adapters
      BY <1>5, <2>2
    <3> QED
      BY <3>2, <3>3, <3>4, <3>5, SameAsShown DEF Nics!Has
  <2> DEFINE at == [k \in DOMAIN want |-> Place(k)]
  <2>4. at \in [DOMAIN want -> DOMAIN host] /\ Nics!InOrder(at)
    <3>1. \A k, l \in 1..Count : k < l => Place(k) < Place(l)
      BY <1>1, PlacesInOrder
    <3> QED
      BY <2>2, <2>3, <3>1 DEF Nics!InOrder
  <2>5. \A k \in DOMAIN want : Nics!Has(host[at[k]], want[k])
    BY <2>3
  <2>6. Nics!Cardinality({i \in DOMAIN host : Nics!IsAttached(host[i])}) = Len(want)
    BY <2>2 DEF Count, There
  <2>7. ~gap => \A k \in DOMAIN want : Nics!Has(host[k], want[k])
    BY <1>1, <2>2, <2>3, GaplessPlaces DEF PlanSafe
  <2> HIDE DEF at
  <2> QED
    BY <1>7, <2>4, <2>5, <2>6, <2>7 DEF Nics!CleanPlanMeansAdapters
<1> QED
  BY <1>6, <1>7

(* An empty plan means that the machine has the configured adapters, in    *)
(* their order and with their types, devices and networks, and no others;  *)
(* and, if no empty slot came before an attached adapter, each in the slot *)
(* of its number (parseMachineInfo, netVboxToTf against netTfToVbox and    *)
(* modifyVM). After a failed apply or another user's change it says so     *)
(* once the machine has been read, and the others only when the record is  *)
(* one that was read.                                                      *)
THEOREM CleanPlansAreTrue == Spec => []CleanPlanMeansAdapters
<1>1. AdaptersSafe => CleanPlanMeansAdapters
  <2> SUFFICES ASSUME AdaptersSafe, part = "adapters" PROVE Nics!CleanPlanMeansAdapters
    BY DEF CleanPlanMeansAdapters
  <2>1. CASE pc = "clean" /\ ~stale
    BY <2>1, CleanPlan DEF AdaptersSafe
  <2>2. CASE ~(pc = "clean" /\ ~stale)
    BY <2>2 DEF Nics!CleanPlanMeansAdapters
  <2> QED
    BY <2>1, <2>2
<1> QED
  BY <1>1, AdaptersInvariant, PTL

(* When all commands of an apply have succeeded, the configured ports are  *)
(* forwarded, and a NAT adapter has no other rules unless a command has    *)
(* failed (applyNICSettings, whose deletion of the old rules may fail      *)
(* without an error).                                                      *)
THEOREM PortsAreForwarded == Spec => []PortsForwarded
<1>1. AdaptersSafe => PortsForwarded
  BY DEF AdaptersSafe, PortsSafe, PortsForwarded, Nics!PortsForwarded, Behind, Forwarded, Wide, Nics!RulesOf
<1> QED
  BY <1>1, AdaptersInvariant, PTL

-----------------------------------------------------------------------------
(* The types of slots and records.                                         *)

SlotsTyped == host \in [1..Slots -> Nics!SlotType]

LEMMA WordTyped ==
  /\ \A w \in Nics!Words : Nics!Type(w) \in STRING
  /\ \A d \in STRING : Nics!Raw(d) \in STRING /\ Nics!Name(d) \in STRING
  /\ "" \in STRING
<1>1. \A d \in DOMAIN Nics!RawOf : d \in STRING /\ Nics!RawOf[d] \in STRING
  BY WordsAreStrings
<1>2. \A w \in Nics!Words : Nics!Type(w) \in Nics!Words \cup {"internal"}
  BY DEF Nics!Type
<1>3. Nics!Words \cup {"internal"} \subseteq STRING /\ "" \in STRING
  BY WordsAreStrings DEF Nics!Types
<1>4. ASSUME NEW d \in STRING PROVE Nics!Name(d) \in STRING
  <2>1. CASE \E e \in DOMAIN Nics!RawOf : Nics!RawOf[e] = d
    <3>1. Nics!Name(d) \in DOMAIN Nics!RawOf
      BY <2>1 DEF Nics!Name
    <3> QED
      BY <1>1, <3>1
  <2>2. CASE ~\E e \in DOMAIN Nics!RawOf : Nics!RawOf[e] = d
    BY <2>2 DEF Nics!Name
  <2> QED
    BY <2>1, <2>2
<1> QED
  BY <1>1, <1>2, <1>3, <1>4 DEF Nics!Raw

(* What a read records has the types of a configuration.                   *)
LEMMA ReportedTyped ==
  ASSUME SlotsTyped
  PROVE  Nics!Reported \in Seq(Nics!Adapters)
<1>1. HostTyped(host)
  BY SlotsAreShaped DEF SlotsTyped, HostTyped
<1>2. /\ Count \in Nat /\ Nics!Attached = [k \in 1..Count |-> host[Place(k)]]
      /\ \A k \in 1..Count : Place(k) \in There
  BY <1>1, AttachedPlaces
<1>3. \A i \in There : host[i] \in Nics!SlotType /\ host[i].type # "none"
  BY DEF SlotsTyped, There, Nics!IsAttached
<1>5. DOMAIN Nics!Attached = 1..Count /\ \A k \in 1..Count : /\ Nics!Attached[k] \in Nics!SlotType
                                                             /\ Nics!Attached[k].type # "none"
  BY <1>2, <1>3
<1>6. ASSUME NEW s \in Nics!SlotType, s.type # "none"
      PROVE  Shown(s) \in Nics!Adapters
  <2>1. s.type \in Nics!Words /\ s.device \in STRING /\ s.net \in STRING
    BY <1>6 DEF Nics!SlotType
  <2>2. Nics!Type(s.type) \in STRING /\ Nics!Name(s.device) \in STRING
    BY <2>1, WordTyped
  <2>3. <<>> \in Seq(Nics!Rules)
    OBVIOUS
  <2> QED
    BY <2>1, <2>2, <2>3 DEF Shown, Nics!Adapters
<1>7. Nics!Reported = [k \in 1..Count |-> Shown(Nics!Attached[k])]
  BY <1>5 DEF Nics!Reported, Shown
<1>8. \A k \in 1..Count : Shown(Nics!Attached[k]) \in Nics!Adapters
  BY <1>5, <1>6
<1> QED
  BY <1>2, <1>7, <1>8

(* A slot with another value of its type in a field.                       *)
LEMMA SlotFields ==
  ASSUME NEW s \in Nics!SlotType
  PROVE  /\ \A x \in Nics!Words \cup {"none"} : [s EXCEPT !.type = x] \in Nics!SlotType
         /\ \A x \in STRING : [s EXCEPT !.net = x] \in Nics!SlotType
         /\ \A x \in BOOLEAN : /\ [s EXCEPT !.promisc = x] \in Nics!SlotType
                               /\ [s EXCEPT !.cable = x] \in Nics!SlotType
                               /\ [s EXCEPT !.dns = x] \in Nics!SlotType
         /\ \A x \in SUBSET Nics!Rules : [s EXCEPT !.rules = x] \in Nics!SlotType
BY DEF Nics!SlotType

LEMMA ModifiedTyped ==
  ASSUME NEW s \in Nics!SlotType, NEW w \in Nics!Adapters, Nics!Network(w.type) \in Nics!Words
  PROVE  Nics!Modified(s, w) \in Nics!SlotType
<1> DEFINE net == IF w.type \in Nics!NetIsNeeded THEN w.net ELSE ""
           ty  == Nics!Network(w.type)
           dev == Nics!Raw(w.device)
<1>1. net \in STRING /\ dev \in STRING /\ ty \in Nics!Words
  BY WordTyped DEF Nics!Adapters
<1>2. Nics!Modified(s, w) = [s EXCEPT !.type = ty, !.device = dev, !.net = net]
  BY DEF Nics!Modified
<1> HIDE DEF net, ty, dev
<1>3. [s EXCEPT !.type = ty, !.device = dev, !.net = net] \in Nics!SlotType
  BY <1>1 DEF Nics!SlotType
<1> QED
  BY <1>2, <1>3

LEMMA SlotsStayTyped ==
  ASSUME NicsTyped, SlotsTyped, Nics!Next
  PROVE  SlotsTyped'
<1> USE DEF SlotsTyped
<1>0. ASSUME NEW i \in 1..Slots, NEW s \in Nics!SlotType, host' = [host EXCEPT ![i] = s]
      PROVE  SlotsTyped'
  BY <1>0
<1>1. pc \in Commands \cup {"add"} =>
        /\ nic \in 1..Slots /\ nic \in DOMAIN want /\ host[nic] \in Nics!SlotType
        /\ want[nic] \in Nics!Adapters
  <2> SUFFICES ASSUME pc \in Commands \cup {"add"}
               PROVE  nic \in 1..Slots /\ nic \in DOMAIN want /\ want[nic] \in Nics!Adapters
    OBVIOUS
  <2>1. nic \in 1..Len(want) /\ Len(want) <= Slots /\ Len(want) \in Nat /\ nic \in DOMAIN want
    BY Wanted DEF NicsTyped, Written, Nics!Accepted
  <2>2. want \in Seq(Nics!Adapters)
    BY ConstantsAssumption DEF NicsTyped
  <2> QED
    BY <2>1, <2>2, SomeSlots
<1>2. CASE Nics!Refresh \/ Nics!Plan \/ Nics!Convert \/ Nics!FinalRead \/ Nics!EditConfig
  BY <1>2 DEF Nics!Refresh, Nics!Plan, Nics!Convert, Nics!FinalRead, Nics!EditConfig
<1>3. CASE Nics!Modify
  <2>1. CASE host' = host
    BY <2>1
  <2>2. CASE /\ Nics!Accepted
             /\ host' = [i \in DOMAIN host |-> IF i \in DOMAIN want THEN Nics!Modified(host[i], want[i]) ELSE host[i]]
    <3>1. ASSUME NEW i \in DOMAIN want PROVE want[i] \in Nics!Adapters /\ Nics!Network(want[i].type) \in Nics!Words
      <4>1. want \in Seq(Nics!Adapters)
        BY ConstantsAssumption DEF NicsTyped
      <4> QED
        BY <2>2, <4>1 DEF Nics!Accepted
    <3>2. \A i \in 1..Slots : host[i] \in Nics!SlotType
      OBVIOUS
    <3>3. \A i \in 1..Slots : i \in DOMAIN want => Nics!Modified(host[i], want[i]) \in Nics!SlotType
      BY <3>1, <3>2, ModifiedTyped
    <3> QED
      BY <2>2, <3>2, <3>3
  <2> QED
    BY <1>3, <2>1, <2>2 DEF Nics!Modify
<1>4. CASE Nics!NicSetting
  <2>1. pc \in Commands
    BY <1>4, AfterCommands DEF Nics!NicSetting
  <2>2. CASE host' = host
    BY <2>2
  <2>3. CASE host' = [host EXCEPT ![nic][pc] = IF pc = "rules" THEN {} ELSE want[nic][pc]]
    <3> DEFINE x == IF pc = "rules" THEN {} ELSE want[nic][pc]
               s == [host[nic] EXCEPT ![pc] = x]
    <3>1. s \in Nics!SlotType
      <4> DEFINE w == want[nic]
                 h == host[nic]
      <4>1. h \in Nics!SlotType /\ w \in Nics!Adapters
        BY <1>1, <2>1
      <4>2. w.promisc \in BOOLEAN /\ w.cable \in BOOLEAN /\ w.dns \in BOOLEAN /\ w.net \in STRING
        BY <4>1 DEF Nics!Adapters
      <4> HIDE DEF w, h
      <4>3. /\ pc = "promisc" => [h EXCEPT ![pc] = w[pc]] \in Nics!SlotType
            /\ pc = "cable" => [h EXCEPT ![pc] = w[pc]] \in Nics!SlotType
            /\ pc = "dns" => [h EXCEPT ![pc] = w[pc]] \in Nics!SlotType
            /\ pc = "net" => [h EXCEPT ![pc] = w[pc]] \in Nics!SlotType
            /\ pc = "rules" => [h EXCEPT ![pc] = {}] \in Nics!SlotType
        BY <4>1, <4>2, SlotFields
      <4>4. /\ pc = "rules" => s = [h EXCEPT ![pc] = {}]
            /\ pc # "rules" => s = [h EXCEPT ![pc] = w[pc]]
        BY DEF w, h
      <4> HIDE DEF s
      <4> QED
        BY <2>1, <4>3, <4>4 DEF Commands
    <3>2. host' = [host EXCEPT ![nic] = s]
      BY <2>3
    <3> HIDE DEF s
    <3> QED
      BY <1>0, <1>1, <2>1, <3>1, <3>2
  <2> QED
    BY <1>4, <2>2, <2>3 DEF Nics!NicSetting
<1>5. CASE Nics!AddRule
  <2>0. pc = "add"
    BY <1>5 DEF Nics!AddRule
  <2>1. CASE host' = host
    BY <2>1
  <2>2. CASE /\ rule <= Len(want[nic].rules)
             /\ host' = [host EXCEPT ![nic].rules = host[nic].rules \cup {want[nic].rules[rule]}]
    <3>1. want[nic].rules[rule] \in Nics!Rules
      <4>1. want[nic].rules \in Seq(Nics!Rules) /\ rule \in 1..(Len(want[nic].rules) + 1)
        BY <1>1, <2>0 DEF Nics!Adapters, NicsTyped
      <4>2. rule \in 1..Len(want[nic].rules)
        BY <2>2, <4>1
      <4> QED
        BY <4>1, <4>2
    <3>2. host[nic].rules \in SUBSET Nics!Rules
      BY <1>1, <2>0 DEF Nics!SlotType
    <3> DEFINE s == [host[nic] EXCEPT !.rules = host[nic].rules \cup {want[nic].rules[rule]}]
    <3>3. s \in Nics!SlotType
      BY <1>1, <2>0, <3>1, <3>2, SlotFields
    <3>4. host' = [host EXCEPT ![nic] = s]
      BY <2>2
    <3> HIDE DEF s
    <3> QED
      BY <1>0, <1>1, <2>0, <3>3, <3>4
  <2> QED
    BY <1>5, <2>1, <2>2 DEF Nics!AddRule
<1>6. CASE Nics!Meddle
  <2>1. PICK i \in 1..Slots : host' \in {[host EXCEPT ![i].type = "none"],
                                         [host EXCEPT ![i].type = "nat", ![i].net = ""],
                                         [host EXCEPT ![i].rules = {}]}
    BY <1>6 DEF Nics!Meddle
  <2> DEFINE h == host[i]
             nat == [h EXCEPT !.type = "nat"]
  <2>2. /\ [h EXCEPT !.type = "none"] \in Nics!SlotType /\ nat \in Nics!SlotType
        /\ [h EXCEPT !.rules = {}] \in Nics!SlotType
    <3>1. "nat" \in Nics!Words /\ h \in Nics!SlotType
      BY DEF Nics!Words, Nics!Types
    <3> QED
      BY <3>1, SlotFields
  <2>3. [nat EXCEPT !.net = ""] \in Nics!SlotType
    <3> HIDE DEF nat
    <3> QED
      BY <2>2, WordTyped, SlotFields
  <2>4. \/ host' = [host EXCEPT ![i] = [h EXCEPT !.type = "none"]]
        \/ host' = [host EXCEPT ![i] = [nat EXCEPT !.net = ""]]
        \/ host' = [host EXCEPT ![i] = [h EXCEPT !.rules = {}]]
    BY <2>1
  <2> HIDE DEF h, nat
  <2> QED
    BY <1>0, <2>2, <2>3, <2>4
<1> QED
  BY <1>2, <1>3, <1>4, <1>5, <1>6 DEF Nics!Next, Nics!Apply

(* What Terraform records is a list of adapters, and the bounds hold.      *)
RecordTyped ==
  /\ tf = {} \/ \E e \in Seq(Nics!Adapters) : tf = {e}
  /\ nic \in 1..Slots /\ rule \in Nat /\ kept \in BOOLEAN /\ stale \in BOOLEAN /\ gap \in BOOLEAN

Counted == edits \in 0..MaxEdits /\ events \in 0..MaxEvents /\ faults \in 0..MaxFaults

LEMMA Bounds == MaxEdits \in Nat /\ MaxEvents \in Nat /\ MaxFaults \in Nat
BY ConstantsAssumption

LEMMA RecordStaysTyped ==
  ASSUME NicsTyped, SlotsTyped, RecordTyped, Nics!Next
  PROVE  RecordTyped'
<1>1. tf' = tf \/ tf' = {want} \/ tf' = {Nics!Reported}
  BY DEF Nics!Next, Nics!Apply, Nics!Refresh, Nics!Plan, Nics!Convert, Nics!Modify, Nics!NicSetting,
         Nics!AddRule, Nics!FinalRead, Nics!EditConfig, Nics!Meddle, Nics!Failed
<1>2. want \in Seq(Nics!Adapters) /\ Nics!Reported \in Seq(Nics!Adapters)
  BY ReportedTyped, ConstantsAssumption DEF NicsTyped
<1>3. tf' = {} \/ \E e \in Seq(Nics!Adapters) : tf' = {e}
  BY <1>1, <1>2 DEF RecordTyped
<1>4. rule' \in {rule, 1, rule + 1} /\ kept' \in {kept, TRUE, FALSE} /\ stale' \in {stale, TRUE, FALSE}
      /\ (gap' = gap \/ gap' = (gap \/ ~Nics!Gapless(host')))
  BY DEF Nics!Next, Nics!Apply, Nics!Refresh, Nics!Plan, Nics!Convert, Nics!Modify, Nics!NicSetting,
         Nics!AddRule, Nics!FinalRead, Nics!EditConfig, Nics!Meddle, Nics!Failed
<1>5. \/ nic' = nic \/ nic' = 1
      \/ pc = "add" /\ nic < Len(want) /\ nic' = nic + 1
  BY DEF Nics!Next, Nics!Apply, Nics!Refresh, Nics!Plan, Nics!Convert, Nics!Modify, Nics!NicSetting,
         Nics!AddRule, Nics!NextNic, Nics!FinalRead, Nics!EditConfig, Nics!Meddle
<1>6. pc = "add" => Len(want) \in Nat /\ Len(want) <= Slots
  BY Wanted DEF NicsTyped, Written, Nics!Accepted
<1>7. nic' \in 1..Slots
  <2>1. nic \in 1..Slots /\ Slots \in Nat \ {0}
    BY SomeSlots DEF RecordTyped
  <2> DEFINE n == Len(want)
  <2>2. CASE pc = "add" /\ nic < n /\ nic' = nic + 1
    <3>1. n \in Nat /\ n <= Slots
      BY <1>6, <2>2
    <3> HIDE DEF n
    <3> QED
      BY <2>1, <2>2, <3>1
  <2> QED
    BY <1>5, <2>1, <2>2
<1>8. kept' \in BOOLEAN /\ stale' \in BOOLEAN
  BY <1>4 DEF RecordTyped
<1>10. gap' \in BOOLEAN
  BY <1>4 DEF RecordTyped
<1>9. rule' \in Nat
  BY <1>4 DEF RecordTyped
<1> QED
  BY <1>3, <1>7, <1>8, <1>9, <1>10 DEF RecordTyped

LEMMA StaysCounted ==
  ASSUME Counted, Nics!Next
  PROVE  Counted'
<1>1. /\ edits' = edits \/ (edits < MaxEdits /\ edits' = edits + 1)
      /\ events' = events \/ (events < MaxEvents /\ events' = events + 1)
      /\ faults' = faults \/ (faults < MaxFaults /\ faults' = faults + 1)
  BY DEF Nics!Next, Nics!Apply, Nics!Refresh, Nics!Plan, Nics!Convert, Nics!Modify, Nics!NicSetting,
         Nics!AddRule, Nics!FinalRead, Nics!EditConfig, Nics!Meddle, Nics!Fault, Nics!counters
<1> QED
  BY <1>1, Bounds DEF Counted

LEMMA SettingsStayCounted ==
  ASSUME edits \in 0..MaxEdits, faults \in 0..MaxFaults, op \in Origins \cup {"update"}, Settings!Next
  PROVE  edits' \in 0..MaxEdits /\ faults' \in 0..MaxFaults /\ op' \in Origins \cup {"update"}
<1>1. /\ edits' = edits \/ (edits < MaxEdits /\ edits' = edits + 1)
      /\ faults' = faults \/ (faults < MaxFaults /\ faults' = faults + 1)
      /\ op' = op \/ op' = "update"
  BY DEF Settings!Next, Settings!RunStep, Settings!Apply
<1> QED
  BY <1>1, Bounds

(* The types of all parts, whichever part a behaviour is about.            *)
Parts == {"settings", "adapters", "storage"}

AllTyped ==
  /\ part \in Parts
  /\ part = "settings" => edits \in 0..MaxEdits /\ faults \in 0..MaxFaults /\ op \in Origins \cup {"update"}
  /\ part = "adapters" => SlotsTyped /\ RecordTyped /\ Counted

LEMMA AllTypedInit ==
  ASSUME Init
  PROVE  AllTyped
<1>1. part \in Parts
  BY DEF Init, Parts
<1>2. ASSUME part = "settings"
      PROVE  edits \in 0..MaxEdits /\ faults \in 0..MaxFaults /\ op \in Origins \cup {"update"}
  BY <1>2, Bounds DEF Init, Settings!Init
<1>3. ASSUME part = "adapters" PROVE SlotsTyped /\ RecordTyped /\ Counted
  <2>1. Nics!Init
    BY <1>3 DEF Init
  <2>2. host \in [1..Slots -> Nics!SlotType]
    BY <2>1, ConstantsAssumption DEF Nics!Init
  <2>3. RecordTyped
    <3>1. tf = {} /\ nic = 1 /\ rule = 1 /\ kept = FALSE /\ stale = FALSE /\ gap = (~Nics!Gapless(host))
      BY <2>1 DEF Nics!Init
    <3>2. 1 \in 1..Slots
      BY SomeSlots
    <3> QED
      BY <3>1, <3>2 DEF RecordTyped
  <2>4. Counted
    BY <2>1, Bounds DEF Nics!Init, Counted
  <2> QED
    BY <2>2, <2>3, <2>4 DEF SlotsTyped
<1> QED
  BY <1>1, <1>2, <1>3 DEF AllTyped

LEMMA AllTypedStep ==
  ASSUME AdaptersSafe, AllTyped, [Next]_vars
  PROVE  AllTyped'
<1>1. CASE IsSettings /\ Settings!Next
  BY <1>1, SettingsStayCounted DEF AllTyped, IsSettings
<1>2. CASE IsAdapters /\ Nics!Next
  BY <1>2, SlotsStayTyped, RecordStaysTyped, StaysCounted DEF AllTyped, AdaptersSafe, IsAdapters
<1>3. CASE IsStorage
  BY <1>3 DEF AllTyped, IsStorage
<1>4. CASE UNCHANGED vars
  <2>1. UNCHANGED <<part, op, tf, host, nic, rule, kept, stale, gap, edits, events, faults>>
    BY <1>4 DEF vars, settingsVars, adapterVars
  <2> QED
    BY <2>1 DEF AllTyped, SlotsTyped, RecordTyped, Counted
<1> QED
  BY <1>1, <1>2, <1>3, <1>4 DEF Next

LEMMA NicsAreTyped ==
  ASSUME NicsTyped, SlotsTyped, RecordTyped, Counted
  PROVE  Nics!TypeOK
<1>1. pc \in {"idle", "plan", "clean", "convert", "modify", "add", "read", "lost"} \cup DOMAIN Nics!After
  BY AfterCommands DEF NicsTyped, Written
<1>2. Nics!Cardinality(tf) <= 1 /\ \A e \in tf : e \in Seq(Nics!Adapters)
  <2>1. Nics!Cardinality(tf) = Cardinality(tf)
    BY InstanceCardinality
  <2>2. CASE tf = {}
    BY <2>1, <2>2, FS_EmptySet
  <2>3. CASE \E e \in Seq(Nics!Adapters) : tf = {e}
    <3>1. PICK e \in Seq(Nics!Adapters) : tf = {e}
      BY <2>3
    <3>2. Cardinality(tf) = 1
      BY <3>1, FS_Singleton
    <3> QED
      BY <2>1, <3>1, <3>2
  <2> QED
    BY <2>2, <2>3 DEF RecordTyped
<1> QED
  BY <1>1, <1>2 DEF Nics!TypeOK, NicsTyped, SlotsTyped, RecordTyped, Counted

LEMMA SettingsAreTyped ==
  ASSUME SettingsTyped, edits \in 0..MaxEdits, faults \in 0..MaxFaults, op \in Origins \cup {"update"}
  PROVE  Settings!TypeOK
BY KeysAreNamed DEF Settings!TypeOK, SettingsTyped

(* Everything keeps its type: the keys of the settings their ranges, the   *)
(* adapters and the record of them the fields that VirtualBox and the      *)
(* schema know, the storage its disks, controllers and media; and step,    *)
(* adapter and medium stay positions that there are (resourceVMCreate,     *)
(* resourceVMUpdate, applyNICSettings, gatherDisks).                       *)
THEOREM TypeCorrect == Spec => []TypeOK
<1>1. Init => AllTyped
  BY AllTypedInit
<1>2. AdaptersSafe /\ AllTyped /\ [Next]_vars => AllTyped'
  BY AllTypedStep
<1>3. Spec => []AllTyped
  BY <1>1, <1>2, AdaptersInvariant, PTL DEF Spec
<1>4. SettingsKept /\ AdaptersSafe /\ StoreKept /\ AllTyped => TypeOK
  <2> SUFFICES ASSUME SettingsKept, AdaptersSafe, StoreKept, AllTyped PROVE TypeOK
    OBVIOUS
  <2>1. part = "settings" => Settings!TypeOK
    BY SettingsAreTyped DEF SettingsKept, SettingsInv, AllTyped
  <2>2. part = "adapters" => Nics!TypeOK
    BY NicsAreTyped DEF AdaptersSafe, AllTyped
  <2>3. part = "storage" => Store!TypeOK
    BY DEF StoreKept
  <2>4. part \in Parts
    BY DEF AllTyped
  <2> QED
    BY <2>1, <2>2, <2>3, <2>4 DEF TypeOK, Parts
<1> QED
  BY <1>3, <1>4, SettingsKeptHolds, AdaptersInvariant, StoreKeptHolds, PTL
=============================================================================
