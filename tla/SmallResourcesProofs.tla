------------------------- MODULE SmallResourcesProofs ------------------------
(***************************************************************************)
(* Proofs of the safety properties of SmallResources: for each resource an *)
(* inductive invariant, and the lemma that its steps keep it.              *)
(***************************************************************************)
EXTENDS SmallResourcesTypes

NoFailures == faults + events = 0

(* Failures and the deeds of others are counted, and the count never falls. *)
CountersGrow == edits' \in Nat /\ events' \in Nat /\ faults' \in Nat
                  /\ events <= events' /\ faults <= faults'

LEMMA FailuresAdd ==
  ASSUME CountersGrow, faults \in Nat, events \in Nat
  PROVE  faults + events \in Nat /\ faults' + events' \in Nat /\ faults + events <= faults' + events'
<1> DEFINE f == faults'
           e == events'
<1>1. f \in Nat /\ e \in Nat /\ faults <= f /\ events <= e
  BY DEF CountersGrow
<1> HIDE DEF f, e
<1>2. faults + events \in Nat /\ f + e \in Nat /\ faults + events <= f + e
  BY <1>1
<1> QED
  BY <1>2 DEF f, e

LEMMA NothingFailed ==
  ASSUME CountersGrow, faults \in Nat, events \in Nat, NoFailures'
  PROVE  faults = 0 /\ events = 0 /\ faults' = 0 /\ events' = 0
<1> DEFINE f == faults'
           e == events'
<1>1. f \in Nat /\ e \in Nat /\ faults <= f /\ events <= e /\ f + e = 0
  BY DEF CountersGrow, NoFailures
<1> HIDE DEF f, e
<1>2. faults = 0 /\ events = 0 /\ f = 0 /\ e = 0
  BY <1>1
<1> QED
  BY <1>2 DEF f, e

-----------------------------------------------------------------------------
(* The NAT network. A record that has just been read has the settings of   *)
(* the network, and its rules as far as the read finds any. Without        *)
(* failures, a network that is not recorded is one that a create is still  *)
(* working on; the rules it has not come to are not there, so that none of *)
(* them is refused.                                                        *)

NatBusy == {"add", "modify", "deleteRules", "addRules", "read"}

NatRecorded(e) == \E n \in network : e.net = n.net /\ NatNet!Found(n) \in {e.rules, NatNet!NoRules}

NatSafe ==
  /\ pc = "plan" /\ ~stale => \A e \in tf : NatRecorded(e)
  /\ NatNet!CleanPlanMeansSettings
  /\ pc \in NatBusy => want # {}
  /\ NoFailures =>
       /\ tf = {} /\ network # {} => pc \in {"addRules", "read"}
       /\ pc = "add" => tf = {}
       /\ pc = "addRules" /\ tf = {} =>
            \A n \in network, r \in NatNet!Rules : r >= rule => n.rules[r] = 0

LEMMA NatGrows ==
  ASSUME NatTyped, NatNet!Next
  PROVE  CountersGrow
<1>1. edits \in Nat /\ events \in Nat /\ faults \in Nat
  BY ConstantsAssumption DEF NatTyped, Counted
<1> QED
  BY <1>1 DEF NatNet!Next, NatNet!Apply, NatNet!Refresh, NatNet!Plan, NatNet!Add, NatNet!Modify,
       NatNet!Command, NatNet!DeleteRule, NatNet!AddRule, NatNet!FinalRead, NatNet!Remove,
       NatNet!EditConfig, NatNet!Meddle, NatNet!Fault, NatNet!counters, CountersGrow

(* A step without a failure before or in it is no fault and nobody else's. *)
LEMMA NatNoFault ==
  ASSUME NatTyped, CountersGrow, NoFailures'
  PROVE  NoFailures /\ ~NatNet!Fault /\ ~NatNet!Meddle
BY ConstantsAssumption DEF NatTyped, Counted, CountersGrow, NoFailures, NatNet!Fault, NatNet!Meddle

LEMMA NatReadHasNet ==
  ASSUME NEW e \in NatNet!Entries, NEW n \in NatNet!Networks
  PROVE  /\ NatNet!Read(e, n).net = n.net
         /\ NatNet!Found(n) \in {NatNet!Read(e, n).rules, NatNet!NoRules}
<1> DEFINE f == NatNet!Found(n)
           m == [e EXCEPT !.net = n.net]
<1>1. NatNet!Read(e, n) = [m EXCEPT !.rules = IF f = NatNet!NoRules THEN @ ELSE f]
  BY DEF NatNet!Read, NatNet!Entries
<1>2. m.net = n.net /\ m \in [net : {n.net}, rules : {e.rules}, tainted : {e.tainted}]
  BY DEF NatNet!Entries
<1> HIDE DEF f, m
<1>3. NatNet!Read(e, n).net = m.net /\ f \in {NatNet!Read(e, n).rules, NatNet!NoRules}
  BY <1>1, <1>2
<1> QED
  BY <1>2, <1>3 DEF f

LEMMA NatPlanHasNet ==
  ASSUME NatTyped, NatSafe, NatNet!Next
  PROVE  /\ (pc = "plan" /\ ~stale => \A e \in tf : NatRecorded(e))'
         /\ NatNet!CleanPlanMeansSettings'
         /\ (pc \in NatBusy => want # {})'
<1> USE DEF NatNet!counters
<1>1. CASE NatNet!Refresh
  <2>1. CASE tf' = {NatNet!Read(e, n) : e \in tf, n \in network} /\ pc' = "plan"
    <3>1. \A e \in tf, n \in network :
            /\ NatNet!Read(e, n).net = n.net
            /\ NatNet!Found(n) \in {NatNet!Read(e, n).rules, NatNet!NoRules}
      BY NatReadHasNet DEF NatTyped
    <3>2. network' = network
      BY <1>1 DEF NatNet!Refresh
    <3>3. ASSUME NEW e \in tf' PROVE NatRecorded(e)'
      <4>1. PICK f \in tf, n \in network : e = NatNet!Read(f, n)
        BY <2>1
      <4>2. e.net = n.net /\ NatNet!Found(n) \in {e.rules, NatNet!NoRules}
        BY <3>1, <4>1
      <4>3. NatNet!Found(n)' = NatNet!Found(n) /\ NatNet!NoRules' = NatNet!NoRules
        BY DEF NatNet!Found, NatNet!NoRules, NatNet!Rules
      <4> QED
        BY <3>2, <4>2 DEF NatRecorded
    <3> QED
      BY <2>1, <3>3 DEF NatNet!CleanPlanMeansSettings, NatBusy
  <2>2. CASE pc' = "idle"
    BY <2>2 DEF NatNet!CleanPlanMeansSettings, NatBusy
  <2> QED
    BY <1>1, <2>1, <2>2 DEF NatNet!Refresh
<1>2. CASE NatNet!Plan /\ stale' = stale
  <2>1. UNCHANGED <<want, tf, network, stale>> /\ pc = "plan" /\ pc' # "plan"
    BY <1>2 DEF NatNet!Plan
  <2>2. pc' = "clean" => \/ want = {}
                         \/ \E w \in want, e \in tf : e = NatNet!Planned(w)
    BY <1>2 DEF NatNet!Plan
  <2>3. ASSUME NEW w \in want, NEW e \in tf, e = NatNet!Planned(w)
        PROVE  want = {w} /\ e.net = w.net /\ e.rules = w.rules
    BY <2>3 DEF NatTyped, AtMostOne, NatNet!Planned
  <2>4. NatNet!CleanPlanMeansSettings'
    <3> SUFFICES ASSUME pc' = "clean", ~stale, NEW w \in want
                 PROVE  \E n \in network : n.net = w.net /\ NatNet!Found(n) \in {w.rules, NatNet!NoRules}
      BY <2>1 DEF NatNet!CleanPlanMeansSettings
    <3>1. PICK v \in want, e \in tf : e = NatNet!Planned(v)
      BY <2>2
    <3>2. want = {v} /\ e.net = v.net /\ e.rules = v.rules
      BY <2>3, <3>1
    <3>3. PICK n \in network : e.net = n.net /\ NatNet!Found(n) \in {e.rules, NatNet!NoRules}
      BY <2>1 DEF NatSafe, NatRecorded
    <3> QED
      BY <3>2, <3>3
  <2>5. pc' \in NatBusy => want # {}
    BY <1>2 DEF NatNet!Plan, NatBusy
  <2> QED
    BY <2>1, <2>4, <2>5
<1>3. CASE NatNet!EditConfig
  BY <1>3 DEF NatNet!EditConfig, NatNet!CleanPlanMeansSettings, NatBusy
<1>4. CASE NatNet!Meddle
  <2>1. stale' = TRUE /\ UNCHANGED <<want, pc>>
    BY <1>4 DEF NatNet!Meddle
  <2> QED
    BY <2>1 DEF NatNet!CleanPlanMeansSettings, NatSafe
<1>5. CASE pc \in NatBusy \cup {"remove"} /\ pc' \in NatBusy \cup {"idle"} /\ want' = want /\ (pc = "remove" => pc' = "idle")
  BY <1>5 DEF NatNet!CleanPlanMeansSettings, NatBusy, NatSafe
<1>6. CASE NatNet!Add
  BY <1>5, <1>6 DEF NatNet!Add, NatNet!Command, NatNet!Failed, NatBusy
<1>7. CASE NatNet!Modify
  BY <1>5, <1>7 DEF NatNet!Modify, NatNet!Command, NatNet!Failed, NatBusy
<1>8. CASE NatNet!DeleteRule
  BY <1>5, <1>8 DEF NatNet!DeleteRule, NatNet!Advance, NatBusy
<1>9. CASE NatNet!AddRule
  BY <1>5, <1>9 DEF NatNet!AddRule, NatNet!Advance, NatNet!Failed, NatBusy
<1>10. CASE NatNet!FinalRead
  BY <1>5, <1>10 DEF NatNet!FinalRead, NatBusy
<1>11. CASE NatNet!Remove
  BY <1>5, <1>11 DEF NatNet!Remove, NatBusy
<1> QED
  BY <1>1, <1>2, <1>3, <1>4, <1>6, <1>7, <1>8, <1>9, <1>10, <1>11 DEF NatNet!Next, NatNet!Apply

LEMMA NatKeepsSafe ==
  ASSUME NatTyped, NatSafe, NatNet!Next
  PROVE  NatSafe'
<1> DEFINE Known(n, t, p) == t = {} /\ n # {} => p \in {"addRules", "read"}
           ToCome == pc' = "addRules" /\ tf' = {} =>
                       \A n \in network', r \in NatNet!Rules : r >= rule' => n.rules[r] = 0
<1> USE DEF NatNet!counters
<1>0. CountersGrow
  BY NatGrows
<1> SUFFICES ASSUME NoFailures'
             PROVE  Known(network', tf', pc') /\ (pc' = "add" => tf' = {}) /\ ToCome
  BY NatPlanHasNet DEF NatSafe
<1>00. NoFailures /\ ~NatNet!Fault /\ ~NatNet!Meddle
  BY <1>0, NatNoFault
<1>000. Known(network, tf, pc) /\ (pc = "add" => tf = {}) /\ (pc \in NatBusy => want # {})
  BY <1>00 DEF NatSafe
<1> USE DEF Known
<1>1. CASE NatNet!Refresh
  BY <1>00, <1>000, <1>1 DEF NatNet!Refresh
<1>2. CASE NatNet!Plan
  BY <1>00, <1>000, <1>2 DEF NatNet!Plan
<1>3. CASE NatNet!Add
  <2>1. tf = {} /\ network = {}
    BY <1>000, <1>3 DEF NatNet!Add
  <2>2. /\ pc' = "addRules" /\ rule' = 1 /\ tf' = tf
        /\ \E w \in want : network' = {[net |-> w.net, rules |-> NatNet!NoRules]}
    BY <1>00, <1>000, <1>3, <2>1 DEF NatNet!Add, NatNet!Command, NatBusy
  <2>3. ToCome
    BY <2>2 DEF NatNet!NoRules
  <2> QED
    BY <2>2, <2>3
<1>4. CASE NatNet!Modify
  <2>0. tf # {} \/ network = {}
    BY <1>000, <1>4 DEF NatNet!Modify
  <2>1. want # {} /\ pc' \in {"deleteRules", "read", "idle"}
    BY <1>000, <1>4 DEF NatNet!Modify, NatNet!Command, NatNet!Failed, NatBusy
  <2>2. tf # {} => tf' # {}
    BY <1>4, <2>1 DEF NatNet!Modify, NatNet!Command, NatNet!Failed
  <2>3. network = {} => network' = {}
    BY <1>4 DEF NatNet!Modify, NatNet!Command
  <2> QED
    BY <2>0, <2>1, <2>2, <2>3
<1>5. CASE NatNet!DeleteRule
  <2>1. /\ tf' = tf /\ pc' \in {"deleteRules", "addRules"}
        /\ network = {} => network' = {}
    BY <1>5 DEF NatNet!DeleteRule, NatNet!Advance
  <2>2. tf # {} \/ network = {}
    BY <1>000, <1>5 DEF NatNet!DeleteRule
  <2> QED
    BY <2>1, <2>2
<1>6. CASE NatNet!AddRule
  <2>1. want # {} /\ rule \in NatNet!Rules /\ pc = "addRules"
    BY <1>000, <1>6 DEF NatNet!AddRule, NatBusy, NatTyped
  <2>2. PICK k \in Nat \ {0} : NatNet!Rules = 1..k
    BY RulesAreNumbered
  <2>3. CASE NatNet!Failed /\ \A n \in network : n.rules[rule] # 0
    <3>1. tf = {} => network = {}
      BY <1>00, <2>1, <2>2, <2>3 DEF NatSafe
    <3>2. network' = network
      BY <1>00, <1>6, <2>3 DEF NatNet!AddRule, NatNet!Failed, NatNet!Advance
    <3> QED
      BY <2>1, <2>3, <3>1, <3>2 DEF NatNet!Failed
  <2>4. CASE NatNet!Advance("read") /\ tf' = tf /\ network' = network
    <3>1. pc' = "addRules" => rule' = rule + 1
      BY <2>4 DEF NatNet!Advance
    <3>2. ToCome
      BY <1>00, <2>1, <2>2, <2>4, <3>1 DEF NatSafe
    <3> QED
      BY <2>1, <2>4, <3>2 DEF NatNet!Advance
  <2>5. ASSUME NEW w \in want, NEW n \in network, NatNet!Advance("read"), tf' = tf,
               network' = {[n EXCEPT !.rules[rule] = w.rules[rule]]}
        PROVE  Known(network', tf', pc') /\ (pc' = "add" => tf' = {}) /\ ToCome
    <3>1. pc' = "addRules" => rule' = rule + 1
      BY <2>5 DEF NatNet!Advance
    <3> DEFINE m == [n EXCEPT !.rules[rule] = w.rules[rule]]
    <3>2. \A r \in NatNet!Rules : r # rule => m.rules[r] = n.rules[r]
      BY DEF NatTyped, NatNet!Networks
    <3>4. network' = {m}
      BY <2>5
    <3> HIDE DEF m
    <3>3. ToCome
      BY <1>00, <2>1, <2>2, <2>5, <3>1, <3>2, <3>4 DEF NatSafe
    <3> QED
      BY <2>1, <2>5, <3>3 DEF NatNet!Advance
  <2> QED
    BY <1>00, <1>6, <2>3, <2>4, <2>5 DEF NatNet!AddRule
<1>7. CASE NatNet!FinalRead
  BY <1>00, <1>000, <1>7 DEF NatNet!FinalRead, NatBusy
<1>8. CASE NatNet!Remove
  BY <1>00, <1>000, <1>8 DEF NatNet!Remove
<1>9. CASE NatNet!EditConfig
  BY <1>00, <1>000, <1>9 DEF NatNet!EditConfig
<1> QED
  BY <1>00, <1>1, <1>2, <1>3, <1>4, <1>5, <1>6, <1>7, <1>8, <1>9 DEF NatNet!Next, NatNet!Apply

LEMMA NatStartsSafe ==
  ASSUME NatNet!Init
  PROVE  NatSafe
BY DEF NatNet!Init, NatSafe, NatNet!CleanPlanMeansSettings, NatBusy

-----------------------------------------------------------------------------
(* The host-only network. A record that has just been read says what there *)
(* is: so an interface whose record has no DHCP server has none when it is *)
(* removed, and no server is ever without its interface.                   *)

HostRecorded(e) ==
  /\ e.id \in DOMAIN ifaces /\ e.v4 = ifaces[e.id].v4 /\ ifaces[e.id].v6 \in {0, e.v6}
  /\ e.dhcp = (servers[e.id] # 0)

HostAsWanted(i, w) ==
  ifaces[i].v4 = w.v4 /\ ifaces[i].v6 \in {0, w.v6} /\ (servers[i] # 0) = w.dhcp

HostSeen ==
  ~stale => /\ pc = "plan" => \A e \in tf : HostRecorded(e)
            /\ pc = "clean" => \A w \in want, e \in tf : HostAsWanted(e.id, w)

HostAlone ==
  events = 0 => /\ ~stale
                /\ pc = "removeIface" => servers[iface] = 0
                /\ \A i \in Ids \ DOMAIN ifaces : servers[i] = 0

HostSafe == HostSeen /\ HostAlone

(* dhcpserver is told of an interface that is there, or of its server. An  *)
(* interface on which a create has given up for want of a range is noted.  *)
LEMMA HostServerSet ==
  ASSUME HostTyped, HostOnly!SetDhcp
  PROVE  /\ pc = "dhcp" /\ UNCHANGED <<want, iface, ifaces>>
         /\ \/ UNCHANGED servers
            \/ /\ iface \in DOMAIN ifaces \/ servers[iface] # 0
               /\ \E r \in 0..2 : servers' = [servers EXCEPT ![iface] = r]
         /\ refused \subseteq refused'
         /\ \/ pc' = "read" /\ UNCHANGED <<tf, edits, events, faults>>
            \/ HostOnly!Failed /\ HostOnly!Fault /\ UNCHANGED servers
            \/ /\ HostOnly!Failed /\ UNCHANGED <<servers, edits, events, faults>>
               /\ tf = {} => iface \notin DOMAIN ifaces \/ servers[iface] # 0 \/ iface \in refused'
<1> DEFINE Goal == /\ want' = want /\ ifaces' = ifaces
                   /\ \/ UNCHANGED servers
                      \/ /\ iface \in DOMAIN ifaces \/ servers[iface] # 0
                         /\ \E r \in 0..2 : servers' = [servers EXCEPT ![iface] = r]
                   /\ refused \subseteq refused'
                   /\ \/ pc' = "read" /\ UNCHANGED <<tf, edits, events, faults>>
                      \/ HostOnly!Failed /\ HostOnly!Fault /\ UNCHANGED servers
                      \/ /\ HostOnly!Failed /\ UNCHANGED <<servers, edits, events, faults>>
                         /\ tf = {} => iface \notin DOMAIN ifaces \/ servers[iface] # 0 \/ iface \in refused'
           set  == HostOnly!Changed("dhcp") \/ HostOnly!Changed("range")
<1>0. /\ pc = "dhcp" /\ iface' = iface /\ HostOnly!Wanted.range \in 0..2 /\ 0 \in 0..2
      /\ HostOnly!Wanted.dhcp \in BOOLEAN
  <2>1. pc = "dhcp" /\ iface' = iface /\ want # {}
    BY DEF HostOnly!SetDhcp, HostTyped, HostBusy
  <2> QED
    BY <2>1, HostWanted
<1>1. ASSUME NEW issued, NEW can, NEW r \in 0..2, can => iface \in DOMAIN ifaces \/ servers[iface] # 0,
             tf = {} /\ ~can => iface \notin DOMAIN ifaces \/ servers[iface] # 0,
             HostOnly!Command(issued, can, HostOnly!SetServer(r), "read")
      PROVE  Goal
  BY <1>1 DEF HostOnly!Command, HostOnly!SetServer, HostOnly!virtualBox, HostOnly!counters
<1>2. ASSUME HostOnly!Command(FALSE, TRUE, UNCHANGED HostOnly!virtualBox, "read")
      PROVE  Goal
  BY <1>2 DEF HostOnly!Command, HostOnly!virtualBox, HostOnly!counters
<1>3. ASSUME set /\ HostOnly!Rangeless
      PROVE  Goal
  <2>1. /\ HostOnly!Failed /\ UNCHANGED <<want, ifaces, servers, edits, events, faults>>
        /\ refused' = IF tf = {} THEN refused \cup {iface} ELSE refused
    BY <1>3 DEF HostOnly!SetDhcp, HostOnly!counters
  <2> QED
    BY <2>1
<1>4. Goal
  <2> HIDE DEF Goal
  <2>0. /\ HostOnly!There <=> iface \in DOMAIN ifaces
        /\ HostOnly!Serves <=> servers[iface] # 0
        /\ HostOnly!Had => tf # {}
    BY DEF HostOnly!There, HostOnly!Mine, HostOnly!Serves, HostOnly!Had
  <2>1. CASE set /\ ~HostOnly!Rangeless /\ ~HostOnly!Wanted.dhcp /\ HostOnly!Had
    BY <1>0, <1>1, <2>0, <2>1 DEF HostOnly!SetDhcp
  <2>2. CASE set /\ ~HostOnly!Rangeless /\ HostOnly!Wanted.dhcp /\ HostOnly!Had
    BY <1>0, <1>1, <2>0, <2>2 DEF HostOnly!SetDhcp
  <2>3. CASE set /\ ~HostOnly!Rangeless /\ HostOnly!Wanted.dhcp /\ ~HostOnly!Had
    BY <1>0, <1>1, <2>0, <2>3 DEF HostOnly!SetDhcp
  <2>4. CASE ~set
    BY <1>2, <2>4 DEF HostOnly!SetDhcp
  <2>5. CASE ~HostOnly!Wanted.dhcp /\ ~HostOnly!Had
    BY <1>2, <2>5 DEF HostOnly!SetDhcp, HostOnly!Rangeless
  <2> HIDE DEF set
  <2> QED
    BY <1>3, <2>1, <2>2, <2>3, <2>4, <2>5
<1> QED
  BY <1>0, <1>4

LEMMA HostGrows ==
  ASSUME HostTyped, HostOnly!Next
  PROVE  CountersGrow
<1> USE DEF HostOnly!counters, CountersGrow
<1>1. edits \in Nat /\ events \in Nat /\ faults \in Nat
  BY ConstantsAssumption DEF HostTyped, Counted
<1>2. UNCHANGED <<edits, events, faults>> \/ HostOnly!Fault => CountersGrow
  BY <1>1 DEF HostOnly!Fault
<1>3. CASE HostOnly!CreateIface \/ HostOnly!SetIpv4 \/ HostOnly!SetIpv6
  BY <1>2, <1>3 DEF HostOnly!CreateIface, HostOnly!SetIpv4, HostOnly!SetIpv6, HostOnly!Command
<1>4. CASE HostOnly!SetDhcp
  BY <1>2, <1>4, HostServerSet
<1>5. CASE HostOnly!Refresh \/ HostOnly!Plan \/ HostOnly!FinalRead
  BY <1>2, <1>5 DEF HostOnly!Refresh, HostOnly!Plan, HostOnly!FinalRead
<1>6. CASE HostOnly!RemoveServer \/ HostOnly!RemoveIface
  BY <1>2, <1>6 DEF HostOnly!RemoveServer, HostOnly!RemoveIface
<1>7. CASE HostOnly!EditConfig \/ HostOnly!Meddle
  BY <1>1, <1>7 DEF HostOnly!EditConfig, HostOnly!Meddle
<1> QED
  BY <1>3, <1>4, <1>5, <1>6, <1>7 DEF HostOnly!Next, HostOnly!Apply

(* What a read has recorded holds until the plan compares it.              *)
LEMMA HostKeepsSeen ==
  ASSUME HostTyped, HostSeen, HostOnly!Next
  PROVE  HostSeen'
<1> USE DEF HostOnly!counters, HostOnly!virtualBox, HostOnly!Mine, HostSeen
<1>1. CASE HostOnly!Refresh
  <2>1. UNCHANGED <<ifaces, servers>>
    BY <1>1 DEF HostOnly!Refresh
  <2>2. CASE tf' = {HostOnly!Read(e) : e \in {e \in tf : e.id \in DOMAIN ifaces}} /\ pc' = "plan"
    <3>1. \A e \in tf : e.id \in DOMAIN ifaces =>
            /\ HostOnly!Read(e).id = e.id /\ HostOnly!Read(e).v4 = ifaces[e.id].v4
            /\ ifaces[e.id].v6 \in {0, HostOnly!Read(e).v6}
            /\ HostOnly!Read(e).dhcp = (servers[e.id] # 0)
      BY HostRead DEF HostTyped
    <3>2. \A e \in tf' : HostRecorded(e)'
      BY <2>1, <2>2, <3>1 DEF HostRecorded
    <3> QED
      BY <2>2, <3>2
  <2>3. CASE pc' = "idle"
    BY <2>3
  <2> QED
    BY <1>1, <2>2, <2>3 DEF HostOnly!Refresh
<1>2. CASE HostOnly!Plan /\ stale' = stale
  <2>1. UNCHANGED <<want, tf, ifaces, servers, stale>> /\ pc = "plan" /\ pc' # "plan"
    BY <1>2 DEF HostOnly!Plan
  <2>2. ASSUME pc' = "clean", ~stale, NEW w \in want, NEW e \in tf
        PROVE  HostAsWanted(e.id, w)
    <3>1. e = HostOnly!Entry /\ w = HostOnly!Wanted
      BY HostEntry, HostWanted DEF HostTyped, AtMostOne
    <3>2. HostOnly!Entry = HostOnly!Planned(HostOnly!Entry.id)
      BY <1>2, <2>2 DEF HostOnly!Plan
    <3>3. e.v4 = w.v4 /\ e.v6 = w.v6 /\ e.dhcp = w.dhcp
      BY <3>1, <3>2 DEF HostOnly!Planned
    <3> QED
      BY <2>1, <2>2, <3>3 DEF HostRecorded, HostAsWanted
  <2> QED
    BY <2>1, <2>2 DEF HostAsWanted
<1>3. CASE HostOnly!Meddle
  BY <1>3 DEF HostOnly!Meddle
<1>4. CASE pc' \notin {"plan", "clean"}
  BY <1>4
<1>5. CASE HostOnly!CreateIface
  BY <1>4, <1>5 DEF HostOnly!CreateIface, HostOnly!Command, HostOnly!Failed
<1>6. CASE HostOnly!SetIpv4 \/ HostOnly!SetIpv6
  BY <1>4, <1>6 DEF HostOnly!SetIpv4, HostOnly!SetIpv6, HostOnly!Command, HostOnly!Failed
<1>7. CASE HostOnly!SetDhcp
  BY <1>4, <1>7, HostServerSet DEF HostOnly!Failed
<1>8. CASE HostOnly!FinalRead \/ HostOnly!RemoveServer \/ HostOnly!RemoveIface \/ HostOnly!EditConfig
  BY <1>4, <1>8 DEF HostOnly!FinalRead, HostOnly!RemoveServer, HostOnly!RemoveIface, HostOnly!EditConfig
<1> QED
  BY <1>1, <1>2, <1>3, <1>5, <1>6, <1>7, <1>8 DEF HostOnly!Next, HostOnly!Apply

LEMMA HostKeepsAlone ==
  ASSUME HostTyped, HostSafe, HostOnly!Next
  PROVE  HostAlone'
<1> USE DEF HostOnly!counters, HostOnly!virtualBox, HostOnly!Mine, HostOnly!There, HostOnly!Serves
<1> DEFINE Served == \A i \in Ids \ DOMAIN ifaces : servers[i] = 0
<1> SUFFICES ASSUME events' = 0
             PROVE  ~stale' /\ (pc' = "removeIface" => servers'[iface'] = 0) /\ Served'
  BY DEF HostAlone
<1>0. events = 0 /\ ~HostOnly!Meddle
  BY HostGrows, ConstantsAssumption DEF CountersGrow, HostOnly!Meddle, HostTyped, Counted
<1>00. Served /\ ~stale
  BY <1>0 DEF HostSafe, HostAlone
<1>s. ~stale'
  BY <1>0, <1>00 DEF HostOnly!Next, HostOnly!Apply, HostOnly!Refresh, HostOnly!EditConfig
<1>000. UNCHANGED <<ifaces, servers>> => Served'
  BY <1>00
<1>1. CASE HostOnly!Refresh
  BY <1>s, <1>000, <1>1 DEF HostOnly!Refresh
<1>2. CASE HostOnly!Plan
  <2>1. UNCHANGED <<tf, ifaces, servers>> /\ pc = "plan"
    BY <1>2 DEF HostOnly!Plan
  <2>2. \A e \in tf : HostRecorded(e)
    BY <1>00, <2>1 DEF HostSafe, HostSeen
  <2>4. ASSUME pc' = "removeIface" PROVE servers[iface'] = 0
    <3>1. tf # {} /\ iface' = HostOnly!Entry.id /\ ~HostOnly!Entry.dhcp
      BY <1>2, <2>4 DEF HostOnly!Plan
    <3>2. HostRecorded(HostOnly!Entry)
      BY <2>2, <3>1, HostEntry
    <3> QED
      BY <3>1, <3>2 DEF HostRecorded
  <2> QED
    BY <1>s, <1>000, <2>1, <2>4
<1>3. CASE HostOnly!CreateIface
  <2>1. servers' = servers /\ DOMAIN ifaces \subseteq DOMAIN ifaces'
    BY <1>3 DEF HostOnly!CreateIface, HostOnly!Command, HostOnly!AddIface
  <2>2. pc' \in {"ipv4", "idle"}
    BY <1>3 DEF HostOnly!CreateIface, HostOnly!Command, HostOnly!Failed
  <2> QED
    BY <1>s, <1>00, <2>1, <2>2
<1>4. CASE HostOnly!SetIpv4 \/ HostOnly!SetIpv6
  <2>1. servers' = servers /\ DOMAIN ifaces' = DOMAIN ifaces
    BY <1>4 DEF HostOnly!SetIpv4, HostOnly!SetIpv6, HostOnly!Command
  <2>2. pc' \in {"ipv6", "dhcp", "idle"}
    BY <1>4 DEF HostOnly!SetIpv4, HostOnly!SetIpv6, HostOnly!Command, HostOnly!Failed
  <2> QED
    BY <1>s, <1>00, <2>1, <2>2
<1>5. CASE HostOnly!SetDhcp
  <2>1. pc' \in {"read", "idle"} /\ ifaces' = ifaces
    BY <1>5, HostServerSet DEF HostOnly!Failed
  <2>2. Served'
    <3>1. CASE servers' = servers
      BY <1>00, <2>1, <3>1
    <3>2. ASSUME NEW r \in 0..2, iface \in DOMAIN ifaces \/ servers[iface] # 0,
                 servers' = [servers EXCEPT ![iface] = r]
          PROVE  Served'
      <4>1. iface \in DOMAIN ifaces
        BY <1>00, <3>2 DEF HostTyped
      <4> QED
        BY <1>00, <2>1, <3>2, <4>1 DEF HostTyped
    <3> QED
      BY <1>5, <3>1, <3>2, HostServerSet
  <2> QED
    BY <1>s, <2>1, <2>2
<1>6. CASE HostOnly!FinalRead
  BY <1>s, <1>000, <1>6 DEF HostOnly!FinalRead
<1>7. CASE HostOnly!RemoveServer
  <2>1. ifaces' = ifaces /\ iface' = iface
    BY <1>7 DEF HostOnly!RemoveServer, HostOnly!SetServer
  <2>2. \/ servers' = [servers EXCEPT ![iface] = 0] /\ pc' = "removeIface"
        \/ servers' = servers /\ pc' = "idle"
    BY <1>7 DEF HostOnly!RemoveServer, HostOnly!SetServer
  <2> QED
    BY <1>s, <1>00, <2>1, <2>2 DEF HostTyped
<1>8. CASE HostOnly!RemoveIface
  <2>1. /\ pc' = "idle" /\ servers' = servers /\ servers[iface] = 0
        /\ DOMAIN ifaces \subseteq DOMAIN ifaces' \cup {iface}
    BY <1>0, <1>8 DEF HostOnly!RemoveIface, HostSafe, HostAlone
  <2> QED
    BY <1>s, <1>00, <2>1
<1>9. CASE HostOnly!EditConfig
  BY <1>s, <1>000, <1>9 DEF HostOnly!EditConfig
<1> QED
  BY <1>0, <1>1, <1>2, <1>3, <1>4, <1>5, <1>6, <1>7, <1>8, <1>9 DEF HostOnly!Next, HostOnly!Apply

LEMMA HostStartsSafe ==
  ASSUME HostOnly!Init
  PROVE  HostSafe
BY DEF HostOnly!Init, HostSafe, HostSeen, HostAlone

(* Each interface that Terraform will not know of when it comes to rest,   *)
(* but for those that creates have left for want of a range, and each      *)
(* server that has lost its interface or is going to lose it, is paid for  *)
(* by a failure or by a deed of somebody else: the server because the next *)
(* interface of that name cannot have one, and its create fails.           *)

HostBuilding == pc \in {"ipv4", "ipv6", "dhcp", "read"}
HostWorking  == HostBuilding \/ pc \in {"removeServer", "removeIface"}

Owes(i) == \/ /\ i \in DOMAIN ifaces /\ i \notin HostOnly!Known \cup refused
              /\ ~(HostBuilding /\ i = iface)
           \/ /\ servers[i] # 0
              /\ \/ i \notin DOMAIN ifaces
                 \/ pc = "removeIface" /\ i = iface
                 \/ pc = "plan" /\ \E e \in tf : e.id = i /\ ~e.dhcp
                 \/ pc \in {"ipv4", "ipv6", "dhcp"} /\ tf = {} /\ i = iface

Debt == {i \in Ids : Owes(i)}

HostPaid == /\ pc = "create" => tf = {}
            /\ HostWorking => \A e \in tf : e.id = iface
            /\ Cardinality(Debt) <= faults + events

LEMMA HostRecordKept ==
  ASSUME HostTyped, want # {}, HostOnly!Failed
  PROVE  pc' = "idle" /\ HostOnly!Known' = HostOnly!Known
<1>1. CASE tf = {}
  BY <1>1 DEF HostOnly!Failed, HostOnly!Known
<1>2. CASE tf # {}
  <2>1. tf = {HostOnly!Entry} /\ tf' = {HostOnly!Planned(HostOnly!Entry.id)} /\ pc' = "idle"
    BY <1>2, HostEntry DEF HostOnly!Failed
  <2>2. HostOnly!Planned(HostOnly!Entry.id).id = HostOnly!Entry.id
    BY DEF HostOnly!Planned
  <2> QED
    BY <2>1, <2>2 DEF HostOnly!Known
<1> QED
  BY <1>1, <1>2

(* Between the steps, the interface at work is the recorded one.           *)
LEMMA HostKeepsIface ==
  ASSUME HostTyped, HostPaid, HostOnly!Next
  PROVE  /\ (pc = "create" => tf = {})'
         /\ (HostWorking => \A e \in tf : e.id = iface)'
<1> USE DEF HostOnly!counters, HostOnly!virtualBox, HostOnly!Mine, HostOnly!There, HostOnly!Serves,
            HostWorking, HostBuilding
<1>0. (pc = "create" => tf = {}) /\ (HostWorking => \A e \in tf : e.id = iface)
  BY DEF HostPaid
<1>1. CASE HostOnly!Plan
  <2>1. tf # {} => tf = {HostOnly!Entry}
    BY HostEntry
  <2> QED
    BY <1>1, <2>1 DEF HostOnly!Plan
<1>2. CASE HostOnly!CreateIface
  BY <1>0, <1>2 DEF HostOnly!CreateIface, HostOnly!Command, HostOnly!Failed
<1>3. CASE HostOnly!SetIpv4 \/ HostOnly!SetIpv6
  BY <1>0, <1>3 DEF HostOnly!SetIpv4, HostOnly!SetIpv6, HostOnly!Command, HostOnly!Failed
<1>4. CASE HostOnly!SetDhcp
  BY <1>0, <1>4, HostServerSet DEF HostOnly!Failed
<1>5. CASE HostOnly!Refresh \/ HostOnly!FinalRead \/ HostOnly!EditConfig
  BY <1>5 DEF HostOnly!Refresh, HostOnly!FinalRead, HostOnly!EditConfig
<1>6. CASE HostOnly!RemoveServer \/ HostOnly!RemoveIface
  BY <1>0, <1>6 DEF HostOnly!RemoveServer, HostOnly!RemoveIface
<1>7. CASE HostOnly!Meddle
  BY <1>0, <1>7 DEF HostOnly!Meddle
<1> QED
  BY <1>1, <1>2, <1>3, <1>4, <1>5, <1>6, <1>7 DEF HostOnly!Next, HostOnly!Apply

(* A step that costs nothing adds nothing to the debt, any other at most   *)
(* one interface.                                                          *)
LEMMA HostDebtStep ==
  ASSUME HostTyped, HostPaid, HostOnly!Next
  PROVE  \/ \A i \in Ids : Owes(i)' => Owes(i)
         \/ /\ faults' + events' = faults + events + 1
            /\ \E x \in Ids : \A i \in Ids : Owes(i)' => Owes(i) \/ i = x
<1> USE DEF HostOnly!counters, HostOnly!virtualBox, HostOnly!Mine, HostOnly!There, HostOnly!Serves,
            HostWorking, HostBuilding, Owes
<1> DEFINE Free  == \A i \in Ids : Owes(i)' => Owes(i)
           One   == \E x \in Ids : \A i \in Ids : Owes(i)' => Owes(i) \/ i = x
           Grows == faults' + events' = faults + events + 1
<1>0. (pc = "create" => tf = {}) /\ (HostWorking => \A e \in tf : e.id = iface) /\ iface \in Ids
  BY DEF HostPaid, HostTyped
<1>00. HostOnly!Fault => Grows
  BY ConstantsAssumption DEF HostOnly!Fault, HostTyped, Counted
<1>1. CASE HostOnly!Refresh
  <2>1. UNCHANGED <<ifaces, servers, refused>> /\ pc \in {"idle", "clean"}
    BY <1>1 DEF HostOnly!Refresh
  <2>2. CASE tf' = {HostOnly!Read(e) : e \in {e \in tf : e.id \in DOMAIN ifaces}} /\ pc' = "plan"
    <3>1. \A e \in tf : e.id \in DOMAIN ifaces =>
            HostOnly!Read(e).id = e.id /\ HostOnly!Read(e).dhcp = (servers[e.id] # 0)
      BY HostRead DEF HostTyped
    <3>2. \A e \in tf' : e.dhcp = (servers[e.id] # 0)
      BY <2>2, <3>1
    <3>3. \A i \in DOMAIN ifaces : i \in HostOnly!Known => i \in HostOnly!Known'
      BY <2>2, <3>1 DEF HostOnly!Known
    <3> QED
      BY <2>1, <2>2, <3>2, <3>3
  <2>3. CASE tf' = tf /\ pc' = "idle"
    BY <2>1, <2>3 DEF HostOnly!Known
  <2> QED
    BY <1>1, <2>2, <2>3 DEF HostOnly!Refresh
<1>2. CASE HostOnly!Plan
  <2>1. UNCHANGED <<tf, ifaces, servers, refused>> /\ pc = "plan" /\ HostOnly!Known' = HostOnly!Known
    BY <1>2 DEF HostOnly!Plan, HostOnly!Known
  <2>2. CASE tf = {}
    BY <1>2, <2>1, <2>2 DEF HostOnly!Plan
  <2>3. CASE tf # {}
    <3>1. HostOnly!Entry \in tf /\ HostOnly!Entry.id \in HostOnly!Known
      BY <2>3, HostEntry DEF HostOnly!Known
    <3>2. /\ iface' = HostOnly!Entry.id
          /\ pc' = "removeIface" => ~HostOnly!Entry.dhcp
          /\ pc' \in {"removeServer", "removeIface", "clean", "ipv4"}
      BY <1>2, <2>3 DEF HostOnly!Plan
    <3> QED
      BY <2>1, <2>3, <3>1, <3>2
  <2> QED
    BY <2>2, <2>3
<1>3. CASE HostOnly!CreateIface
  <2>1. tf = {} /\ tf' = {} /\ HostOnly!Known = {} /\ HostOnly!Known' = {} /\ servers' = servers
    <3>1. tf = {} /\ tf' = {} /\ servers' = servers
      BY <1>0, <1>3 DEF HostOnly!CreateIface, HostOnly!Command, HostOnly!Failed, HostOnly!AddIface
    <3> QED
      BY <3>1 DEF HostOnly!Known
  <2>2. \/ pc' = "idle" /\ ifaces' = ifaces /\ refused' = refused
        \/ /\ pc' = "ipv4" /\ iface' \notin DOMAIN ifaces /\ DOMAIN ifaces' = DOMAIN ifaces \cup {iface'}
           /\ refused' = refused \ {iface'}
    BY <1>3 DEF HostOnly!CreateIface, HostOnly!Command, HostOnly!Failed, HostOnly!AddIface
  <2>3. pc = "create"
    BY <1>3 DEF HostOnly!CreateIface
  <2> QED
    BY <2>1, <2>2, <2>3
<1>4. CASE HostOnly!SetIpv4 \/ HostOnly!SetIpv6
  <2>0. want # {} /\ pc \in {"ipv4", "ipv6"}
    BY <1>4 DEF HostOnly!SetIpv4, HostOnly!SetIpv6, HostTyped, HostBusy
  <2>1. /\ servers' = servers /\ DOMAIN ifaces' = DOMAIN ifaces /\ iface' = iface
        /\ refused' = refused
    BY <1>4 DEF HostOnly!SetIpv4, HostOnly!SetIpv6, HostOnly!Command
  <2>2. \/ pc' \in {"ipv6", "dhcp"} /\ tf' = tf
        \/ HostOnly!Failed /\ iface \notin DOMAIN ifaces
        \/ HostOnly!Failed /\ HostOnly!Fault
    BY <1>4 DEF HostOnly!SetIpv4, HostOnly!SetIpv6, HostOnly!Command
  <2>3. CASE pc' \in {"ipv6", "dhcp"} /\ tf' = tf
    BY <2>0, <2>1, <2>3 DEF HostOnly!Known
  <2>4. CASE HostOnly!Failed
    <3>1. pc' = "idle" /\ HostOnly!Known' = HostOnly!Known
      BY <2>0, <2>4, HostRecordKept
    <3>2. \A i \in Ids : Owes(i)' => Owes(i) \/ (i = iface /\ iface \in DOMAIN ifaces)
      BY <2>0, <2>1, <3>1
    <3> QED
      BY <1>0, <1>00, <2>2, <2>3, <3>2
  <2> QED
    BY <2>2, <2>3, <2>4
<1>5. CASE HostOnly!SetDhcp
  <2>0. want # {} /\ pc = "dhcp" /\ iface' = iface /\ ifaces' = ifaces /\ refused \subseteq refused'
    BY <1>5, HostServerSet DEF HostTyped, HostBusy
  <2>1. CASE pc' = "read" /\ UNCHANGED <<tf, edits, events, faults>>
    <3>1. CASE servers' = servers
      BY <2>0, <2>1, <3>1 DEF HostOnly!Known
    <3>2. ASSUME NEW r \in 0..2, iface \in DOMAIN ifaces \/ servers[iface] # 0,
                 servers' = [servers EXCEPT ![iface] = r]
          PROVE  Free
      BY <2>0, <2>1, <3>2 DEF HostOnly!Known, HostTyped
    <3> QED
      BY <1>5, <3>1, <3>2, HostServerSet
  <2>2. CASE HostOnly!Failed /\ servers' = servers
    <3>1. pc' = "idle" /\ HostOnly!Known' = HostOnly!Known
      BY <2>0, <2>2, HostRecordKept
    <3>2. \A i \in Ids : Owes(i)' => Owes(i) \/ i = iface
      BY <2>0, <2>2, <3>1
    <3>3. CASE HostOnly!Fault
      BY <1>0, <1>00, <3>2, <3>3
    <3>4. CASE tf = {} => iface \notin DOMAIN ifaces \/ servers[iface] # 0 \/ iface \in refused'
      <4>1. tf # {} => iface \in HostOnly!Known
        BY <1>0, <2>0 DEF HostOnly!Known
      <4> QED
        BY <2>0, <2>2, <3>1, <3>4, <4>1
    <3> QED
      BY <1>5, <2>0, <3>1, <3>3, <3>4, HostServerSet
  <2> QED
    BY <1>5, <2>1, <2>2, HostServerSet
<1>6. CASE HostOnly!FinalRead
  <2>0. /\ want # {} /\ pc = "read" /\ pc' = "idle" /\ UNCHANGED <<iface, ifaces, servers, refused>>
        /\ HostOnly!Known \subseteq {iface}
    BY <1>0, <1>6 DEF HostOnly!FinalRead, HostTyped, HostBusy, HostOnly!Known
  <2>1. HostOnly!Planned(iface).id = iface /\ HostOnly!Planned(iface) \in HostOnly!Entries
    BY <1>0, <2>0, HostPlanned DEF HostOnly!Planned
  <2>2. iface \in DOMAIN ifaces => iface \in HostOnly!Known'
    <3>1. CASE iface \in DOMAIN ifaces /\ tf' = {HostOnly!Read(HostOnly!Planned(iface))}
      BY <2>1, <3>1, HostRead DEF HostOnly!Known
    <3>2. CASE tf' = {[HostOnly!Planned(iface) EXCEPT !.tainted = (tf = {})]}
      <4>1. [HostOnly!Planned(iface) EXCEPT !.tainted = (tf = {})].id = iface
        BY <2>1 DEF HostOnly!Entries
      <4> QED
        BY <3>2, <4>1 DEF HostOnly!Known
    <3> QED
      BY <1>6, <3>1, <3>2 DEF HostOnly!FinalRead
  <2> QED
    BY <2>0, <2>2
<1>7. CASE HostOnly!RemoveServer
  <2>1. pc = "removeServer" /\ UNCHANGED <<tf, iface, ifaces, refused>> /\ HostOnly!Known' = HostOnly!Known
    BY <1>7 DEF HostOnly!RemoveServer, HostOnly!SetServer, HostOnly!Known
  <2>2. \/ servers' = [servers EXCEPT ![iface] = 0] /\ pc' = "removeIface"
        \/ servers' = servers /\ pc' = "idle"
    BY <1>7 DEF HostOnly!RemoveServer, HostOnly!SetServer
  <2> QED
    BY <2>1, <2>2 DEF HostTyped
<1>8. CASE HostOnly!RemoveIface
  <2>1. pc = "removeIface" /\ pc' = "idle" /\ UNCHANGED <<iface, servers, refused>>
    BY <1>8 DEF HostOnly!RemoveIface
  <2>2. \/ DOMAIN ifaces' = DOMAIN ifaces \ {iface} /\ tf' = {}
        \/ ifaces' = ifaces /\ tf' = tf
    BY <1>8 DEF HostOnly!RemoveIface
  <2>3. HostOnly!Known \subseteq {iface}
    BY <1>0, <2>1 DEF HostOnly!Known
  <2> QED
    BY <2>1, <2>2, <2>3 DEF HostOnly!Known
<1>9. CASE HostOnly!EditConfig
  <2>1. /\ pc \in {"idle", "clean"} /\ pc' = "idle" /\ UNCHANGED <<ifaces, servers, refused>>
        /\ HostOnly!Known' = HostOnly!Known
    BY <1>9 DEF HostOnly!EditConfig, HostOnly!Known
  <2> QED
    BY <2>1
<1>10. CASE HostOnly!Meddle
  <2>1. Grows
    BY <1>10, ConstantsAssumption DEF HostOnly!Meddle, HostTyped, Counted
  <2>2. UNCHANGED <<tf, pc, iface, refused>> /\ HostOnly!Known' = HostOnly!Known
    BY <1>10 DEF HostOnly!Meddle, HostOnly!Known
  <2>3. PICK x \in DOMAIN ifaces :
          \/ ifaces' = [ifaces EXCEPT ![x].v4 = 0] /\ UNCHANGED servers
          \/ servers' \in {[servers EXCEPT ![x] = r] : r \in {0, 1}} /\ UNCHANGED ifaces
          \/ ifaces' = [j \in DOMAIN ifaces \ {x} |-> ifaces[j]] /\ servers' = [servers EXCEPT ![x] = 0]
    BY <1>10 DEF HostOnly!Meddle
  <2>4. x \in Ids
    BY DEF HostTyped
  <2>5. \A i \in Ids : i # x => /\ servers'[i] = servers[i]
                                /\ i \in DOMAIN ifaces' <=> i \in DOMAIN ifaces
    BY <2>3, <2>4 DEF HostTyped
  <2>6. \A i \in Ids : Owes(i)' => Owes(i) \/ i = x
    BY <2>2, <2>5
  <2> QED
    BY <2>1, <2>4, <2>6
<1> QED
  BY <1>1, <1>2, <1>3, <1>4, <1>5, <1>6, <1>7, <1>8, <1>9, <1>10 DEF HostOnly!Next, HostOnly!Apply

LEMMA HostKeepsPaid ==
  ASSUME HostTyped, HostPaid, HostOnly!Next
  PROVE  HostPaid'
<1>1. IsFiniteSet(Debt) /\ Debt' = {i \in Ids : Owes(i)'}
  <2>1. IsFiniteSet(Ids) /\ Debt \subseteq Ids
    BY ConstantsAssumption DEF Debt
  <2> QED
    BY <2>1, FS_Subset DEF Debt
<1>2. /\ Cardinality(Debt) \in Nat /\ faults + events \in Nat /\ faults' + events' \in Nat
      /\ faults + events <= faults' + events'
  <2>1. CountersGrow /\ faults \in Nat /\ events \in Nat
    BY HostGrows, ConstantsAssumption DEF HostTyped, Counted
  <2>2. Cardinality(Debt) \in Nat
    BY <1>1, FS_CardinalityType
  <2> QED
    BY <2>1, <2>2, FailuresAdd
<1>3. CASE \A i \in Ids : Owes(i)' => Owes(i)
  <2>1. Debt' \subseteq Debt
    BY <1>1, <1>3 DEF Debt
  <2>2. Cardinality(Debt') <= Cardinality(Debt) /\ Cardinality(Debt') \in Nat
    BY <1>1, <2>1, FS_Subset, FS_CardinalityType
  <2> QED
    BY <1>2, <2>2, HostKeepsIface DEF HostPaid
<1>4. ASSUME NEW x \in Ids, \A i \in Ids : Owes(i)' => Owes(i) \/ i = x,
             faults' + events' = faults + events + 1
      PROVE  HostPaid'
  <2>1. Debt' \subseteq Debt \cup {x}
    BY <1>1, <1>4 DEF Debt
  <2>2. IsFiniteSet(Debt \cup {x}) /\ Cardinality(Debt \cup {x}) <= Cardinality(Debt) + 1
    <3>1. /\ IsFiniteSet(Debt \cup {x})
          /\ Cardinality(Debt \cup {x}) = IF x \in Debt THEN Cardinality(Debt) ELSE Cardinality(Debt) + 1
      BY <1>1, FS_AddElement
    <3> QED
      BY <1>2, <3>1
  <2>3. Cardinality(Debt') <= Cardinality(Debt \cup {x}) /\ Cardinality(Debt') \in Nat
        /\ Cardinality(Debt \cup {x}) \in Nat
    BY <2>1, <2>2, FS_Subset, FS_CardinalityType
  <2> QED
    BY <1>2, <1>4, <2>2, <2>3, HostKeepsIface DEF HostPaid
<1> QED
  BY <1>3, <1>4, HostDebtStep

LEMMA HostStartsPaid ==
  ASSUME HostOnly!Init
  PROVE  HostPaid
<1>1. Debt = {}
  BY DEF HostOnly!Init, Debt, Owes, HostBuilding
<1> QED
  BY <1>1, FS_EmptySet DEF HostOnly!Init, HostPaid, HostWorking, HostBuilding

LEMMA HostPaidMeansCounted ==
  ASSUME HostTyped, HostPaid
  PROVE  HostOnly!LeaksComeFromFailures
<1> SUFFICES ASSUME pc \in {"idle", "clean"}
             PROVE  HostOnly!Cardinality(DOMAIN ifaces \ (HostOnly!Known \cup refused)) <= faults + events
  BY DEF HostOnly!LeaksComeFromFailures, HostOnly!Mine
<1>1. DOMAIN ifaces \ (HostOnly!Known \cup refused) \subseteq Debt
  BY DEF Debt, Owes, HostBuilding, HostTyped
<1>2. IsFiniteSet(Debt)
  <2>1. IsFiniteSet(Ids) /\ Debt \subseteq Ids
    BY ConstantsAssumption DEF Debt
  <2> QED
    BY <2>1, FS_Subset
<1>3. Cardinality(DOMAIN ifaces \ (HostOnly!Known \cup refused)) <= Cardinality(Debt)
      /\ Cardinality(DOMAIN ifaces \ (HostOnly!Known \cup refused)) \in Nat /\ Cardinality(Debt) \in Nat
  BY <1>1, <1>2, FS_Subset, FS_CardinalityType
<1>4. \A S : HostOnly!Cardinality(S) = Cardinality(S)
  BY DEF HostOnly!Cardinality, Cardinality
<1>5. faults + events \in Nat
  BY ConstantsAssumption DEF HostTyped, Counted
<1> QED
  BY <1>3, <1>4, <1>5 DEF HostPaid

(* As long as nothing fails and nobody else acts, the DHCP server of the   *)
(* recorded interface has the recorded range, although it is never read:   *)
(* an update that is refused for want of a range records that there is     *)
(* none.                                                                   *)
HostChanging == {"ipv4", "ipv6", "dhcp"}

HostRanged(i, r) == r # 0 /\ servers[i] # 0 => servers[i] = r

HostRanges ==
  NoFailures =>
    /\ pc # "read" => \A e \in tf : HostRanged(e.id, e.range)
    /\ pc = "read" => HostRanged(iface, HostOnly!Wanted.range)
    /\ pc \in HostChanging => \A e \in tf : e.dhcp = (servers[e.id] # 0)
    /\ pc \in HostChanging /\ tf = {} => servers[iface] = 0
    /\ pc = "clean" /\ want # {} /\ ~HostOnly!Rangeless => \A e \in tf : servers[e.id] = HostOnly!Wanted.range

LEMMA HostNoFault ==
  ASSUME HostTyped, HostOnly!Next, NoFailures'
  PROVE  NoFailures /\ ~HostOnly!Fault /\ ~HostOnly!Meddle
<1>1. events \in Nat /\ faults \in Nat
  BY ConstantsAssumption DEF HostTyped, Counted
<1>2. faults = 0 /\ events = 0 /\ faults' = 0 /\ events' = 0
  BY <1>1, HostGrows, NothingFailed
<1> QED
  BY <1>2 DEF NoFailures, HostOnly!Fault, HostOnly!Meddle

(* What a refused or failed update has recorded has the wanted range.      *)
LEMMA HostFailedRange ==
  ASSUME HostTyped, HostOnly!Failed, want # {}, \A e \in tf : e.id = iface
  PROVE  pc' = "idle" /\ \A e \in tf' : e.id = iface /\ e.range = HostOnly!Wanted.range
<1>1. CASE tf = {}
  BY <1>1 DEF HostOnly!Failed
<1>2. CASE tf # {}
  <2>1. tf' = {HostOnly!Planned(HostOnly!Entry.id)} /\ pc' = "idle" /\ HostOnly!Entry.id = iface
    BY <1>2, HostEntry DEF HostOnly!Failed
  <2>2. HostOnly!Planned(iface).id = iface /\ HostOnly!Planned(iface).range = HostOnly!Wanted.range
    BY DEF HostOnly!Planned
  <2> QED
    BY <2>1, <2>2
<1> QED
  BY <1>1, <1>2

(* dhcpserver brings the range of a server to the one that is wanted.      *)
LEMMA HostDhcpRange ==
  ASSUME HostTyped, HostSafe, HostPaid, HostRanges, HostOnly!SetDhcp, NoFailures, ~HostOnly!Fault
  PROVE  /\ HostRanged(iface, HostOnly!Wanted.range)'
         /\ pc' = "read" \/ (pc' = "idle" /\ \A e \in tf' : e.id = iface /\ e.range = HostOnly!Wanted.range)
<1> DEFINE r    == HostOnly!Wanted.range
           set  == HostOnly!Changed("dhcp") \/ HostOnly!Changed("range")
           Goal == r # 0 /\ servers'[iface] # 0 => servers'[iface] = r
<1>0. /\ pc = "dhcp" /\ want # {} /\ want' = want /\ iface' = iface /\ iface \in Ids
      /\ events = 0 /\ \A e \in tf : e.id = iface
      /\ servers \in [Ids -> 0..2]
  <2>1. pc = "dhcp" /\ want # {} /\ want' = want /\ iface' = iface
    BY HostServerSet DEF HostTyped, HostBusy
  <2>2. events = 0
    BY ConstantsAssumption DEF HostTyped, Counted, NoFailures
  <2> QED
    BY <2>1, <2>2 DEF HostPaid, HostWorking, HostBuilding, HostTyped
<1>1. /\ \A e \in tf : e.dhcp = (servers[iface] # 0) /\ HostRanged(iface, e.range)
      /\ tf = {} => servers[iface] = 0
      /\ servers[iface] # 0 => iface \in DOMAIN ifaces
  BY <1>0 DEF HostRanges, HostChanging, HostSafe, HostAlone
<1>2. HostOnly!Wanted.dhcp \in BOOLEAN /\ (~HostOnly!Wanted.dhcp => r = 0)
  <2>1. HostOnly!Wanted \in HostOnly!Configs
    BY <1>0, HostWanted DEF HostTyped
  <2> QED
    BY <2>1 DEF HostOnly!Configs
<1>3. /\ HostOnly!Serves <=> servers[iface] # 0
      /\ HostOnly!Had <=> servers[iface] # 0
  BY <1>0, <1>1 DEF HostOnly!Serves, HostOnly!Had
<1>4. ASSUME r = 0 PROVE Goal
  BY <1>4
<1>5. ASSUME r # 0, ~set PROVE Goal
  <2>1. HostOnly!Command(FALSE, TRUE, UNCHANGED HostOnly!virtualBox, "read")
    BY <1>5 DEF HostOnly!SetDhcp
  <2>2. servers' = servers
    BY <2>1 DEF HostOnly!Command, HostOnly!virtualBox
  <2>3. \E e \in tf : e.range = r
    BY <1>5 DEF HostOnly!Changed
  <2> QED
    BY <1>1, <2>2, <2>3 DEF HostRanged
<1>6. ASSUME r # 0, set PROVE Goal
  <2>1. HostOnly!Wanted.dhcp /\ ~HostOnly!Rangeless
    BY <1>2, <1>6 DEF HostOnly!Rangeless
  <2>2. ASSUME NEW can, can \/ servers[iface] = 0, HostOnly!Command(TRUE, can, HostOnly!SetServer(r), "read")
        PROVE  Goal
    <3>1. \/ servers' = [servers EXCEPT ![iface] = r]
          \/ servers' = servers /\ servers[iface] = 0
      BY <2>2 DEF HostOnly!Command, HostOnly!SetServer, HostOnly!virtualBox
    <3> HIDE DEF r
    <3> QED
      BY <1>0, <3>1
  <2>3. CASE HostOnly!Had
    BY <1>3, <1>6, <2>1, <2>2, <2>3 DEF HostOnly!SetDhcp
  <2>4. CASE ~HostOnly!Had
    <3>1. servers[iface] = 0
      BY <1>3, <2>4
    <3> QED
      BY <1>6, <2>1, <2>2, <2>4, <3>1 DEF HostOnly!SetDhcp
  <2> QED
    BY <2>3, <2>4
<1>7. Goal
  BY <1>4, <1>5, <1>6
<1>8. r' = r
  BY <1>0 DEF HostOnly!Wanted
<1>9. pc' = "read" \/ HostOnly!Failed
  BY HostServerSet
<1> QED
  BY <1>0, <1>7, <1>8, <1>9, HostFailedRange DEF HostRanged

LEMMA HostKeepsRanges ==
  ASSUME HostTyped, HostSafe, HostPaid, HostRanges, HostOnly!Next
  PROVE  HostRanges'
<1> USE DEF HostOnly!counters, HostOnly!virtualBox, HostOnly!Mine, HostRanged, HostChanging
<1> DEFINE R == HostOnly!Wanted.range
<1> SUFFICES ASSUME NoFailures' PROVE HostRanges'
  BY DEF HostRanges
<1>0. /\ NoFailures /\ ~HostOnly!Fault /\ ~HostOnly!Meddle /\ events = 0 /\ ~stale
      /\ \A i \in Ids \ DOMAIN ifaces : servers[i] = 0
  <2>1. events = 0
    BY HostNoFault, ConstantsAssumption DEF HostTyped, Counted, NoFailures
  <2> QED
    BY <2>1, HostNoFault DEF HostSafe, HostAlone
<1>00. /\ pc # "read" => \A e \in tf : HostRanged(e.id, e.range)
       /\ pc = "read" => HostRanged(iface, R)
       /\ pc \in HostChanging => \A e \in tf : e.dhcp = (servers[e.id] # 0)
       /\ pc \in HostChanging /\ tf = {} => servers[iface] = 0
  BY <1>0 DEF HostRanges
<1>000. ASSUME pc' \notin HostChanging \cup {"read", "clean"}, \A e \in tf' : HostRanged(e.id, e.range)'
        PROVE  HostRanges'
  BY <1>000 DEF HostRanges
<1>1. CASE HostOnly!Refresh
  <2>1. servers' = servers /\ pc' \in {"plan", "idle"} /\ pc \in {"idle", "clean"}
    BY <1>1 DEF HostOnly!Refresh
  <2>2. \A e \in tf : e.id \in DOMAIN ifaces =>
          HostOnly!Read(e).id = e.id /\ HostOnly!Read(e).range = e.range
    BY HostRead DEF HostTyped, HostOnly!Read, HostOnly!Entries
  <2>3. \A e \in tf' : \E f \in tf : e.id = f.id /\ e.range = f.range
    BY <1>1, <2>2 DEF HostOnly!Refresh
  <2>4. \A e \in tf' : HostRanged(e.id, e.range)'
    BY <1>00, <2>1, <2>3
  <2> QED
    BY <1>000, <2>1, <2>4
<1>2. CASE HostOnly!Plan
  <2>1. UNCHANGED <<want, tf, ifaces, servers>> /\ pc = "plan" /\ pc' # "read"
    BY <1>2 DEF HostOnly!Plan
  <2>2. \A e \in tf : HostRecorded(e)
    BY <1>0, <2>1 DEF HostSafe, HostSeen
  <2>3. pc' \in HostChanging => tf # {}
    BY <1>2 DEF HostOnly!Plan
  <2>4. ASSUME pc' = "clean", want # {}, ~HostOnly!Rangeless, NEW e \in tf
        PROVE  servers[e.id] = R
    <3>1. HostOnly!Entry = HostOnly!Planned(HostOnly!Entry.id) /\ e = HostOnly!Entry
      BY <1>2, <2>4, HostEntry DEF HostOnly!Plan
    <3>2. e.dhcp = HostOnly!Wanted.dhcp /\ e.range = R
      BY <3>1 DEF HostOnly!Planned
    <3>3. HostOnly!Wanted \in HostOnly!Configs /\ HostRecorded(e) /\ HostRanged(e.id, e.range)
      BY <1>00, <2>1, <2>2, <2>4, HostWanted DEF HostTyped
    <3>4. ~HostOnly!Wanted.dhcp => R = 0
      BY <3>3 DEF HostOnly!Configs
    <3> QED
      BY <2>4, <3>2, <3>3, <3>4 DEF HostRecorded, HostOnly!Rangeless
  <2> QED
    BY <1>00, <2>1, <2>2, <2>3, <2>4 DEF HostRanges, HostRecorded, HostOnly!Rangeless, HostOnly!Wanted
<1>3. CASE HostOnly!CreateIface
  <2>1. tf = {} /\ tf' = {} /\ servers' = servers /\ iface' \in Ids
    BY <1>3 DEF HostOnly!CreateIface, HostOnly!Command, HostOnly!Failed, HostOnly!AddIface, HostPaid,
               HostTyped
  <2>2. pc' = "idle" \/ (pc' = "ipv4" /\ iface' \notin DOMAIN ifaces)
    BY <1>3 DEF HostOnly!CreateIface, HostOnly!Command, HostOnly!Failed
  <2> QED
    BY <1>0, <2>1, <2>2 DEF HostRanges
<1>4. CASE HostOnly!SetIpv4 \/ HostOnly!SetIpv6
  <2>1. servers' = servers /\ iface' = iface /\ pc \in HostChanging /\ want # {} /\ want' = want
    BY <1>4 DEF HostOnly!SetIpv4, HostOnly!SetIpv6, HostOnly!Command, HostTyped, HostBusy
  <2>2. \/ pc' \in HostChanging /\ tf' = tf
        \/ HostOnly!Failed /\ iface \notin DOMAIN ifaces
    BY <1>0, <1>4 DEF HostOnly!SetIpv4, HostOnly!SetIpv6, HostOnly!Command, HostOnly!There
  <2>3. CASE pc' \in HostChanging /\ tf' = tf
    BY <1>00, <2>1, <2>3 DEF HostRanges
  <2>4. CASE HostOnly!Failed /\ iface \notin DOMAIN ifaces
    <3>1. \A e \in tf : e.id = iface
      BY <2>1 DEF HostPaid, HostWorking, HostBuilding
    <3>2. pc' = "idle" /\ \A e \in tf' : e.id = iface
      BY <2>1, <2>4, <3>1, HostFailedRange
    <3>3. servers'[iface] = 0
      BY <1>0, <2>1, <2>4 DEF HostTyped
    <3> QED
      BY <1>000, <3>2, <3>3
  <2> QED
    BY <2>2, <2>3, <2>4
<1>5. CASE HostOnly!SetDhcp
  <2>1. /\ HostRanged(iface, R)' /\ want' = want /\ iface' = iface
        /\ pc' = "read" \/ (pc' = "idle" /\ \A e \in tf' : e.id = iface /\ e.range = R)
    BY <1>0, <1>5, HostDhcpRange, HostServerSet
  <2>2. R' = R
    BY <2>1 DEF HostOnly!Wanted
  <2>3. CASE pc' = "read"
    BY <2>1, <2>3 DEF HostRanges
  <2>4. CASE pc' = "idle" /\ \A e \in tf' : e.id = iface /\ e.range = R
    BY <1>000, <2>1, <2>2, <2>4
  <2> QED
    BY <2>1, <2>3, <2>4
<1>6. CASE HostOnly!FinalRead
  <2>1. pc = "read" /\ pc' = "idle" /\ servers' = servers /\ want # {} /\ iface \in Ids
    BY <1>6 DEF HostOnly!FinalRead, HostTyped, HostBusy
  <2>2. HostOnly!Planned(iface) \in HostOnly!Entries /\ HostOnly!Planned(iface).id = iface
        /\ HostOnly!Planned(iface).range = R
    BY <2>1, HostPlanned DEF HostOnly!Planned
  <2>3. \A e \in tf' : e.id = iface /\ e.range = R
    <3>1. tf' = IF iface \in DOMAIN ifaces THEN {HostOnly!Read(HostOnly!Planned(iface))} ELSE {}
      BY <1>0, <1>6 DEF HostOnly!FinalRead, HostOnly!There
    <3> DEFINE q == HostOnly!Planned(iface)
    <3>3. q \in HostOnly!Entries /\ q.id = iface /\ q.range = R
      BY <2>2
    <3>4. tf' = IF iface \in DOMAIN ifaces THEN {HostOnly!Read(q)} ELSE {}
      BY <3>1
    <3> HIDE DEF q
    <3>2. iface \in DOMAIN ifaces => HostOnly!Read(q).id = iface /\ HostOnly!Read(q).range = R
      BY <3>3, HostRead DEF HostOnly!Read, HostOnly!Entries
    <3> QED
      BY <3>4, <3>2
  <2>4. \A e \in tf' : HostRanged(e.id, e.range)'
    BY <1>00, <2>1, <2>3
  <2> QED
    BY <1>000, <2>1, <2>4
<1>7. CASE HostOnly!RemoveServer \/ HostOnly!RemoveIface
  <2>1. pc \notin {"read"} /\ pc' \in {"idle", "removeIface"} /\ tf' \subseteq tf /\ iface \in Ids
    BY <1>7 DEF HostOnly!RemoveServer, HostOnly!RemoveIface, HostTyped
  <2>2. servers' = servers \/ servers' = [servers EXCEPT ![iface] = 0]
    BY <1>7 DEF HostOnly!RemoveServer, HostOnly!RemoveIface, HostOnly!SetServer
  <2>4. \A e \in tf : e.id \in Ids /\ HostRanged(e.id, e.range)
    BY <1>00, <2>1 DEF HostTyped, HostOnly!Entries
  <2>5. \A i \in Ids : servers'[i] = servers[i] \/ servers'[i] = 0
    BY <2>2 DEF HostTyped
  <2>3. \A e \in tf' : HostRanged(e.id, e.range)'
    BY <2>1, <2>4, <2>5
  <2> QED
    BY <1>000, <2>1, <2>3
<1>8. CASE HostOnly!EditConfig
  <2>1. UNCHANGED <<tf, servers>> /\ pc # "read" /\ pc' = "idle"
    BY <1>8 DEF HostOnly!EditConfig
  <2> QED
    BY <1>00, <1>000, <2>1
<1> QED
  BY <1>0, <1>1, <1>2, <1>3, <1>4, <1>5, <1>6, <1>7, <1>8 DEF HostOnly!Next, HostOnly!Apply

LEMMA HostStartsRanges ==
  ASSUME HostOnly!Init
  PROVE  HostRanges
BY DEF HostOnly!Init, HostRanges, HostChanging

-----------------------------------------------------------------------------
(* The disk. Without failures, a disk of the provider's that is not        *)
(* recorded is one that a create is still working on.                      *)

DiskSafe ==
  /\ pc \in {"create", "lookup", "resize", "read"} => want # {}
  /\ pc = "resize" => tf # {}
  /\ NoFailures /\ tf = {} /\ (\E m \in medium : m.own) => pc \in {"lookup", "read"}

LEMMA DiskNoFault ==
  ASSUME DiskTyped, Medium!Next, NoFailures'
  PROVE  NoFailures /\ ~Medium!Fault /\ ~Medium!Meddle
<1>0. edits \in Nat /\ events \in Nat /\ faults \in Nat
  BY ConstantsAssumption DEF DiskTyped, Counted
<1>1. CountersGrow
  BY <1>0 DEF Medium!Next, Medium!Apply, Medium!Refresh, Medium!Plan, Medium!Create, Medium!FindUuid,
       Medium!Resize, Medium!FinalRead, Medium!Remove, Medium!EditConfig, Medium!Meddle, Medium!Lookup,
       Medium!Fault, Medium!counters, CountersGrow
<1> QED
  BY <1>0, <1>1, NothingFailed DEF NoFailures, Medium!Fault, Medium!Meddle

LEMMA DiskKeepsSafe ==
  ASSUME DiskTyped, DiskSafe, Medium!Next
  PROVE  DiskSafe'
<1> DEFINE Own(h) == \E m \in h : m.own
           Busy   == {"create", "lookup", "resize", "read"}
<1> USE DEF Medium!counters
<1>0. NoFailures' => NoFailures /\ ~Medium!Fault /\ ~Medium!Meddle
  BY DiskNoFault
<1>00. NoFailures /\ tf = {} /\ Own(medium) => pc \in {"lookup", "read"}
  BY DEF DiskSafe
<1>1. CASE Medium!Refresh
  BY <1>0, <1>00, <1>1 DEF Medium!Refresh, Medium!Lookup, DiskSafe
<1>2. CASE Medium!Plan
  BY <1>0, <1>00, <1>2 DEF Medium!Plan, DiskSafe
<1>3. CASE Medium!Create
  <2>1. want # {} /\ want' = want /\ pc' \in {"lookup", "idle"}
    BY <1>3 DEF Medium!Create, Medium!Failed, DiskSafe
  <2>2. NoFailures' /\ tf' = {} /\ Own(medium') => pc' = "lookup"
    <3>1. CASE Medium!Failed /\ medium' = medium
      BY <1>0, <1>00, <1>3, <2>1, <3>1 DEF Medium!Create, Medium!Failed
    <3> QED
      BY <1>0, <1>3, <3>1 DEF Medium!Create
  <2> QED
    BY <2>1, <2>2 DEF DiskSafe
<1>4. CASE Medium!FindUuid
  <2>1. want # {} /\ want' = want /\ medium' = medium /\ pc' \in {"read", "idle"}
    BY <1>4 DEF Medium!FindUuid, Medium!Failed, DiskSafe
  <2>2. NoFailures' /\ pc' = "idle" => medium = {}
    BY <1>0, <1>4 DEF Medium!FindUuid
  <2> QED
    BY <2>1, <2>2 DEF DiskSafe
<1>5. CASE Medium!Resize
  <2>1. want # {} /\ want' = want /\ tf # {} /\ pc' \in {"read", "idle"}
    BY <1>5 DEF Medium!Resize, Medium!Failed, DiskSafe
  <2>2. tf' # {}
    BY <1>5, <2>1 DEF Medium!Resize, Medium!Failed
  <2> QED
    BY <2>1, <2>2 DEF DiskSafe
<1>6. CASE Medium!FinalRead
  BY <1>0, <1>6 DEF Medium!FinalRead, Medium!Lookup, DiskSafe
<1>7. CASE Medium!Remove
  BY <1>0, <1>00, <1>7 DEF Medium!Remove, DiskSafe
<1>8. CASE Medium!EditConfig
  BY <1>0, <1>00, <1>8 DEF Medium!EditConfig, DiskSafe
<1>9. CASE Medium!Meddle
  BY <1>0, <1>9 DEF Medium!Meddle, DiskSafe
<1> QED
  BY <1>1, <1>2, <1>3, <1>4, <1>5, <1>6, <1>7, <1>8, <1>9 DEF Medium!Next, Medium!Apply

LEMMA DiskStartsSafe ==
  ASSUME Medium!Init
  PROVE  DiskSafe
<1>1. \A m \in medium : ~m.own
  BY DEF Medium!Init
<1> QED
  BY <1>1 DEF Medium!Init, DiskSafe

-----------------------------------------------------------------------------
(* The snapshots. As long as no name is shared, a recorded UUID is that of *)
(* a snapshot that the resource has taken, and so is what is found under   *)
(* its name.                                                               *)

SnapOwn ==
  /\ \A n \in Names : \A e \in tf[n] : e.id <= taken
  /\ ~contested => /\ \A s \in snaps : s.name \in Names => s.by = s.name
                   /\ \A n \in Names : \A e \in tf[n], s \in snaps : s.id = e.id => s.by = n

(* Without failures each resource has one snapshot at most, under its name *)
(* and recorded, except between taking it and finding it.                  *)
SnapKept ==
  NoFailures /\ ~contested =>
    /\ \A s \in snaps : s.by \in Names => /\ s.name = s.by
                                          /\ pc[s.by] = "find" \/ \E e \in tf[s.by] : e.id = s.id
    /\ \A s, t \in snaps : s.by = t.by /\ s.by \in Names => s = t
    /\ \A n \in Names : pc[n] = "take" => tf[n] = {}

LEMMA SnapNoFault ==
  ASSUME SnapTyped, Snaps!Next
  PROVE  /\ NoFailures' => NoFailures /\ ~Snaps!Fault /\ ~Snaps!Meddle
         /\ ~contested' => ~contested
<1>0. edits \in Nat /\ events \in Nat /\ faults \in Nat
  BY ConstantsAssumption DEF SnapTyped, Counted
<1>1. CountersGrow
  <2>1. CASE UNCHANGED <<edits, events, faults>> \/ Snaps!Fault
    BY <1>0, <2>1 DEF Snaps!Fault, CountersGrow
  <2>2. CASE Snaps!Start \/ Snaps!Plan
    BY <2>1, <2>2 DEF Snaps!Start, Snaps!Plan, Snaps!counters
  <2>3. ASSUME NEW n \in Names, Snaps!Refresh(n) \/ Snaps!FinalRead(n) PROVE CountersGrow
    BY <2>1, <2>3 DEF Snaps!Refresh, Snaps!FinalRead, Snaps!Lookup, Snaps!counters
  <2>4. ASSUME NEW n \in Names, Snaps!Take(n) \/ Snaps!Find(n) \/ Snaps!Edit(n) \/ Snaps!Remove(n)
        PROVE  CountersGrow
    BY <2>1, <2>4 DEF Snaps!Take, Snaps!Find, Snaps!Edit, Snaps!Remove, Snaps!counters
  <2>5. CASE Snaps!Meddle
    BY <1>0, <2>5 DEF Snaps!Meddle, CountersGrow
  <2>6. ASSUME NEW n \in Names, Snaps!EditConfig(n) PROVE CountersGrow
    BY <1>0, <2>6 DEF Snaps!EditConfig, CountersGrow
  <2> QED
    BY <2>2, <2>3, <2>4, <2>5, <2>6 DEF Snaps!Next, Snaps!Apply, Snaps!Reads
<1>2. ~contested' => ~contested
  BY Zenon DEF Snaps!Next, Snaps!Apply, Snaps!Reads, Snaps!Start, Snaps!Refresh, Snaps!Plan, Snaps!Take,
       Snaps!Find, Snaps!Edit, Snaps!FinalRead, Snaps!Remove, Snaps!EditConfig, Snaps!Meddle
<1>3. ASSUME NoFailures' PROVE NoFailures /\ ~Snaps!Fault /\ ~Snaps!Meddle
  <2>1. (Snaps!Fault => faults' = faults + 1) /\ (Snaps!Meddle => events' = events + 1)
    BY DEF Snaps!Fault, Snaps!Meddle
  <2> QED
    BY <1>0, <1>1, <1>3, <2>1, NothingFailed DEF NoFailures
<1> QED
  BY <1>2, <1>3

(* Where the snapshots and the records of the next state come from.        *)
SameSnap(s, t) == s.id = t.id /\ s.name = t.name /\ s.by = t.by

NewSnap(s, n) == /\ pc[n] = "take" /\ pc'[n] = "find" /\ taken' = taken + 1
                 /\ s.id = taken + 1 /\ s.name = n /\ s.by = n

LEMMA SnapOrigin ==
  ASSUME SnapTyped, Snaps!Next, NEW s \in snaps'
  PROVE  /\ taken <= taken'
         /\ \/ \E t \in snaps : SameSnap(s, t)
            \/ \E n \in Names : NewSnap(s, n)
            \/ Snaps!Meddle /\ \/ s.id = taken + 1
                               \/ \E t \in snaps : s.id = t.id /\ s.by = t.by
<1>0. taken \in Nat /\ taken <= taken + 1 /\ snaps \subseteq Snapshots
  BY DEF SnapTyped
<1>1. ASSUME NEW n \in Names, Snaps!Take(n)
      PROVE  /\ taken <= taken'
             /\ (\E t \in snaps : SameSnap(s, t)) \/ NewSnap(s, n)
  <2>1. CASE UNCHANGED <<snaps, taken>>
    BY <1>0, <2>1 DEF SameSnap
  <2>2. CASE snaps' = Snaps!New(n, n) /\ taken' = taken + 1 /\ pc' = [pc EXCEPT ![n] = "find"]
    <3>1. s \in snaps \/ (s.id = taken + 1 /\ s.name = n /\ s.by = n)
      BY <2>2 DEF Snaps!New
    <3>2. pc[n] = "take" /\ pc'[n] = "find"
      BY <1>1, <2>2 DEF Snaps!Take, SnapTyped
    <3> QED
      BY <1>0, <2>2, <3>1, <3>2 DEF SameSnap, NewSnap
  <2> QED
    BY <1>1, <2>1, <2>2 DEF Snaps!Take, Snaps!Goto
<1>2. ASSUME NEW n \in Names, Snaps!Edit(n)
      PROVE  taken' = taken /\ \E t \in snaps : SameSnap(s, t)
  <2>1. taken' = taken /\ (snaps' = snaps \/ \E t \in snaps : snaps' = Snaps!Changed(t, "text", want[n]))
    BY <1>2 DEF Snaps!Edit, Snaps!Named
  <2>2. \A t \in snaps : SameSnap([t EXCEPT !["text"] = want[n]], t)
    BY <1>0 DEF SameSnap, Snapshots
  <2>3. CASE snaps' = snaps
    BY <2>1, <2>3 DEF SameSnap
  <2>4. ASSUME NEW t \in snaps, snaps' = Snaps!Changed(t, "text", want[n])
        PROVE  \E u \in snaps : SameSnap(s, u)
    <3>1. s \in snaps \/ s = [t EXCEPT !["text"] = want[n]]
      BY <2>4 DEF Snaps!Changed
    <3>2. s \in snaps => SameSnap(s, s)
      BY DEF SameSnap
    <3> QED
      BY <2>2, <3>1, <3>2
  <2> QED
    BY <2>1, <2>3, <2>4
<1>3. CASE snaps' \subseteq snaps /\ taken' = taken
  BY <1>0, <1>3 DEF SameSnap
<1>4. CASE Snaps!Start \/ Snaps!Plan
  BY <1>3, <1>4 DEF Snaps!Start, Snaps!Plan
<1>5. ASSUME NEW n \in Names, Snaps!Refresh(n) \/ Snaps!Find(n) \/ Snaps!FinalRead(n) \/ Snaps!EditConfig(n)
      PROVE  snaps' \subseteq snaps /\ taken' = taken
  BY <1>5 DEF Snaps!Refresh, Snaps!Find, Snaps!FinalRead, Snaps!EditConfig
<1>6. ASSUME NEW n \in Names, Snaps!Remove(n)
      PROVE  snaps' \subseteq snaps /\ taken' = taken
  BY <1>6 DEF Snaps!Remove
<1>7. CASE Snaps!Meddle
  <2>1. ASSUME NEW n \in Names \cup {"x"}, snaps' = Snaps!New(n, "other"), taken' = taken + 1
        PROVE  taken <= taken' /\ (s.id = taken + 1 \/ s \in snaps)
    BY <1>0, <2>1 DEF Snaps!New
  <2>2. ASSUME NEW t \in snaps, NEW n \in Names \cup {"x"}, snaps' = Snaps!Changed(t, "name", n), taken' = taken
        PROVE  taken <= taken' /\ \E u \in snaps : s.id = u.id /\ s.by = u.by
    <3> DEFINE r == [t EXCEPT !["name"] = n]
    <3>1. s \in snaps \/ s = r
      BY <2>2 DEF Snaps!Changed
    <3>2. r.id = t.id /\ r.by = t.by
      BY <1>0 DEF Snapshots
    <3>3. taken <= taken'
      BY <1>0, <2>2
    <3> HIDE DEF r
    <3> QED
      BY <3>1, <3>2, <3>3
  <2>3. \/ \E n \in Names \cup {"x"} : snaps' = Snaps!New(n, "other") /\ taken' = taken + 1
        \/ \E t \in snaps, n \in Names \cup {"x"} : snaps' = Snaps!Changed(t, "name", n) /\ taken' = taken
        \/ snaps' \subseteq snaps /\ taken' = taken
    BY <1>7 DEF Snaps!Meddle
  <2>4. s \in snaps => \E t \in snaps : s.id = t.id /\ s.by = t.by
    OBVIOUS
  <2>5. CASE snaps' \subseteq snaps /\ taken' = taken
    BY <1>0, <1>7, <2>4, <2>5
  <2> QED
    BY <1>7, <2>1, <2>2, <2>3, <2>4, <2>5
<1> QED
  BY <1>0, <1>1, <1>2, <1>3, <1>4, <1>5, <1>6, <1>7 DEF Snaps!Next, Snaps!Apply, Snaps!Reads

LEMMA SnapRecordOrigin ==
  ASSUME SnapTyped, Snaps!Next, NEW m \in Names, NEW e \in tf'[m]
  PROVE  \/ \E d \in tf[m] : e.id = d.id
         \/ \E s \in snaps : s.name = m /\ e.id = s.id
<1> DEFINE Goal == \/ \E d \in tf[m] : e.id = d.id
                   \/ \E s \in snaps : s.name = m /\ e.id = s.id
<1>0. tf \in [Names -> SUBSET Snaps!Entries]
  BY DEF SnapTyped
<1>1. ASSUME NEW n \in Names, Snaps!Failed(n) PROVE Goal
  <2>1. \A d \in Snaps!Entries : [d EXCEPT !["text"] = want[n]].id = d.id
    BY DEF Snaps!Entries
  <2>2. tf' = [tf EXCEPT ![n] = {[d EXCEPT !.text = want[n]] : d \in tf[n]}]
    BY <1>1 DEF Snaps!Failed, Snaps!Record
  <2>3. CASE m # n
    BY <1>0, <2>2, <2>3
  <2>4. CASE m = n
    <3>1. PICK d \in tf[n] : e = [d EXCEPT !["text"] = want[n]]
      BY <1>0, <2>2, <2>4
    <3>2. d \in Snaps!Entries
      BY <1>0
    <3> QED
      BY <2>1, <2>4, <3>1, <3>2
  <2> QED
    BY <2>3, <2>4
<1>2. ASSUME NEW n \in Names, Snaps!Lookup(n) PROVE Goal
  <2>1. \/ tf' = [tf EXCEPT ![n] = {Snaps!Entry(s) : s \in {s \in snaps : \E d \in tf[n] : d.id = s.id}}]
        \/ tf' = [tf EXCEPT ![n] = {}]
    BY <1>2 DEF Snaps!Lookup, Snaps!Record
  <2>2. \A s : Snaps!Entry(s).id = s.id
    BY DEF Snaps!Entry
  <2>3. CASE m # n
    BY <1>0, <2>1, <2>3
  <2>4. CASE m = n
    <3>1. PICK s \in snaps : e = Snaps!Entry(s) /\ \E d \in tf[n] : d.id = s.id
      BY <1>0, <2>1, <2>4
    <3> QED
      BY <2>2, <2>4, <3>1
  <2> QED
    BY <2>3, <2>4
<1>3. ASSUME NEW n \in Names, NEW s \in Snaps!Named(n), Snaps!Record(n, {Snaps!Entry(s)}) PROVE Goal
  <2>1. s \in snaps /\ s.name = n /\ Snaps!Entry(s).id = s.id
    BY DEF Snaps!Named, Snaps!Entry
  <2>2. tf' = [tf EXCEPT ![n] = {Snaps!Entry(s)}]
    BY <1>3 DEF Snaps!Record
  <2> QED
    BY <1>0, <2>1, <2>2
<1>4. ASSUME tf' = tf PROVE Goal
  BY <1>4
<1>5. ASSUME NEW n \in Names, Snaps!Record(n, {}) PROVE Goal
  BY <1>0, <1>5 DEF Snaps!Record
<1> HIDE DEF Goal
<1>6. ASSUME Snaps!Start \/ Snaps!Plan \/ Snaps!Meddle PROVE Goal
  BY <1>4, <1>6 DEF Snaps!Start, Snaps!Plan, Snaps!Meddle
<1>7. ASSUME NEW n \in Names, Snaps!Refresh(n) \/ Snaps!FinalRead(n) \/ Snaps!EditConfig(n) PROVE Goal
  BY <1>2, <1>4, <1>7 DEF Snaps!Refresh, Snaps!FinalRead, Snaps!EditConfig
<1>8. ASSUME NEW n \in Names, Snaps!Take(n) \/ Snaps!Edit(n) PROVE Goal
  BY <1>1, <1>4, <1>8 DEF Snaps!Take, Snaps!Edit
<1>9. ASSUME NEW n \in Names, Snaps!Find(n) \/ Snaps!Remove(n) PROVE Goal
  BY <1>1, <1>3, <1>4, <1>5, <1>9 DEF Snaps!Find, Snaps!Remove
<1>10. Goal
  BY <1>6, <1>7, <1>8, <1>9 DEF Snaps!Next, Snaps!Apply, Snaps!Reads
<1> QED
  BY <1>10 DEF Goal

LEMMA TakenGrows ==
  ASSUME SnapTyped, Snaps!Next
  PROVE  taken <= taken'
<1>0. taken \in Nat /\ taken <= taken + 1 /\ taken <= taken
  BY DEF SnapTyped
<1>1. taken' = taken \/ taken' = taken + 1
  BY Zenon DEF Snaps!Next, Snaps!Apply, Snaps!Reads, Snaps!Start, Snaps!Refresh, Snaps!Plan, Snaps!Take,
       Snaps!Find, Snaps!Edit, Snaps!FinalRead, Snaps!Remove, Snaps!EditConfig, Snaps!Meddle
<1> QED
  BY <1>0, <1>1

LEMMA SnapKeepsOwn ==
  ASSUME SnapTyped, SnapOwn, Snaps!Next
  PROVE  SnapOwn'
<1>0. /\ taken \in Nat /\ taken' \in Nat /\ taken <= taken' /\ snaps \subseteq Snapshots
      /\ tf \in [Names -> SUBSET Snaps!Entries] /\ \A s \in snaps : s.id <= taken
      /\ \A s, t \in snaps : s.id = t.id => s = t
  BY TakenGrows, SnapNextTyped DEF SnapTyped
<1>1. ASSUME NEW n \in Names, NEW e \in tf'[n]
      PROVE  /\ e.id \in Nat /\ e.id <= taken
             /\ ~contested => \A t \in snaps : t.id = e.id => t.by = n
  <2>1. CASE \E d \in tf[n] : e.id = d.id
    <3>1. PICK d \in tf[n] : e.id = d.id
      BY <2>1
    <3>2. d.id \in Nat /\ d.id <= taken
      BY <1>0 DEF SnapOwn, Snaps!Entries
    <3> QED
      BY <3>1, <3>2 DEF SnapOwn
  <2>2. CASE \E s \in snaps : s.name = n /\ e.id = s.id
    <3>1. PICK s \in snaps : s.name = n /\ e.id = s.id
      BY <2>2
    <3>2. s.id \in Nat /\ s.id <= taken
      BY <1>0 DEF Snapshots
    <3>3. ~contested => s.by = n
      BY <3>1 DEF SnapOwn
    <3> QED
      BY <1>0, <3>1, <3>2, <3>3
  <2> QED
    BY <2>1, <2>2, SnapRecordOrigin
<1>2. \A n \in Names : \A e \in tf'[n] : e.id <= taken'
  <2> SUFFICES ASSUME NEW n \in Names, NEW e \in tf'[n] PROVE e.id <= taken'
    OBVIOUS
  <2> QED
    BY <1>0, <1>1
<1>3. ASSUME ~contested', NEW s \in snaps'
      PROVE  s.name \in Names => s.by = s.name
  <2>1. CASE Snaps!Meddle
    BY <1>3, <2>1 DEF Snaps!Meddle
  <2>2. CASE ~Snaps!Meddle
    <3>1. ~contested
      BY <1>3, SnapNoFault
    <3> QED
      BY <2>2, <3>1, SnapOrigin DEF SnapOwn, SameSnap, NewSnap
  <2> QED
    BY <2>1, <2>2
<1>4. ASSUME ~contested', NEW n \in Names, NEW e \in tf'[n], NEW s \in snaps', s.id = e.id
      PROVE  s.by = n
  <2>1. ~contested /\ e.id \in Nat /\ e.id <= taken /\ \A t \in snaps : t.id = e.id => t.by = n
    BY <1>1, <1>4, SnapNoFault
  <2>2. s.id # taken + 1
    BY <1>0, <1>4, <2>1
  <2>3. \E t \in snaps : s.id = t.id /\ s.by = t.by
    BY <2>2, SnapOrigin DEF SameSnap, NewSnap
  <2> QED
    BY <1>4, <2>1, <2>3
<1> QED
  BY <1>2, <1>3, <1>4 DEF SnapOwn

(* What a step takes away from the snapshots is its resource's own.        *)
LEMMA SnapTouchesOwn ==
  ASSUME SnapTyped, SnapOwn, Snaps!Next, ~contested, events' = events
  PROVE  Snaps!TouchedAreOwn
<1> SUFFICES ASSUME NEW s \in snaps, s \notin snaps'
             PROVE  s.by \in Names /\ pc[s.by] \in {"edit", "remove"} /\ pc'[s.by] # pc[s.by]
  BY DEF Snaps!TouchedAreOwn
<1>0. /\ pc \in [Names -> SnapSteps] /\ events \in Nat
      /\ \A t \in snaps : t.name \in Names => t.by = t.name
      /\ \A n \in Names : \A e \in tf[n], t \in snaps : t.id = e.id => t.by = n
  BY ConstantsAssumption DEF SnapTyped, Counted, SnapOwn
<1>1. ASSUME NEW n \in Names, Snaps!Edit(n)
      PROVE  s.by = n /\ pc[n] = "edit" /\ pc'[n] # "edit"
  <2>1. PICK t \in Snaps!Named(n) : /\ snaps' = Snaps!Changed(t, "text", want[n])
                                    /\ pc' = [pc EXCEPT ![n] = "read"]
    BY <1>1 DEF Snaps!Edit, Snaps!Goto
  <2>2. s = t
    BY <2>1 DEF Snaps!Changed
  <2>3. s.by = n
    BY <1>0, <2>2 DEF Snaps!Named
  <2> QED
    BY <1>0, <1>1, <2>1, <2>3 DEF Snaps!Edit
<1>2. ASSUME NEW n \in Names, Snaps!Remove(n)
      PROVE  s.by = n /\ pc[n] = "remove" /\ pc'[n] # "remove"
  <2>1. /\ pc[n] = "remove"
        /\ snaps' = {t \in snaps : ~\E e \in tf[n] : e.id = t.id}
        /\ pc' = [pc EXCEPT ![n] = IF want[n] = 0 THEN "idle" ELSE "take"]
    BY <1>2 DEF Snaps!Remove, Snaps!Goto
  <2>2. s.by = n
    BY <1>0, <2>1
  <2> QED
    BY <1>0, <2>1, <2>2
<1>3. \A n \in Names : ~Snaps!Take(n)
  BY DEF Snaps!Take, Snaps!New
<1>4. ~Snaps!Meddle
  BY <1>0 DEF Snaps!Meddle
<1>5. snaps' # snaps
  OBVIOUS
<1>6. ~Snaps!Start /\ ~Snaps!Plan
  BY <1>5 DEF Snaps!Start, Snaps!Plan
<1>7. \A n \in Names : ~Snaps!Refresh(n) /\ ~Snaps!Find(n) /\ ~Snaps!FinalRead(n) /\ ~Snaps!EditConfig(n)
  BY <1>5 DEF Snaps!Refresh, Snaps!Find, Snaps!FinalRead, Snaps!EditConfig
<1> QED
  BY <1>1, <1>2, <1>3, <1>4, <1>6, <1>7 DEF Snaps!Next, Snaps!Apply, Snaps!Reads

Found(n, i) == pc[n] = "find" \/ \E e \in tf[n] : e.id = i

(* A snapshot that is there before and after a step is still found.        *)
LEMMA SnapRecordKept ==
  ASSUME SnapTyped, SnapOwn, SnapKept, Snaps!Next, NoFailures', ~contested',
         NEW t \in snaps, t.by \in Names, \E s \in snaps' : s.id = t.id
  PROVE  Found(t.by, t.id)'
<1> DEFINE m == t.by
<1>0. /\ pc \in [Names -> SnapSteps] /\ tf \in [Names -> SUBSET Snaps!Entries]
      /\ \A u, v \in snaps : u.id = v.id => u = v
      /\ NoFailures /\ ~contested /\ ~Snaps!Fault /\ ~Snaps!Meddle
  BY SnapNoFault DEF SnapTyped
<1>1. t.name = m /\ (pc[m] = "find" \/ \E e \in tf[m] : e.id = t.id)
  BY <1>0 DEF SnapKept
<1>2. ASSUME UNCHANGED <<pc[m], tf[m]>> PROVE Found(m, t.id)'
  BY <1>1, <1>2 DEF Found
<1>3. CASE Snaps!Start \/ Snaps!Plan \/ \E n \in Names : Snaps!EditConfig(n)
  <2>1. tf' = tf /\ pc[m] # "find"
    BY <1>3 DEF Snaps!Start, Snaps!Plan, Snaps!EditConfig, Snaps!AtRest
  <2> QED
    BY <1>1, <2>1 DEF Found
<1>4. ASSUME NEW n \in Names, Snaps!Refresh(n) \/ Snaps!FinalRead(n)
      PROVE  Found(m, t.id)'
  <2>1. pc[n] # "find" /\ \E p \in {"plan", "idle"} : pc' = [pc EXCEPT ![n] = p]
    BY <1>4 DEF Snaps!Refresh, Snaps!FinalRead, Snaps!Goto
  <2>2. CASE tf' = tf
    BY <1>0, <1>1, <2>1, <2>2 DEF Found
  <2>3. CASE tf' = [tf EXCEPT ![n] = {Snaps!Entry(s) : s \in {s \in snaps : \E e \in tf[n] : e.id = s.id}}]
    <3>1. CASE m # n
      BY <1>0, <1>2, <2>1, <2>3, <3>1
    <3>2. CASE m = n
      <4>1. \E e \in tf[n] : e.id = t.id
        BY <1>1, <2>1, <3>2
      <4>2. Snaps!Entry(t) \in tf'[n] /\ Snaps!Entry(t).id = t.id
        BY <1>0, <2>3, <4>1 DEF Snaps!Entry
      <4> QED
        BY <3>2, <4>2 DEF Found
    <3> QED
      BY <3>1, <3>2
  <2> QED
    BY <1>0, <1>4, <2>2, <2>3 DEF Snaps!Refresh, Snaps!FinalRead, Snaps!Lookup, Snaps!Record
<1>5. ASSUME NEW n \in Names, Snaps!Take(n) \/ Snaps!Edit(n)
      PROVE  Found(m, t.id)'
  <2>1. /\ pc[n] # "find" /\ \E p \in {"find", "read", "idle"} : pc' = [pc EXCEPT ![n] = p]
        /\ tf' = tf \/ tf' = [tf EXCEPT ![n] = {[e EXCEPT !["text"] = want[n]] : e \in tf[n]}]
    BY <1>5 DEF Snaps!Take, Snaps!Edit, Snaps!Failed, Snaps!Goto, Snaps!Record
  <2>2. CASE m # n
    BY <1>0, <1>2, <2>1, <2>2
  <2>3. CASE m = n
    <3>1. PICK e \in tf[n] : e.id = t.id
      BY <1>1, <2>1, <2>3
    <3>2. tf'[n] = tf[n] \/ tf'[n] = {[d EXCEPT !["text"] = want[n]] : d \in tf[n]}
      BY <1>0, <2>1
    <3>3. e \in Snaps!Entries
      BY <1>0
    <3> DEFINE d == [e EXCEPT !["text"] = want[n]]
    <3>4. d.id = e.id
      BY <3>3 DEF Snaps!Entries
    <3>5. e \in tf'[n] \/ d \in tf'[n]
      BY <3>2
    <3> HIDE DEF d
    <3> QED
      BY <2>3, <3>1, <3>4, <3>5 DEF Found
  <2> QED
    BY <2>2, <2>3
<1>6. ASSUME NEW n \in Names, Snaps!Find(n)
      PROVE  Found(m, t.id)'
  <2>1. CASE m # n
    BY <1>0, <1>2, <1>6, <2>1 DEF Snaps!Find, Snaps!Failed, Snaps!Goto, Snaps!Record
  <2>2. CASE m = n
    <3>1. \A u \in snaps : u.name = n => u = t
      BY <1>0, <1>1, <2>2 DEF SnapOwn, SnapKept
    <3>2. Snaps!Named(n) = {t}
      <4>1. t.id <= t.id
        BY DEF SnapTyped, Snapshots
      <4> QED
        BY <1>1, <2>2, <3>1, <4>1 DEF Snaps!Named
    <3>3. tf' = [tf EXCEPT ![n] = {Snaps!Entry(t)}]
      BY <1>0, <1>6, <3>2 DEF Snaps!Find, Snaps!Record
    <3>4. Snaps!Entry(t) \in tf'[n] /\ Snaps!Entry(t).id = t.id
      BY <1>0, <3>3 DEF Snaps!Entry
    <3> QED
      BY <2>2, <3>4 DEF Found
  <2> QED
    BY <2>1, <2>2
<1>7. ASSUME NEW n \in Names, Snaps!Remove(n)
      PROVE  Found(m, t.id)'
  <2>1. CASE m # n
    BY <1>0, <1>2, <1>7, <2>1 DEF Snaps!Remove, Snaps!Goto, Snaps!Record
  <2>2. CASE m = n
    <3>1. pc[n] # "find"
      BY <1>7 DEF Snaps!Remove
    <3>2. \E e \in tf[n] : e.id = t.id
      BY <1>1, <2>2, <3>1
    <3>3. snaps' = {s \in snaps : ~\E e \in tf[n] : e.id = s.id}
      BY <1>0, <1>7, <3>2 DEF Snaps!Remove
    <3> QED
      BY <3>2, <3>3
  <2> QED
    BY <2>1, <2>2
<1> QED
  BY <1>0, <1>3, <1>4, <1>5, <1>6, <1>7 DEF Snaps!Next, Snaps!Apply, Snaps!Reads

(* A resource takes a snapshot only when it has none in its record.        *)
LEMMA SnapTakesOnce ==
  ASSUME SnapTyped, SnapKept, Snaps!Next, NoFailures', ~contested',
         NEW n \in Names, pc'[n] = "take"
  PROVE  tf'[n] = {}
<1>0. /\ pc \in [Names -> SnapSteps] /\ tf \in [Names -> SUBSET Snaps!Entries]
      /\ NoFailures /\ ~contested /\ ~Snaps!Fault /\ ~Snaps!Meddle
  BY SnapNoFault DEF SnapTyped
<1>1. pc[n] = "take" => tf[n] = {}
  BY <1>0 DEF SnapKept
<1>2. CASE Snaps!Plan
  <2>1. tf' = tf /\ Snaps!Planned(n) = "take"
    BY <1>2 DEF Snaps!Plan
  <2> QED
    BY <2>1 DEF Snaps!Planned
<1>3. CASE Snaps!Start
  BY <1>3 DEF Snaps!Start
<1>4. ASSUME NEW m \in Names, Snaps!Remove(m) PROVE tf'[n] = {}
  BY <1>0, <1>1, <1>4 DEF Snaps!Remove, Snaps!Goto, Snaps!Record
<1>5. ASSUME NEW m \in Names, NEW p \in {"plan", "idle", "find", "read"}, pc' = [pc EXCEPT ![m] = p]
      PROVE  m # n /\ pc[n] = "take" /\ tf[n] = {}
  BY <1>0, <1>1, <1>5
<1>6. ASSUME NEW m \in Names,
             Snaps!Refresh(m) \/ Snaps!Take(m) \/ Snaps!Find(m) \/ Snaps!Edit(m) \/ Snaps!FinalRead(m)
             \/ Snaps!EditConfig(m)
      PROVE  tf'[n] = {}
  <2>1. \E p \in {"plan", "idle", "find", "read"} : pc' = [pc EXCEPT ![m] = p]
    BY <1>6 DEF Snaps!Refresh, Snaps!Take, Snaps!Find, Snaps!Edit, Snaps!FinalRead, Snaps!EditConfig,
         Snaps!Failed, Snaps!Goto
  <2>2. m # n /\ tf[n] = {}
    BY <1>5, <2>1
  <2>3. m # n => tf'[n] = tf[n]
    BY <1>0, <1>6 DEF Snaps!Refresh, Snaps!Take, Snaps!Find, Snaps!Edit, Snaps!FinalRead, Snaps!EditConfig,
         Snaps!Failed, Snaps!Lookup, Snaps!Record
  <2> QED
    BY <2>2, <2>3
<1> QED
  BY <1>0, <1>2, <1>3, <1>4, <1>6 DEF Snaps!Next, Snaps!Apply, Snaps!Reads

LEMMA SnapKeepsKept ==
  ASSUME SnapTyped, SnapOwn, SnapKept, Snaps!Next
  PROVE  SnapKept'
<1> SUFFICES ASSUME NoFailures', ~contested'
             PROVE  /\ \A s \in snaps' : s.by \in Names => s.name = s.by /\ Found(s.by, s.id)'
                    /\ \A s, t \in snaps' : s.by = t.by /\ s.by \in Names => s = t
                    /\ \A n \in Names : pc'[n] = "take" => tf'[n] = {}
  BY DEF SnapKept, Found
<1>0. NoFailures /\ ~contested /\ ~Snaps!Meddle
  BY SnapNoFault
<1>1. /\ \A s \in snaps : s.by \in Names => s.name = s.by /\ Found(s.by, s.id)
      /\ \A s, t \in snaps : s.by = t.by /\ s.by \in Names => s = t
      /\ \A n \in Names : pc[n] = "take" => tf[n] = {}
  BY <1>0 DEF SnapKept, Found
<1>2. \A s \in snaps' : (\E t \in snaps : SameSnap(s, t)) \/ (\E n \in Names : NewSnap(s, n))
  BY <1>0, SnapOrigin
<1>3. \A s, t \in snaps' : s.id = t.id => s = t
  BY SnapNextTyped DEF SnapTyped
<1>4. ASSUME NEW s \in snaps', s.by \in Names
      PROVE  s.name = s.by /\ Found(s.by, s.id)'
  <2>1. ASSUME NEW t \in snaps, SameSnap(s, t) PROVE s.name = s.by /\ Found(s.by, s.id)'
    <3>1. t.by \in Names /\ t.name = t.by /\ s.id = t.id /\ s.by = t.by /\ s.name = t.name
      BY <1>1, <1>4, <2>1 DEF SameSnap
    <3>2. Found(t.by, t.id)'
      BY <3>1, SnapRecordKept
    <3> QED
      BY <3>1, <3>2
  <2>2. ASSUME NEW n \in Names, NewSnap(s, n) PROVE s.name = s.by /\ Found(s.by, s.id)'
    BY <2>2 DEF NewSnap, Found
  <2> QED
    BY <1>2, <2>1, <2>2
<1>5. ASSUME NEW s \in snaps', NEW t \in snaps', s.by = t.by, s.by \in Names
      PROVE  s = t
  <2>1. ASSUME NEW n \in Names, NewSnap(s, n), NEW u \in snaps, SameSnap(t, u) PROVE FALSE
    <3>1. pc[n] = "take" /\ u.by = n
      BY <1>5, <2>1 DEF NewSnap, SameSnap
    <3> QED
      BY <1>1, <3>1 DEF Found
  <2>2. ASSUME NEW n \in Names, NewSnap(t, n), NEW u \in snaps, SameSnap(s, u) PROVE FALSE
    <3>1. pc[n] = "take" /\ u.by = n
      BY <1>5, <2>2 DEF NewSnap, SameSnap
    <3> QED
      BY <1>1, <3>1 DEF Found
  <2>3. ASSUME NEW n \in Names, NewSnap(s, n), NEW m \in Names, NewSnap(t, m) PROVE s = t
    BY <1>3, <2>3 DEF NewSnap
  <2>4. ASSUME NEW u \in snaps, SameSnap(s, u), NEW v \in snaps, SameSnap(t, v) PROVE s = t
    <3>1. u = v
      BY <1>1, <1>5, <2>4 DEF SameSnap
    <3> QED
      BY <1>3, <2>4, <3>1 DEF SameSnap
  <2> QED
    BY <1>2, <2>1, <2>2, <2>3, <2>4
<1> QED
  BY <1>4, <1>5, SnapTakesOnce

LEMMA SnapStarts ==
  ASSUME Snaps!Init
  PROVE  SnapOwn /\ SnapKept
<1>1. \A s \in snaps : s.by = "other" /\ (s.name \in Names => contested)
  BY DEF Snaps!Init
<1>2. /\ \A n \in Names : tf[n] = {} /\ pc[n] = "idle"
      /\ "other" \notin Names
  BY ConstantsAssumption DEF Snaps!Init
<1> QED
  BY <1>1, <1>2 DEF SnapOwn, SnapKept

LEMMA SnapKeptMeansNoLoss ==
  ASSUME SnapTyped, SnapKept
  PROVE  Snaps!LossesComeFromFailures
<1>1. faults \in Nat /\ events \in Nat
  BY ConstantsAssumption DEF SnapTyped, Counted
<1>2. NoFailures \/ faults + events > 0
  BY <1>1 DEF NoFailures
<1> QED
  BY <1>2 DEF SnapKept, Snaps!LossesComeFromFailures, Snaps!Lost

-----------------------------------------------------------------------------
(* The exports. While others let the files alone, the files of a recorded  *)
(* export are there, and so are those that an export at work has written.  *)
(* Without failures there are no others of its own, except where a file of *)
(* somebody else's is in the way; a sweep removes all.                     *)

Suffixes      == Exports!Extensions \cup {"vmdk"}
There(e, x, o) == [path |-> <<e, x>>, own |-> o] \in files
Parts(x)      == IF x = "none" THEN {} ELSE IF x = "ovf" THEN {"ovf", "vmdk"} ELSE {x}

Held(e) == IF pc[e] \in {"idle", "refresh", "plan", "clean", "remove"} THEN Parts(tf[e])
           ELSE IF pc[e] = "disks" THEN {"ovf"}
           ELSE IF pc[e] = "record" THEN Parts(want[e]) ELSE {}

Left(e) == IF pc[e] = "glob" THEN {"vmdk"}
           ELSE IF pc[e] = "sweep" THEN {x \in Suffixes : <<e, x>> \in todo[e]} ELSE Held(e)

(* What holds of an export by the position of its resource alone.          *)
FileSteady(e) == /\ \A p \in todo[e] : p[1] = e \/ <<e, p[1]>> \in Prefix
                 /\ pc[e] \in {"export", "disks", "record"} => tf[e] = "none"
                 /\ pc[e] = "disks" => want[e] = "ovf"

FileHeld(e) == \A x \in Held(e) : There(e, x, TRUE)

FileLeft(e) == \/ \A x \in Suffixes : There(e, x, TRUE) => x \in Left(e)
               \/ pc[e] # "sweep" /\ \E x \in Suffixes : There(e, x, FALSE)

FileSafe == \A e \in Bases : /\ FileSteady(e)
                             /\ events = 0 /\ ~Exports!Exposed(e) => FileHeld(e)
                             /\ NoFailures /\ ~Exports!Exposed(e) => FileLeft(e)

FileStep(e) == \/ Exports!Refresh(e) \/ Exports!Export(e) \/ Exports!SetId(e) \/ Exports!RemoveMain(e)
               \/ Exports!Glob(e) \/ Exports!Sweep(e) \/ Exports!Forget(e) \/ Exports!EditConfig(e)

LEMMA FileNoFault ==
  ASSUME FileTyped, Exports!Next
  PROVE  /\ CountersGrow
         /\ events' = 0 => events = 0 /\ ~Exports!Meddle
         /\ NoFailures' => NoFailures /\ ~Exports!Fault /\ ~Exports!Meddle
<1>0. edits \in Nat /\ events \in Nat /\ faults \in Nat
  BY ConstantsAssumption DEF FileTyped, Counted
<1>1. CountersGrow
  <2>1. CASE UNCHANGED <<edits, events, faults>> \/ Exports!Fault
    BY <1>0, <2>1 DEF Exports!Fault, CountersGrow
  <2>2. CASE Exports!Start \/ Exports!Plan
    BY <2>1, <2>2 DEF Exports!Start, Exports!Plan, Exports!counters
  <2>3. ASSUME NEW e \in Bases, FileStep(e) PROVE CountersGrow
    <3>1. CASE Exports!EditConfig(e)
      BY <1>0, <3>1 DEF Exports!EditConfig, CountersGrow
    <3>2. CASE Exports!SetId(e) \/ Exports!Glob(e) \/ Exports!Forget(e) \/ Exports!Refresh(e)
      BY <2>1, <3>2 DEF Exports!SetId, Exports!Glob, Exports!Forget, Exports!Refresh, Exports!counters
    <3>3. CASE Exports!Export(e) \/ Exports!RemoveMain(e) \/ Exports!Sweep(e)
      BY <2>1, <3>3 DEF Exports!Export, Exports!RemoveMain, Exports!Sweep, Exports!RemoveFile, Exports!counters
    <3> QED
      BY <2>3, <3>1, <3>2, <3>3 DEF FileStep
  <2>4. CASE Exports!Meddle
    BY <1>0, <2>4 DEF Exports!Meddle, CountersGrow
  <2> QED
    BY <2>2, <2>3, <2>4 DEF Exports!Next, Exports!Apply, Exports!Reads, FileStep
<1>2. (Exports!Fault => faults' = faults + 1) /\ (Exports!Meddle => events' = events + 1)
  BY DEF Exports!Fault, Exports!Meddle
<1>3. ASSUME NoFailures' PROVE NoFailures /\ ~Exports!Fault /\ ~Exports!Meddle
  BY <1>0, <1>1, <1>2, <1>3, NothingFailed DEF NoFailures
<1>4. events' = 0 => events = 0 /\ ~Exports!Meddle
  BY <1>0, <1>1, <1>2 DEF CountersGrow
<1> QED
  BY <1>1, <1>3, <1>4

(* The step of a resource leaves the files of the others alone.            *)
LEMMA FileOthers ==
  ASSUME FileTyped, FileSafe, NEW b \in Bases, FileStep(b), NEW e \in Bases, e # b
  PROVE  /\ pc'[e] = pc[e] /\ tf'[e] = tf[e] /\ todo'[e] = todo[e] /\ want'[e] = want[e]
         /\ ~Exports!Exposed(e) => \A x : \A o \in BOOLEAN : There(e, x, o)' = There(e, x, o)
<1>0. /\ pc \in [Bases -> FileSteps] /\ tf \in [Bases -> Exports!Extensions \cup {"none"}]
      /\ todo \in [Bases -> SUBSET Exports!Paths] /\ want \in [Bases -> Exports!Extensions \cup {"none"}]
  BY DEF FileTyped
<1>1. pc'[e] = pc[e] /\ tf'[e] = tf[e] /\ todo'[e] = todo[e] /\ want'[e] = want[e]
  <2>1. CASE Exports!Refresh(b) \/ Exports!SetId(b) \/ Exports!Forget(b) \/ Exports!EditConfig(b)
    BY <1>0, <2>1 DEF Exports!Refresh, Exports!SetId, Exports!Forget, Exports!EditConfig,
         Exports!Goto, Exports!Record
  <2>2. CASE Exports!Export(b) \/ Exports!RemoveMain(b) \/ Exports!Glob(b) \/ Exports!Sweep(b)
    BY <1>0, <2>2 DEF Exports!Export, Exports!RemoveMain, Exports!Glob, Exports!Sweep, Exports!Goto
  <2> QED
    BY <2>1, <2>2 DEF FileStep
<1>2. ASSUME ~Exports!Exposed(e), NEW x, NEW o \in BOOLEAN
      PROVE  There(e, x, o)' = There(e, x, o)
  <2> DEFINE f == [path |-> <<e, x>>, own |-> o]
  <2>0. f.path = <<e, x>> /\ f.path[1] = e
    OBVIOUS
  <2>1. CASE files' = files
    BY <2>1 DEF There
  <2>2. ASSUME NEW p, p[1] # e, Exports!RemoveFile(p)
        PROVE  f \in files' <=> f \in files
    <3>1. f.path # p
      BY <2>0, <2>2
    <3> HIDE DEF f
    <3> QED
      BY <2>2, <3>1 DEF Exports!RemoveFile
  <2>3. CASE Exports!RemoveMain(b)
    <3>1. Exports!RemoveFile(<<b, tf[b]>>)
      BY <2>3 DEF Exports!RemoveMain
    <3>2. <<b, tf[b]>>[1] # e
      OBVIOUS
    <3> HIDE DEF f
    <3>3. f \in files' <=> f \in files
      BY <2>2, <3>1, <3>2
    <3> QED
      BY <3>3 DEF There, f
  <2>4. CASE Exports!Sweep(b) /\ files' # files
    <3>1. PICK p \in todo[b] : Exports!RemoveFile(p)
      BY <2>4 DEF Exports!Sweep
    <3>2. p[1] # e
      BY <1>2, <3>1 DEF FileSafe, FileSteady, Exports!Exposed
    <3> HIDE DEF f
    <3>3. f \in files' <=> f \in files
      BY <2>2, <3>1, <3>2
    <3> QED
      BY <3>3 DEF There, f
  <2>5. CASE Exports!Export(b)
    <3>1. Exports!Target(b) # f.path /\ <<b, "ovf">> # f.path
      BY <2>0 DEF Exports!Target
    <3> DEFINE g == [path |-> Exports!Target(b), own |-> TRUE]
    <3>2. g # f
      BY <3>1
    <3>3. files' = files \cup {g} \/ files' = {h \in files : ~h.own \/ h.path # <<b, "ovf">> \/ pc[b] = "export"}
          \/ files' = files
      BY <2>5 DEF Exports!Export
    <3> HIDE DEF f, g
    <3>4. f \in files' <=> f \in files
      BY <3>1, <3>2, <3>3
    <3> QED
      BY <3>4 DEF There, f
  <2>6. CASE Exports!Refresh(b) \/ Exports!SetId(b) \/ Exports!Glob(b) \/ Exports!Forget(b) \/ Exports!EditConfig(b)
    BY <2>1, <2>6 DEF Exports!Refresh, Exports!SetId, Exports!Glob, Exports!Forget, Exports!EditConfig
  <2> QED
    BY <2>1, <2>3, <2>4, <2>5, <2>6 DEF FileStep
<1> QED
  BY <1>1, <1>2

LEMMA FileTaken ==
  ASSUME FileTyped, NEW e, NEW x
  PROVE  /\ <<e, x>> \in Exports!Taken <=> There(e, x, TRUE) \/ There(e, x, FALSE)
         /\ ~(There(e, x, TRUE) /\ There(e, x, FALSE))
<1>1. ASSUME NEW f \in files, f.path = <<e, x>>
      PROVE  There(e, x, TRUE) \/ There(e, x, FALSE)
  <2>1. f.own \in BOOLEAN /\ f = [path |-> f.path, own |-> f.own]
    BY DEF FileTyped, Exports!Files
  <2>2. CASE f.own = TRUE
    BY <1>1, <2>1, <2>2 DEF There
  <2>3. CASE f.own = FALSE
    BY <1>1, <2>1, <2>3 DEF There
  <2> QED
    BY <2>1, <2>2, <2>3
<1>2. \A o \in BOOLEAN : There(e, x, o) => <<e, x>> \in Exports!Taken
  <2> SUFFICES ASSUME NEW o \in BOOLEAN, There(e, x, o) PROVE <<e, x>> \in Exports!Taken
    OBVIOUS
  <2> DEFINE f == [path |-> <<e, x>>, own |-> o]
  <2>1. f \in files /\ f.path = <<e, x>>
    BY DEF There
  <2> HIDE DEF f
  <2> QED
    BY <2>1 DEF Exports!Taken
<1>3. ~(There(e, x, TRUE) /\ There(e, x, FALSE))
  <2> DEFINE f == [path |-> <<e, x>>, own |-> TRUE]
             g == [path |-> <<e, x>>, own |-> FALSE]
  <2>1. f.path = g.path /\ f.own = TRUE /\ g.own = FALSE
    OBVIOUS
  <2> HIDE DEF f, g
  <2>2. ~(f \in files /\ g \in files)
    BY <2>1 DEF FileTyped
  <2> QED
    BY <2>2 DEF There, f, g
<1>4. <<e, x>> \in Exports!Taken => \E f \in files : f.path = <<e, x>>
  BY DEF Exports!Taken
<1> QED
  BY <1>1, <1>2, <1>3, <1>4

(* Removing a path removes what is there, and nothing else.                *)
LEMMA FileRemoved ==
  ASSUME FileTyped, NEW e, NEW x, Exports!RemoveFile(<<e, x>>), ~Exports!Fault
  PROVE  \A y : \A o \in BOOLEAN : There(e, y, o)' <=> There(e, y, o) /\ y # x
<1> SUFFICES ASSUME NEW y, NEW o \in BOOLEAN
             PROVE  There(e, y, o)' <=> There(e, y, o) /\ y # x
  OBVIOUS
<1> DEFINE f == [path |-> <<e, y>>, own |-> o]
<1>1. f.path # <<e, x>> <=> y # x
  OBVIOUS
<1>2. files' = {h \in files : h.path # <<e, x>>}
  BY DEF Exports!RemoveFile
<1> HIDE DEF f
<1>3. f \in files' <=> f \in files /\ y # x
  BY <1>1, <1>2
<1> QED
  BY <1>3 DEF There, f

LEMMA FileRefreshes ==
  ASSUME FileTyped, NEW e \in Bases, Exports!Refresh(e)
  PROVE  /\ pc[e] = "refresh" /\ pc'[e] = "plan" /\ todo' = todo /\ want' = want /\ files' = files
         /\ tf'[e] = tf[e] \/ (tf'[e] = "none" /\ ~There(e, tf[e], TRUE))
<1>1. tf'[e] = tf[e] \/ (tf'[e] = "none" /\ <<e, tf[e]>> \notin Exports!Taken)
  BY DEF FileTyped, Exports!Refresh, Exports!Record
<1> QED
  BY <1>1, FileTaken DEF FileTyped, Exports!Refresh, Exports!Goto

LEMMA FileExports ==
  ASSUME FileTyped, FileSafe, NEW e \in Bases, Exports!Export(e),
         NEW w, w = IF pc[e] = "export" THEN want[e] ELSE "vmdk"
  PROVE  /\ pc[e] \in {"export", "disks"} /\ tf'[e] = "none" /\ todo' = todo /\ want' = want
         /\ \/ /\ pc'[e] = IF pc[e] = "export" /\ want[e] = "ovf" THEN "disks" ELSE "record"
               /\ There(e, w, TRUE)'
               /\ \A x : There(e, x, TRUE)' => There(e, x, TRUE) \/ x = w
               /\ \A x : \A o \in BOOLEAN : There(e, x, o) => There(e, x, o)'
            \/ /\ pc'[e] = "idle"
               /\ Exports!Fault \/ <<e, w>> \in Exports!Taken
               /\ \A x : There(e, x, TRUE)' => There(e, x, TRUE)
               /\ \A x : There(e, x, FALSE) => There(e, x, FALSE)'
<1>1. /\ pc[e] \in {"export", "disks"} /\ tf'[e] = "none" /\ todo' = todo /\ want' = want
      /\ Exports!Target(e) = <<e, w>>
  BY DEF FileSafe, FileSteady, Exports!Export, Exports!Target
<1>2. CASE Exports!Target(e) \notin Exports!Taken
           /\ files' = files \cup {[path |-> Exports!Target(e), own |-> TRUE]}
           /\ Exports!Goto(e, IF pc[e] = "export" /\ want[e] = "ovf" THEN "disks" ELSE "record")
  <2>1. pc'[e] = IF pc[e] = "export" /\ want[e] = "ovf" THEN "disks" ELSE "record"
    BY <1>2 DEF FileTyped, Exports!Goto
  <2>2. There(e, w, TRUE)' /\ \A x : \A o \in BOOLEAN : There(e, x, o) => There(e, x, o)'
    BY <1>1, <1>2 DEF There
  <2>3. ASSUME NEW x, There(e, x, TRUE)' PROVE There(e, x, TRUE) \/ x = w
    <3> DEFINE f == [path |-> <<e, x>>, own |-> TRUE]
               g == [path |-> <<e, w>>, own |-> TRUE]
    <3>1. f.path = <<e, x>> /\ g.path = <<e, w>> /\ (<<e, x>> = <<e, w>> => x = w)
      OBVIOUS
    <3>2. f \in files' /\ files' = files \cup {g}
      BY <1>1, <1>2, <2>3 DEF There
    <3> HIDE DEF f, g
    <3>3. f \in files \/ x = w
      BY <3>1, <3>2
    <3> QED
      BY <3>3 DEF There, f
  <2> QED
    BY <1>1, <2>1, <2>2, <2>3
<1>3. CASE /\ Exports!Target(e) \in Exports!Taken \/ Exports!Fault
           /\ Exports!Goto(e, "idle")
           /\ files' \in {files, {f \in files : ~f.own \/ f.path # <<e, "ovf">> \/ pc[e] = "export"}}
  <2>1. pc'[e] = "idle" /\ (Exports!Fault \/ <<e, w>> \in Exports!Taken)
    BY <1>1, <1>3 DEF FileTyped, Exports!Goto
  <2>2. files' \subseteq files /\ \A f \in files : ~f.own => f \in files'
    BY <1>3
  <2>3. \A x : There(e, x, TRUE)' => There(e, x, TRUE)
    BY <2>2 DEF There
  <2>4. ASSUME NEW x, There(e, x, FALSE) PROVE There(e, x, FALSE)'
    <3> DEFINE f == [path |-> <<e, x>>, own |-> FALSE]
    <3>1. ~f.own /\ f \in files
      BY <2>4 DEF There
    <3> HIDE DEF f
    <3>2. f \in files'
      BY <2>2, <3>1
    <3> QED
      BY <3>2 DEF There, f
  <2> QED
    BY <1>1, <2>1, <2>3, <2>4
<1> QED
  BY <1>2, <1>3 DEF Exports!Export

LEMMA FileKeepsSteady ==
  ASSUME FileTyped, FileSafe, NEW e \in Bases, FileStep(e)
  PROVE  FileSteady(e)'
<1>0. /\ pc \in [Bases -> FileSteps] /\ tf \in [Bases -> Exports!Extensions \cup {"none"}]
      /\ todo \in [Bases -> SUBSET Exports!Paths] /\ want \in [Bases -> Exports!Extensions \cup {"none"}]
      /\ want[e] # "none" \/ pc[e] \notin {"export", "disks", "record"}
      /\ FileSteady(e)
  BY DEF FileTyped, FileSafe
<1>1. CASE Exports!Refresh(e)
  BY <1>0, <1>1, FileRefreshes DEF FileSteady
<1>2. CASE Exports!Export(e)
  <2>1. /\ pc[e] \in {"export", "disks"} /\ tf'[e] = "none" /\ todo' = todo /\ want' = want
        /\ \/ pc'[e] = IF pc[e] = "export" /\ want[e] = "ovf" THEN "disks" ELSE "record"
           \/ pc'[e] = "idle"
    BY <1>2, FileExports
  <2> QED
    BY <1>0, <2>1 DEF FileSteady
<1>3. CASE Exports!SetId(e) \/ Exports!Forget(e) \/ Exports!EditConfig(e)
  BY <1>0, <1>3 DEF FileSteady, Exports!SetId, Exports!Forget, Exports!EditConfig, Exports!Goto, Exports!Record
<1>4. CASE Exports!RemoveMain(e)
  BY <1>0, <1>4 DEF FileSteady, Exports!RemoveMain, Exports!Goto
<1>5. CASE Exports!Glob(e)
  <2>1. \A p \in Exports!Matches(e) : p[1] = e \/ <<e, p[1]>> \in Prefix
    BY DEF Exports!Matches
  <2>2. pc'[e] = "sweep" /\ todo'[e] = Exports!Matches(e)
    BY <1>0, <1>5 DEF Exports!Glob, Exports!Goto
  <2> QED
    BY <2>1, <2>2 DEF FileSteady
<1>6. CASE Exports!Sweep(e)
  <2>1. todo'[e] \subseteq todo[e] /\ pc'[e] \in {"sweep", "forget"}
    BY <1>0, <1>6 DEF Exports!Sweep, Exports!Goto
  <2> QED
    BY <1>0, <2>1 DEF FileSteady
<1> QED
  BY <1>1, <1>2, <1>3, <1>4, <1>5, <1>6 DEF FileStep

LEMMA FileKeepsHeld ==
  ASSUME FileTyped, FileSafe, NEW e \in Bases, FileStep(e), FileHeld(e)
  PROVE  FileHeld(e)'
<1>0. /\ pc \in [Bases -> FileSteps] /\ tf \in [Bases -> Exports!Extensions \cup {"none"}]
      /\ want \in [Bases -> Exports!Extensions \cup {"none"}]
      /\ FileSteady(e)
      /\ \A x \in Held(e) : There(e, x, TRUE)
  BY DEF FileTyped, FileSafe, FileHeld
<1>1. CASE Exports!Refresh(e)
  <2>1. Held(e)' \subseteq Held(e) /\ files' = files
    BY <1>1, FileRefreshes DEF Held, Parts
  <2> QED
    BY <1>0, <2>1 DEF FileHeld, There
<1>2. CASE Exports!Export(e)
  <2> PICK w : w = IF pc[e] = "export" THEN want[e] ELSE "vmdk"
    OBVIOUS
  <2>0. pc[e] \in {"export", "disks"} /\ tf'[e] = "none" /\ want' = want
    BY <1>2, FileExports
  <2>1. CASE pc'[e] = "idle"
    BY <2>0, <2>1 DEF FileHeld, Held, Parts
  <2>2. CASE /\ pc'[e] = IF pc[e] = "export" /\ want[e] = "ovf" THEN "disks" ELSE "record"
             /\ There(e, w, TRUE)' /\ \A x : \A o \in BOOLEAN : There(e, x, o) => There(e, x, o)'
    <3>1. Held(e)' \subseteq Held(e) \cup {w}
      BY <1>0, <2>0, <2>2 DEF Held, Parts, FileSteady
    <3> QED
      BY <1>0, <2>2, <3>1 DEF FileHeld
  <2> QED
    BY <1>2, <2>1, <2>2, FileExports
<1>3. CASE Exports!SetId(e) \/ Exports!Forget(e) \/ Exports!EditConfig(e)
  <2>1. Held(e)' \subseteq Held(e) /\ files' = files
    BY <1>0, <1>3 DEF Held, Parts, Exports!SetId, Exports!Forget, Exports!EditConfig, Exports!Goto,
         Exports!Record, Exports!AtRest
  <2> QED
    BY <1>0, <2>1 DEF FileHeld, There
<1>4. CASE Exports!RemoveMain(e) \/ Exports!Glob(e) \/ Exports!Sweep(e)
  <2>1. pc'[e] \in {"glob", "sweep", "forget"}
    BY <1>0, <1>4 DEF Exports!RemoveMain, Exports!Glob, Exports!Sweep, Exports!Goto
  <2> QED
    BY <2>1 DEF FileHeld, Held
<1> QED
  BY <1>1, <1>2, <1>3, <1>4 DEF FileStep

LEMMA FileKeepsLeft ==
  ASSUME FileTyped, FileSafe, NEW e \in Bases, FileStep(e), FileHeld(e), FileLeft(e), ~Exports!Fault
  PROVE  FileLeft(e)'
<1> DEFINE Alien == \E x \in Suffixes : There(e, x, FALSE)
<1>0. /\ pc \in [Bases -> FileSteps] /\ tf \in [Bases -> Exports!Extensions \cup {"none"}]
      /\ want \in [Bases -> Exports!Extensions \cup {"none"}] /\ todo \in [Bases -> SUBSET Exports!Paths]
      /\ FileSteady(e)
      /\ \A x \in Held(e) : There(e, x, TRUE)
      /\ (\A x \in Suffixes : There(e, x, TRUE) => x \in Left(e)) \/ (pc[e] # "sweep" /\ Alien)
  BY DEF FileTyped, FileSafe, FileHeld, FileLeft
<1>1. CASE Exports!Refresh(e)
  <2>1. tf'[e] = tf[e]
    BY <1>0, <1>1, FileRefreshes DEF Held, Parts
  <2>2. Left(e)' = Left(e) /\ files' = files /\ pc'[e] # "sweep"
    BY <1>1, <2>1, FileRefreshes DEF Left, Held
  <2> QED
    BY <1>0, <2>2 DEF FileLeft, There
<1>2. CASE Exports!Export(e)
  <2> PICK w : w = IF pc[e] = "export" THEN want[e] ELSE "vmdk"
    OBVIOUS
  <2>0. /\ pc[e] \in {"export", "disks"} /\ tf'[e] = "none" /\ want' = want
        /\ w \in Suffixes /\ w \notin Left(e)
    <3>1. pc[e] \in {"export", "disks"} /\ tf'[e] = "none" /\ want' = want
      BY <1>2, FileExports
    <3> QED
      BY <3>1 DEF FileTyped, Left, Held, Suffixes
  <2>1. CASE /\ pc'[e] = "idle"
             /\ Exports!Fault \/ <<e, w>> \in Exports!Taken
             /\ \A x : There(e, x, TRUE)' => There(e, x, TRUE)
             /\ \A x : There(e, x, FALSE) => There(e, x, FALSE)'
    <3>1. Alien
      <4>1. There(e, w, TRUE) \/ There(e, w, FALSE)
        BY <2>1, FileTaken
      <4> QED
        BY <1>0, <2>0, <4>1
    <3> QED
      BY <2>1, <3>1 DEF FileLeft
  <2>2. CASE /\ pc'[e] = IF pc[e] = "export" /\ want[e] = "ovf" THEN "disks" ELSE "record"
             /\ \A x : There(e, x, TRUE)' => There(e, x, TRUE) \/ x = w
             /\ \A x : \A o \in BOOLEAN : There(e, x, o) => There(e, x, o)'
    <3>1. Left(e) \cup {w} \subseteq Left(e)' /\ pc'[e] # "sweep"
      BY <1>0, <2>0, <2>2 DEF FileTyped, Left, Held, Parts, FileSteady
    <3> QED
      BY <1>0, <2>2, <3>1 DEF FileLeft
  <2> QED
    BY <1>2, <2>1, <2>2, FileExports
<1>3. CASE Exports!SetId(e) \/ Exports!Forget(e) \/ Exports!EditConfig(e)
  <2>1. Left(e) \subseteq Left(e)' /\ files' = files /\ pc'[e] # "sweep"
    BY <1>0, <1>3 DEF Left, Held, Parts, Exports!SetId, Exports!Forget, Exports!EditConfig, Exports!Goto,
         Exports!Record, Exports!AtRest
  <2> QED
    BY <1>0, <2>1 DEF FileLeft, There
<1>4. CASE Exports!RemoveMain(e)
  <2>1. /\ pc[e] = "remove" /\ pc'[e] = IF tf[e] = "ovf" THEN "glob" ELSE "forget"
        /\ tf[e] # "none" /\ Exports!RemoveFile(<<e, tf[e]>>)
    BY <1>0, <1>4 DEF FileTyped, Exports!RemoveMain, Exports!Goto
  <2>2. \A y : \A o \in BOOLEAN : There(e, y, o)' <=> There(e, y, o) /\ y # tf[e]
    BY <2>1, FileRemoved
  <2>3. There(e, tf[e], TRUE) /\ ~There(e, tf[e], FALSE)
    BY <1>0, <2>1, FileTaken DEF Held, Parts
  <2>4. \A x \in Left(e) : x # tf[e] => x \in Left(e)'
    BY <2>1 DEF Left, Held, Parts
  <2> QED
    BY <1>0, <2>1, <2>2, <2>3, <2>4 DEF FileLeft
<1>5. CASE Exports!Glob(e)
  <2>1. /\ files' = files /\ todo'[e] = Exports!Matches(e) /\ pc'[e] = "sweep"
    BY <1>0, <1>5 DEF Exports!Glob, Exports!Goto
  <2>2. ASSUME NEW x \in Suffixes, There(e, x, TRUE) PROVE <<e, x>> \in todo'[e]
    BY <2>1, <2>2, FileTaken DEF Exports!Matches
  <2> QED
    BY <2>1, <2>2 DEF FileLeft, Left, There
<1>6. CASE Exports!Sweep(e)
  <2>0. pc[e] = "sweep" /\ \A x \in Suffixes : There(e, x, TRUE) => <<e, x>> \in todo[e]
    BY <1>0, <1>6 DEF Exports!Sweep, Left
  <2>1. CASE todo[e] = {} /\ Exports!Goto(e, "forget") /\ files' = files
    BY <2>0, <2>1 DEF FileLeft, There
  <2>2. ASSUME NEW p \in todo[e], Exports!RemoveFile(p), todo' = [todo EXCEPT ![e] = @ \ {p}], pc' = pc
        PROVE  FileLeft(e)'
    <3>1. files' \subseteq files /\ \A f \in files' : f.path # p
      BY <2>2 DEF Exports!RemoveFile
    <3>2. ASSUME NEW x \in Suffixes, There(e, x, TRUE)' PROVE <<e, x>> \in todo'[e]
      <4> DEFINE f == [path |-> <<e, x>>, own |-> TRUE]
      <4>1. f \in files' /\ f.path = <<e, x>>
        BY <3>2 DEF There
      <4> HIDE DEF f
      <4>2. <<e, x>> # p /\ f \in files
        BY <3>1, <4>1
      <4>3. There(e, x, TRUE)
        BY <4>2 DEF There, f
      <4> QED
        BY <1>0, <2>0, <2>2, <4>2, <4>3
    <3> QED
      BY <2>0, <2>2, <3>2 DEF FileLeft, Left
  <2> QED
    BY <1>6, <2>1, <2>2 DEF Exports!Sweep
<1> QED
  BY <1>1, <1>2, <1>3, <1>4, <1>5, <1>6 DEF FileStep

LEMMA FileKeepsSafe ==
  ASSUME FileTyped, FileSafe, Exports!Next
  PROVE  FileSafe'
<1> SUFFICES ASSUME NEW e \in Bases
             PROVE  /\ FileSteady(e)'
                    /\ events' = 0 /\ ~Exports!Exposed(e) => FileHeld(e)'
                    /\ NoFailures' /\ ~Exports!Exposed(e) => FileLeft(e)'
  BY DEF FileSafe, Exports!Exposed
<1>0. /\ events' = 0 => events = 0 /\ ~Exports!Meddle
      /\ NoFailures' => NoFailures /\ events = 0 /\ ~Exports!Fault /\ ~Exports!Meddle
  <2>1. faults \in Nat /\ events \in Nat
    BY ConstantsAssumption DEF FileTyped, Counted
  <2>2. NoFailures => events = 0
    BY <2>1 DEF NoFailures
  <2> QED
    BY <2>2, FileNoFault
<1>1. /\ FileSteady(e)
      /\ events = 0 /\ ~Exports!Exposed(e) => FileHeld(e)
      /\ NoFailures /\ ~Exports!Exposed(e) => FileLeft(e)
      /\ pc \in [Bases -> FileSteps] /\ tf \in [Bases -> Exports!Extensions \cup {"none"}]
  BY DEF FileSafe, FileTyped
<1>2. CASE FileStep(e)
  BY <1>0, <1>1, <1>2, FileKeepsSteady, FileKeepsHeld, FileKeepsLeft
<1>3. ASSUME NEW b \in Bases, b # e, FileStep(b)
      PROVE  /\ FileSteady(e)'
             /\ events' = 0 /\ ~Exports!Exposed(e) => FileHeld(e)'
             /\ NoFailures' /\ ~Exports!Exposed(e) => FileLeft(e)'
  <2>1. /\ pc'[e] = pc[e] /\ tf'[e] = tf[e] /\ todo'[e] = todo[e] /\ want'[e] = want[e]
        /\ ~Exports!Exposed(e) => \A x : \A o \in BOOLEAN : There(e, x, o)' = There(e, x, o)
    BY <1>3, FileOthers
  <2>2. FileSteady(e)'
    BY <1>1, <2>1 DEF FileSteady
  <2>3. Held(e)' = Held(e) /\ Left(e)' = Left(e)
    BY <2>1 DEF Held, Left
  <2>4. events' = 0 /\ ~Exports!Exposed(e) => FileHeld(e)'
    BY <1>0, <1>1, <2>1, <2>3 DEF FileHeld
  <2>5. NoFailures' /\ ~Exports!Exposed(e) => FileLeft(e)'
    BY <1>0, <1>1, <2>1, <2>3 DEF FileLeft
  <2> QED
    BY <2>2, <2>4, <2>5
<1>4. CASE Exports!Start \/ Exports!Plan
  <2>1. UNCHANGED <<want, tf, files, todo>>
    BY <1>4 DEF Exports!Start, Exports!Plan
  <2>2. pc'[e] \in {"export", "disks", "record"} => tf[e] = "none" /\ pc'[e] = "export"
    BY <1>4 DEF Exports!Start, Exports!Plan, Exports!Planned
  <2>3. Held(e)' = Held(e) /\ Left(e)' = Left(e) /\ pc[e] # "sweep" /\ pc'[e] # "sweep"
    <3>1. pc[e] \in {"idle", "clean", "plan"}
      BY <1>4 DEF Exports!Start, Exports!Plan, Exports!AtRest
    <3>2. pc'[e] \in {"refresh", "clean", "remove"} \/ (pc'[e] = "export" /\ tf[e] = "none")
      BY <1>4 DEF Exports!Start, Exports!Plan, Exports!Planned
    <3> QED
      BY <2>1, <3>1, <3>2 DEF Held, Left, Parts
  <2>4. FileSteady(e)'
    BY <1>1, <2>1, <2>2 DEF FileSteady
  <2>5. FileHeld(e) => FileHeld(e)'
    BY <2>1, <2>3 DEF FileHeld, There
  <2>6. FileLeft(e) => FileLeft(e)'
    BY <2>1, <2>3 DEF FileLeft, There
  <2> QED
    BY <1>0, <1>1, <2>4, <2>5, <2>6
<1>5. CASE Exports!Meddle
  <2>1. UNCHANGED <<want, tf, todo, pc>>
    BY <1>5 DEF Exports!Meddle
  <2> QED
    BY <1>0, <1>1, <1>5, <2>1 DEF FileSteady
<1> QED
  BY <1>2, <1>3, <1>4, <1>5 DEF Exports!Next, Exports!Apply, Exports!Reads, FileStep

LEMMA FileStartsSafe ==
  ASSUME Exports!Init
  PROVE  FileSafe
<1> SUFFICES ASSUME NEW e \in Bases
             PROVE  FileSteady(e) /\ FileHeld(e) /\ FileLeft(e)
  BY DEF FileSafe
<1>1. pc[e] = "idle" /\ tf[e] = "none" /\ todo[e] = {} /\ \A f \in files : f.own = FALSE
  BY DEF Exports!Init
<1>2. \A x : ~There(e, x, TRUE)
  BY <1>1 DEF There
<1> QED
  BY <1>1, <1>2 DEF FileSteady, FileHeld, FileLeft, Held, Left, Parts

LEMMA FileSafeMeansWhole ==
  ASSUME FileTyped, FileSafe
  PROVE  Exports!ExportsAreWhole
<1> SUFFICES ASSUME events = 0, NEW e \in Bases, pc[e] \in {"idle", "clean"}, tf[e] # "none",
                    ~Exports!Exposed(e)
             PROVE  Exports!Whole(e)
  BY DEF Exports!ExportsAreWhole
<1>1. \A x \in Parts(tf[e]) : There(e, x, TRUE)
  BY DEF FileSafe, FileHeld, Held
<1> QED
  BY <1>1 DEF Parts, There, Exports!Whole

LEMMA FileSafeMeansNoLoss ==
  ASSUME FileTyped, FileSafe
  PROVE  Exports!LossesComeFromFailures
<1> SUFFICES ASSUME NEW e \in Bases, pc[e] \in {"idle", "clean"}, tf[e] = "none", ~Exports!Exposed(e),
                    NEW f \in files, f.own, f.path[1] = e, ~(faults + events > 0)
             PROVE  \E g \in files : ~g.own /\ g.path[1] = e
  BY DEF Exports!LossesComeFromFailures
<1>1. NoFailures
  BY ConstantsAssumption DEF FileTyped, Counted, NoFailures
<1>2. f \in Exports!Files /\ f.path = <<e, f.path[2]>> /\ f.path[2] \in Suffixes
  BY DEF FileTyped, Exports!Files, Exports!Paths, Suffixes
<1>3. f = [path |-> f.path, own |-> TRUE]
  BY <1>2 DEF Exports!Files
<1>4. There(e, f.path[2], TRUE)
  BY <1>2, <1>3 DEF There
<1>5. Left(e) = {}
  BY DEF Left, Held, Parts
<1>6. PICK x \in Suffixes : There(e, x, FALSE)
  BY <1>1, <1>2, <1>4, <1>5 DEF FileSafe, FileLeft
<1> DEFINE g == [path |-> <<e, x>>, own |-> FALSE]
<1>7. ~g.own /\ g.path[1] = e /\ g \in files
  BY <1>6 DEF There
<1> HIDE DEF g
<1> QED
  BY <1>7

-----------------------------------------------------------------------------
(* The lists. The blocks with a name are numbered by how many of them are  *)
(* at or before their positions; a block that is appended gets the next    *)
(* number, if it has a name.                                               *)

Have(s)    == {i \in DOMAIN s : Lists!HasName(s[i])}
Rank(S, i) == Cardinality(Lists!Before(S, i))
Ranked(s)  == /\ IsFiniteSet(Have(s))
              /\ \A i \in Have(s) : Rank(Have(s), i) \in 1..Cardinality(Have(s))
              /\ \A i, j \in Have(s) : Rank(Have(s), i) = Rank(Have(s), j) => i = j
              /\ \A k \in 1..Cardinality(Have(s)) : \E i \in Have(s) : Rank(Have(s), i) = k

LEMMA ListCounts ==
  ASSUME NEW S
  PROVE  Lists!Cardinality(S) = Cardinality(S)
BY DEF Lists!Cardinality, Cardinality

(* The k-th block with a name.                                             *)
LEMMA NamedAt ==
  ASSUME NEW s \in Seq(Lists!Blocks), Ranked(s)
  PROVE  /\ Cardinality(Have(s)) \in Nat
         /\ Lists!Named(s) \in Seq(Lists!Blocks)
         /\ Len(Lists!Named(s)) = Cardinality(Have(s))
         /\ \A i \in Have(s) : Lists!Named(s)[Rank(Have(s), i)] = s[i]
<1> DEFINE S == Have(s)
           c == Cardinality(Have(s))
           place(k) == CHOOSE i \in S : Lists!Cardinality(Lists!Before(S, i)) = k
<1>1. c \in Nat
  BY FS_CardinalityType DEF Ranked
<1>2. Lists!Named(s) = [k \in 1..c |-> s[place(k)]]
  BY ListCounts DEF Lists!Named, Have
<1>3. \A k \in 1..c : place(k) \in S /\ Rank(S, place(k)) = k
  <2> SUFFICES ASSUME NEW k \in 1..c PROVE place(k) \in S /\ Rank(S, place(k)) = k
    OBVIOUS
  <2>1. \E i \in S : Lists!Cardinality(Lists!Before(S, i)) = k
    BY ListCounts DEF Ranked, Rank
  <2>2. PICK p : p = place(k)
    OBVIOUS
  <2>3. p \in S /\ Lists!Cardinality(Lists!Before(S, p)) = k
    BY <2>1, <2>2
  <2> QED
    BY <2>2, <2>3, ListCounts DEF Rank
<1>4. \A i \in S : s[i] \in Lists!Blocks
  BY DEF Have
<1> HIDE DEF c, place, S
<1>5. Lists!Named(s) \in Seq(Lists!Blocks) /\ Len(Lists!Named(s)) = c
  <2>1. \A k \in 1..c : s[place(k)] \in Lists!Blocks
    BY <1>3, <1>4
  <2>2. [k \in 1..c |-> s[place(k)]] \in Seq(Lists!Blocks)
    BY <1>1, <2>1
  <2> QED
    BY <1>1, <1>2, <2>2
<1>6. ASSUME NEW i \in S
      PROVE  Lists!Named(s)[Rank(S, i)] = s[i]
  <2>1. Rank(S, i) \in 1..c
    BY DEF Ranked, S, c
  <2>2. place(Rank(S, i)) = i
    BY <1>3, <2>1 DEF Ranked, S
  <2> QED
    BY <1>2, <2>1, <2>2
<1> QED
  BY <1>1, <1>5, <1>6 DEF S, c

LEMMA NamedAppend ==
  ASSUME NEW s \in Seq(Lists!Blocks), NEW b \in Lists!Blocks, Ranked(s)
  PROVE  /\ Ranked(Append(s, b))
         /\ Lists!Named(Append(s, b)) = IF Lists!HasName(b) THEN Append(Lists!Named(s), b) ELSE Lists!Named(s)
<1> DEFINE t == Append(s, b)
           m == Len(s) + 1
           S == Have(s)
           T == Have(t)
           c == Cardinality(S)
<1>1. t \in Seq(Lists!Blocks) /\ DOMAIN t = 1..m /\ t[m] = b /\ \A i \in DOMAIN s : t[i] = s[i]
  OBVIOUS
<1>2. DOMAIN s = 1..Len(s) /\ Len(s) \in Nat /\ \A i \in S : i \in Nat /\ i < m
  BY DEF Have
<1>3. c \in Nat /\ IsFiniteSet(S)
  BY FS_CardinalityType DEF Ranked
<1>4. CASE ~Lists!HasName(b)
  <2>1. T = S
    BY <1>1, <1>2, <1>4 DEF Have
  <2>2. Ranked(t)
    BY <2>1 DEF Ranked
  <2> DEFINE f == Lists!Named(s)
             g == Lists!Named(t)
  <2>3. /\ f \in Seq(Lists!Blocks) /\ Len(f) = c /\ \A i \in S : f[Rank(S, i)] = s[i]
        /\ g \in Seq(Lists!Blocks) /\ Len(g) = c /\ \A i \in S : g[Rank(S, i)] = t[i]
    <3>1. f \in Seq(Lists!Blocks) /\ Len(f) = c /\ \A i \in S : f[Rank(S, i)] = s[i]
      BY NamedAt
    <3>2. g \in Seq(Lists!Blocks) /\ Len(g) = Cardinality(T) /\ \A i \in T : g[Rank(T, i)] = t[i]
      BY <1>1, <2>2, NamedAt
    <3> HIDE DEF f, g, S, T
    <3> QED
      BY <2>1, <3>1, <3>2 DEF c
  <2>4. \A k \in 1..c : f[k] = g[k]
    <3> SUFFICES ASSUME NEW k \in 1..c PROVE f[k] = g[k]
      OBVIOUS
    <3>1. PICK i \in S : Rank(S, i) = k
      BY DEF Ranked
    <3>2. f[k] = s[i] /\ g[k] = t[i]
      BY <2>3, <3>1
    <3>3. s[i] = t[i]
      BY <1>1 DEF Have
    <3> QED
      BY <3>2, <3>3
  <2> HIDE DEF f, g, c, S
  <2>5. f = g
    BY <2>3, <2>4
  <2> QED
    BY <1>4, <2>2, <2>5 DEF f, g
<1>5. CASE Lists!HasName(b)
  <2>1. T = S \cup {m} /\ m \notin S
    BY <1>1, <1>2, <1>5 DEF Have
  <2>2. IsFiniteSet(T) /\ Cardinality(T) = c + 1
    BY <1>3, <2>1, FS_AddElement
  <2>3. \A i \in S : Lists!Before(T, i) = Lists!Before(S, i)
    BY <1>2, <2>1 DEF Lists!Before
  <2>4. Lists!Before(T, m) = T
    BY <1>2, <2>1 DEF Lists!Before
  <2>5. \A i \in S : Rank(T, i) = Rank(S, i)
    BY <2>3 DEF Rank
  <2>6. Rank(T, m) = c + 1
    BY <2>2, <2>4 DEF Rank
  <2>7. /\ \A i \in S : Rank(S, i) \in 1..c
        /\ \A i, j \in S : Rank(S, i) = Rank(S, j) => i = j
        /\ \A k \in 1..c : \E i \in S : Rank(S, i) = k
    BY DEF Ranked
  <2>8. Ranked(t)
    <3> HIDE DEF c, S, m
    <3>1. \A i \in T : Rank(T, i) \in 1..(c + 1)
      <4> SUFFICES ASSUME NEW i \in T PROVE Rank(T, i) \in 1..(c + 1)
        OBVIOUS
      <4>1. CASE i = m
        BY <1>3, <2>6, <4>1
      <4>2. CASE i \in S
        <5>1. Rank(T, i) \in 1..c
          BY <2>5, <2>7, <4>2
        <5> QED
          BY <1>3, <5>1
      <4> QED
        BY <2>1, <4>1, <4>2
    <3>2. \A i, j \in T : Rank(T, i) = Rank(T, j) => i = j
      <4>1. \A i \in S : Rank(S, i) # c + 1
        BY <1>3, <2>7
      <4> QED
        BY <2>1, <2>5, <2>6, <2>7, <4>1
    <3>3. \A k \in 1..(c + 1) : \E i \in T : Rank(T, i) = k
      <4> SUFFICES ASSUME NEW k \in 1..(c + 1) PROVE \E i \in T : Rank(T, i) = k
        OBVIOUS
      <4>1. CASE k = c + 1
        BY <2>1, <2>6, <4>1
      <4>2. CASE k # c + 1
        <5>1. k \in 1..c
          BY <1>3, <4>2
        <5>2. PICK i \in S : Rank(S, i) = k
          BY <2>7, <5>1
        <5> QED
          BY <2>1, <2>5, <5>2
      <4> QED
        BY <4>1, <4>2
    <3> QED
      BY <2>2, <3>1, <3>2, <3>3 DEF Ranked
  <2> DEFINE f == Lists!Named(s)
             g == Lists!Named(t)
  <2>9. /\ f \in Seq(Lists!Blocks) /\ Len(f) = c /\ \A i \in S : f[Rank(S, i)] = s[i]
        /\ g \in Seq(Lists!Blocks) /\ Len(g) = c + 1 /\ \A i \in T : g[Rank(T, i)] = t[i]
    BY <1>1, <2>2, <2>8, NamedAt
  <2>10. \A k \in 1..c : g[k] = f[k]
    <3> SUFFICES ASSUME NEW k \in 1..c PROVE g[k] = f[k]
      OBVIOUS
    <3>1. PICK i \in S : Rank(S, i) = k
      BY <2>7
    <3>2. f[k] = s[i] /\ g[k] = t[i]
      BY <2>1, <2>5, <2>9, <3>1
    <3>3. s[i] = t[i]
      BY <1>1 DEF Have
    <3> QED
      BY <3>2, <3>3
  <2>11. g[c + 1] = b
    BY <1>1, <2>1, <2>6, <2>9
  <2> HIDE DEF f, g, c, S
  <2>12. g = Append(f, b)
    BY <1>3, <2>9, <2>10, <2>11
  <2> QED
    BY <1>5, <2>8, <2>12 DEF f, g
<1> QED
  BY <1>4, <1>5

(* The first block of a name stays the first.                              *)
Called(s, n) == {i \in DOMAIN s : s[i]["Name"] = n}
Least(s, n)  == Called(s, n) = {} \/ \E i \in Called(s, n) : \A j \in Called(s, n) : i <= j

LEMMA FirstAppend ==
  ASSUME NEW s \in Seq(Lists!Blocks), NEW b \in Lists!Blocks, NEW n \in Lists!Values, Least(s, n)
  PROVE  /\ Least(Append(s, b), n)
         /\ Lists!FirstNamed(Append(s, b), n) =
              IF Called(s, n) # {} THEN Lists!FirstNamed(s, n)
              ELSE IF b["Name"] = n THEN b ELSE Lists!Nothing
<1> DEFINE t == Append(s, b)
           m == Len(s) + 1
           S == Called(s, n)
           T == Called(t, n)
<1>1. /\ t \in Seq(Lists!Blocks) /\ DOMAIN t = 1..m /\ t[m] = b /\ \A i \in DOMAIN s : t[i] = s[i]
      /\ DOMAIN s = 1..Len(s) /\ Len(s) \in Nat
  OBVIOUS
<1>2. T = IF b["Name"] = n THEN S \cup {m} ELSE S
  BY <1>1 DEF Called
<1>3. \A i \in S : i \in Nat /\ i < m /\ i \in DOMAIN s
  BY <1>1 DEF Called
<1>4. CASE S # {}
  <2>1. PICK i \in S : \A j \in S : i <= j
    BY <1>4 DEF Least
  <2>2. i \in T /\ \A j \in T : i <= j
    BY <1>1, <1>2, <1>3, <2>1
  <2>3. (CHOOSE k \in S : \A j \in S : k <= j) = i
    <3>1. \A k \in S : (\A j \in S : k <= j) => k = i
      BY <1>3, <2>1
    <3> QED
      BY <2>1, <3>1
  <2>4. (CHOOSE k \in T : \A j \in T : k <= j) = i
    <3>1. \A k \in T : (\A j \in T : k <= j) => k = i
      BY <1>1, <1>2, <1>3, <2>2
    <3> QED
      BY <2>2, <3>1
  <2>5. Lists!FirstNamed(s, n) = s[i]
    BY <1>4, <2>3 DEF Lists!FirstNamed, Called
  <2>6. Lists!FirstNamed(t, n) = t[i]
    BY <2>2, <2>4 DEF Lists!FirstNamed, Called
  <2>7. t[i] = s[i]
    BY <1>1, <1>3, <2>1
  <2> QED
    BY <1>4, <2>2, <2>5, <2>6, <2>7 DEF Least
<1>5. CASE S = {} /\ b["Name"] = n
  <2>1. T = {m}
    BY <1>2, <1>5
  <2>2. (CHOOSE k \in T : \A j \in T : k <= j) = m
    BY <1>1, <2>1
  <2>3. Lists!FirstNamed(t, n) = t[m]
    BY <2>1, <2>2 DEF Lists!FirstNamed, Called
  <2> QED
    BY <1>1, <1>5, <2>1, <2>3 DEF Least
<1>6. CASE S = {} /\ b["Name"] # n
  <2>1. T = {}
    BY <1>2, <1>6
  <2> QED
    BY <1>6, <2>1 DEF Lists!FirstNamed, Called, Least
<1> QED
  BY <1>4, <1>5, <1>6

(* What the parsers have in common: the data sources the current block and *)
(* the blocks with a name; all but the resource the same list of what      *)
(* VirtualBox prints, where a block that has begun has its name; and the   *)
(* resource the first block of each name, if no blank line misleads it.    *)

NoWhite == \A i \in DOMAIN text : text[i].key # "white"
Open    == text # <<>> /\ ~Lists!Blank(text[Len(text)])

SourcesAgree(p, q) == /\ p.block = q.block /\ Ranked(p.list) /\ Lists!Named(p.list) = q.list
WrapperAgrees      == Lists!WellFormed =>
                        /\ listed = shown
                        /\ IF Open THEN Lists!HasName(shown.block) ELSE shown.block = Lists!Nothing
FindsSame(p, q)    == /\ p.block = q.block
                      /\ \A n \in Lists!Values : /\ Least(p.list, n) /\ Least(q.list, n)
                                                 /\ Called(p.list, n) = {} <=> Called(q.list, n) = {}
                                                 /\ Lists!FirstNamed(p.list, n) = Lists!FirstNamed(q.list, n)

ListSafe == SourcesAgree(blocks, shown) /\ WrapperAgrees /\ (NoWhite => FindsSame(split, shown))

LEMMA NothingHasNoName == ~Lists!HasName(Lists!Nothing) /\ Lists!Nothing["Name"] = 0
BY DEF Lists!HasName, Lists!Nothing, Lists!Keys

LEMMA SourcesClose ==
  ASSUME NEW p \in Lists!Parsers, NEW q \in Lists!Parsers, SourcesAgree(p, q)
  PROVE  SourcesAgree(Lists!Close(p), Lists!CloseNamed(q))
<1> DEFINE b == p.block
           s == p.list
<1>1. s \in Seq(Lists!Blocks) /\ b \in Lists!Blocks /\ q.block = b /\ Ranked(s) /\ Lists!Named(s) = q.list
  BY DEF Lists!Parsers, SourcesAgree
<1>2. CASE b = Lists!Nothing
  BY <1>1, <1>2, NothingHasNoName DEF Lists!Close, Lists!CloseNamed, SourcesAgree
<1>3. CASE b # Lists!Nothing
  <2>1. Lists!Close(p).list = Append(s, b) /\ Lists!Close(p).block = Lists!Nothing
    BY <1>3 DEF Lists!Close
  <2>2. /\ Lists!CloseNamed(q).list = IF Lists!HasName(b) THEN Append(q.list, b) ELSE q.list
        /\ Lists!CloseNamed(q).block = Lists!Nothing
    BY <1>1 DEF Lists!CloseNamed
  <2> HIDE DEF b, s
  <2> QED
    BY <1>1, <2>1, <2>2, NamedAppend DEF SourcesAgree
<1> QED
  BY <1>2, <1>3

LEMMA SplitCloses ==
  ASSUME NEW p \in Lists!Parsers, NEW q \in Lists!Parsers, FindsSame(p, q)
  PROVE  FindsSame(Lists!Close(p), Lists!CloseNamed(q))
<1> DEFINE b == p.block
           s == p.list
           r == q.list
<1>1. /\ s \in Seq(Lists!Blocks) /\ r \in Seq(Lists!Blocks) /\ b \in Lists!Blocks /\ q.block = b
      /\ \A n \in Lists!Values : /\ Least(s, n) /\ Least(r, n)
                                 /\ Called(s, n) = {} <=> Called(r, n) = {}
                                 /\ Lists!FirstNamed(s, n) = Lists!FirstNamed(r, n)
  BY DEF Lists!Parsers, FindsSame
<1>2. CASE b = Lists!Nothing
  BY <1>1, <1>2, NothingHasNoName DEF Lists!Close, Lists!CloseNamed, FindsSame
<1>3. CASE b # Lists!Nothing
  <2>1. Lists!Close(p).list = Append(s, b) /\ Lists!Close(p).block = Lists!Nothing
    BY <1>3 DEF Lists!Close
  <2>2. /\ Lists!CloseNamed(q).list = IF Lists!HasName(b) THEN Append(r, b) ELSE r
        /\ Lists!CloseNamed(q).block = Lists!Nothing
    BY <1>1 DEF Lists!CloseNamed
  <2> HIDE DEF b, s, r
  <2>3. ASSUME NEW n \in Lists!Values
        PROVE  /\ \A l \in Seq(Lists!Blocks) :
                    /\ Called(Append(l, b), n) = {} <=> Called(l, n) = {} /\ b["Name"] # n
                    /\ Least(l, n) =>
                         /\ Least(Append(l, b), n)
                         /\ Lists!FirstNamed(Append(l, b), n) =
                              IF Called(l, n) # {} THEN Lists!FirstNamed(l, n)
                              ELSE IF b["Name"] = n THEN b ELSE Lists!Nothing
               /\ ~Lists!HasName(b) => b["Name"] # n
    <3>1. ASSUME NEW l \in Seq(Lists!Blocks)
          PROVE  Called(Append(l, b), n) = {} <=> Called(l, n) = {} /\ b["Name"] # n
      <4>1. /\ DOMAIN Append(l, b) = DOMAIN l \cup {Len(l) + 1} /\ Append(l, b)[Len(l) + 1] = b
            /\ \A i \in DOMAIN l : Append(l, b)[i] = l[i]
        OBVIOUS
      <4> QED
        BY <4>1 DEF Called
    <3>2. ~Lists!HasName(b) => b["Name"] # n
      BY DEF Lists!HasName, Lists!Values
    <3> QED
      BY <1>1, <3>1, <3>2, FirstAppend
  <2>4. ASSUME NEW n \in Lists!Values, Called(r, n) = {}
        PROVE  Lists!FirstNamed(r, n) = Lists!Nothing
    BY <2>4 DEF Called, Lists!FirstNamed
  <2>5. CASE Lists!HasName(b)
    BY <1>1, <2>1, <2>2, <2>3, <2>5 DEF FindsSame
  <2>6. CASE ~Lists!HasName(b)
    BY <1>1, <2>1, <2>2, <2>3, <2>4, <2>6 DEF FindsSame
  <2> QED
    BY <2>5, <2>6
<1> QED
  BY <1>2, <1>3

(* A line of what VirtualBox prints that is not blank is put into the      *)
(* current block by all of them.                                           *)
LEMMA StartIsPut ==
  ASSUME NEW b \in Lists!Blocks, NEW l \in Lists!Lines, ~Lists!Blank(l),
         l.key = "Name" => b = Lists!Nothing, l.key # "Name" => Lists!HasName(b)
  PROVE  Lists!StartOrPut(b, l) = Lists!Put(b, l) /\ Lists!HasName(Lists!Put(b, l))
<1>1. CASE l.key = "junk"
  BY <1>1 DEF Lists!StartOrPut, Lists!Put
<1>2. CASE l.key \in Lists!Keys
  <2>1. l.value # 0 /\ l.key # "junk"
    BY <1>2 DEF Lists!Lines, Lists!Keys, Lists!Values
  <2>2. Lists!StartOrPut(b, l) = Lists!Put(b, l)
    BY <2>1 DEF Lists!StartOrPut
  <2>3. Lists!Put(b, l) = [b EXCEPT ![l.key] = l.value] /\ "Name" \in DOMAIN b
    BY <2>1 DEF Lists!Put, Lists!Blocks, Lists!Keys
  <2> QED
    BY <2>1, <2>2, <2>3 DEF Lists!HasName
<1> QED
  BY <1>1, <1>2 DEF Lists!Lines, Lists!Blank

LEMMA ListKeepsWrapper ==
  ASSUME ListTyped, WrapperAgrees, Lists!Next
  PROVE  WrapperAgrees'
<1>1. PICK l \in Lists!Lines :
        /\ text' = Append(text, l)
        /\ shown' = Lists!ReadShown(shown, l) /\ listed' = Lists!ReadListed(listed, l)
  BY DEF Lists!Next, Lists!PrintLine
<1> DEFINE m == Len(text) + 1
<1>2. /\ m \in Nat /\ DOMAIN text = 1..(m - 1) /\ DOMAIN text' = 1..m /\ Len(text') = m
      /\ text'[m] = l /\ \A i \in 1..(m - 1) : text'[i] = text[i]
      /\ m = 1 <=> text = <<>>
  BY <1>1 DEF ListTyped
<1>3. text' # <<>> /\ (Open' <=> ~Lists!Blank(l))
  BY <1>2 DEF Open
<1>4. Open <=> m > 1 /\ ~Lists!Blank(text[m - 1])
  BY <1>2 DEF Open
<1> SUFFICES ASSUME Lists!WellFormed'
             PROVE  /\ listed' = shown'
                    /\ IF Open' THEN Lists!HasName(shown'.block) ELSE shown'.block = Lists!Nothing
  BY DEF WrapperAgrees
<1> HIDE DEF m
<1>5. /\ ~Lists!Blank(l) => (~Open <=> l.key = "Name")
      /\ Lists!WellFormed
  <2>1. \A i \in 1..m : ~Lists!Blank(text'[i]) =>
                          ((i = 1 \/ Lists!Blank(text'[i - 1])) <=> text'[i].key = "Name")
    BY <1>2 DEF Lists!WellFormed, Lists!Starts
  <2>2. ~Lists!Blank(l) => (~Open <=> l.key = "Name")
    <3>1. m \in 1..m /\ (m > 1 => m - 1 \in 1..(m - 1)) /\ (m > 1 \/ m = 1)
      BY <1>2 DEF m
    <3> QED
      BY <1>2, <1>4, <2>1, <3>1
  <2>3. ASSUME NEW i \in DOMAIN text, ~Lists!Blank(text[i])
        PROVE  Lists!Starts(i) <=> text[i].key = "Name"
    <3>1. i \in 1..m /\ i \in 1..(m - 1) /\ (i = 1 \/ i - 1 \in 1..(m - 1))
      BY <1>2, <2>3
    <3> QED
      BY <1>2, <2>1, <2>3, <3>1 DEF Lists!Starts
  <2> QED
    BY <2>2, <2>3 DEF Lists!WellFormed
<1>6. /\ listed = shown
      /\ IF Open THEN Lists!HasName(shown.block) ELSE shown.block = Lists!Nothing
  BY <1>5 DEF WrapperAgrees
<1>7. shown \in Lists!Parsers /\ shown.block \in Lists!Blocks
  BY DEF ListTyped, Lists!Parsers
<1>8. CASE Lists!Blank(l)
  BY <1>1, <1>3, <1>6, <1>8 DEF Lists!ReadShown, Lists!ReadListed, Lists!CloseNamed
<1>9. CASE ~Lists!Blank(l)
  <2> DEFINE b == shown.block
  <2>1. /\ l.key = "Name" => b = Lists!Nothing
        /\ l.key # "Name" => Lists!HasName(b)
    BY <1>5, <1>6, <1>9
  <2>2. Lists!StartOrPut(b, l) = Lists!Put(b, l) /\ Lists!HasName(Lists!Put(b, l))
    BY <1>7, <1>9, <2>1, StartIsPut
  <2>3. shown' = [shown EXCEPT !.block = Lists!Put(b, l)] /\ listed' = [listed EXCEPT !.block = Lists!StartOrPut(@, l)]
    BY <1>1, <1>9 DEF Lists!ReadShown, Lists!ReadListed
  <2>4. shown'.block = Lists!Put(b, l)
    BY <1>7, <2>3 DEF Lists!Parsers
  <2> QED
    BY <1>3, <1>6, <1>9, <2>2, <2>3, <2>4
<1> QED
  BY <1>8, <1>9

LEMMA ListKeepsSafe ==
  ASSUME ListTyped, ListSafe, Lists!Next
  PROVE  ListSafe'
<1>1. PICK l \in Lists!Lines :
        /\ text' = Append(text, l)
        /\ blocks' = Lists!ReadBlock(blocks, l) /\ shown' = Lists!ReadShown(shown, l)
        /\ split' = Lists!ReadSplit(split, l)
  BY DEF Lists!Next, Lists!PrintLine
<1>2. blocks \in Lists!Parsers /\ shown \in Lists!Parsers /\ split \in Lists!Parsers
  BY DEF ListTyped
<1>3. NoWhite' => NoWhite /\ l.key # "white"
  <2>1. /\ Len(text) + 1 \in DOMAIN text' /\ text'[Len(text) + 1] = l
        /\ \A i \in DOMAIN text : i \in DOMAIN text' /\ text'[i] = text[i]
    BY <1>1 DEF ListTyped
  <2> QED
    BY <2>1 DEF NoWhite
<1>4. SourcesAgree(blocks', shown')
  <2>1. CASE Lists!Blank(l)
    BY <1>1, <1>2, <2>1, SourcesClose DEF ListSafe, Lists!ReadBlock, Lists!ReadShown
  <2>2. CASE ~Lists!Blank(l)
    BY <1>1, <1>2, <2>2 DEF ListSafe, Lists!ReadBlock, Lists!ReadShown, SourcesAgree, Lists!Parsers
  <2> QED
    BY <2>1, <2>2
<1>5. ASSUME NoWhite' PROVE FindsSame(split', shown')
  <2>1. FindsSame(split, shown) /\ l.key # "white"
    BY <1>3, <1>5 DEF ListSafe
  <2>2. CASE l.key = "empty"
    BY <1>1, <1>2, <2>1, <2>2, SplitCloses DEF Lists!ReadSplit, Lists!ReadShown, Lists!Blank
  <2>3. CASE l.key # "empty"
    <3>1. /\ split' = [split EXCEPT !.block = Lists!Put(@, l)]
          /\ shown' = [shown EXCEPT !.block = Lists!Put(@, l)]
      BY <1>1, <2>1, <2>3 DEF Lists!ReadSplit, Lists!ReadShown, Lists!Blank
    <3>2. /\ split'.list = split.list /\ split'.block = Lists!Put(split.block, l)
          /\ shown'.list = shown.list /\ shown'.block = Lists!Put(shown.block, l)
      BY <1>2, <3>1 DEF Lists!Parsers
    <3> QED
      BY <2>1, <3>2 DEF FindsSame
  <2> QED
    BY <2>2, <2>3
<1>6. WrapperAgrees'
  BY ListKeepsWrapper DEF ListSafe
<1> QED
  BY <1>4, <1>5, <1>6 DEF ListSafe

LEMMA ListStartsSafe ==
  ASSUME Lists!Init
  PROVE  ListSafe
<1>1. /\ text = <<>> /\ blocks = Lists!Fresh /\ shown = Lists!Fresh
      /\ listed = Lists!Fresh /\ split = Lists!Fresh
  BY DEF Lists!Init
<1> DEFINE none == <<>>
<1>2. Lists!Fresh.list = none /\ Lists!Fresh.block = Lists!Nothing /\ DOMAIN none = {} /\ Have(none) = {}
  BY DEF Lists!Fresh, Have
<1>3. Lists!Cardinality({}) = 0
  BY FS_EmptySet DEF Lists!Cardinality, Cardinality
<1>4. Ranked(none)
  <2>1. IsFiniteSet({}) /\ Cardinality({}) = 0
    BY FS_EmptySet
  <2> HIDE DEF none
  <2> QED
    BY <1>2, <2>1 DEF Ranked
<1>5. Lists!Named(none) = none
  <2>1. Lists!Named(none) = [k \in 1..0 |-> none[CHOOSE i \in {} : Lists!Cardinality(Lists!Before({}, i)) = k]]
    BY <1>2, <1>3 DEF Lists!Named, Have
  <2> QED
    BY <2>1
<1>6. SourcesAgree(blocks, shown)
  BY <1>1, <1>2, <1>4, <1>5 DEF SourcesAgree
<1>7. FindsSame(split, shown)
  BY <1>1, <1>2 DEF FindsSame, Least, Called
<1>8. WrapperAgrees
  BY <1>1, <1>2 DEF WrapperAgrees, Open
<1> QED
  BY <1>6, <1>7, <1>8 DEF ListSafe

LEMMA ListSafeMeansAgree ==
  ASSUME ListTyped, ListSafe
  PROVE  Lists!ParsersAgree
<1>1. blocks \in Lists!Parsers /\ shown \in Lists!Parsers /\ split \in Lists!Parsers
  BY DEF ListTyped
<1>2. Lists!HostOnlyBlocks = Lists!InterfaceBlocks
  BY <1>1, SourcesClose DEF ListSafe, Lists!HostOnlyBlocks, Lists!InterfaceBlocks, SourcesAgree
<1>3. Lists!WellFormed => Lists!ListedIFs = Lists!InterfaceBlocks
  BY DEF ListSafe, WrapperAgrees, Lists!ListedIFs, Lists!InterfaceBlocks
<1>4. NoWhite => \A n \in Lists!Values : Lists!Interface(n) = Lists!FirstNamed(Lists!InterfaceBlocks, n)
  BY <1>1, SplitCloses DEF ListSafe, FindsSame, Lists!Interface, Lists!InterfaceBlocks
<1> QED
  BY <1>2, <1>3, <1>4 DEF Lists!ParsersAgree, NoWhite

-----------------------------------------------------------------------------
(* All of them together.                                                   *)

Safe == /\ kind = "nat" => NatSafe
        /\ kind = "hostonly" => HostSafe /\ HostPaid /\ HostRanges
        /\ kind = "disk" => DiskSafe
        /\ kind = "snapshot" => SnapOwn /\ SnapKept
        /\ kind = "export" => FileSafe
        /\ kind = "list" => ListSafe

LEMMA SafeStarts ==
  ASSUME Init
  PROVE  Safe
BY NatStartsSafe, HostStartsSafe, HostStartsPaid, HostStartsRanges, DiskStartsSafe, SnapStarts, FileStartsSafe,
   ListStartsSafe DEF Init, Safe

LEMMA SafeStutters ==
  ASSUME Safe, UNCHANGED vars
  PROVE  Safe'
<1> USE DEF vars, shared, natVars, hostVars, snapVars, fileVars, listVars, NoFailures
<1>1. NatSafe => NatSafe'
  BY DEF NatSafe, NatRecorded, NatNet!CleanPlanMeansSettings, NatNet!Found, NatNet!NoRules, NatNet!Rules
<1>2. HostSafe => HostSafe'
  BY DEF HostSafe, HostSeen, HostAlone, HostRecorded, HostAsWanted
<1>3. HostPaid => HostPaid'
  <2>1. Debt' = Debt
    BY DEF Debt, Owes, HostOnly!Known, HostBuilding
  <2>2. HostWorking' = HostWorking /\ Cardinality(Debt)' = Cardinality(Debt)
    BY <2>1 DEF HostWorking, HostBuilding
  <2>3. faults' = faults /\ events' = events /\ tf' = tf /\ pc' = pc /\ iface' = iface
    OBVIOUS
  <2> QED
    BY <2>2, <2>3, Zenon DEF HostPaid
<1>9. HostRanges => HostRanges'
  BY DEF HostRanges, HostRanged, HostOnly!Rangeless, HostOnly!Wanted
<1>4. DiskSafe => DiskSafe'
  BY DEF DiskSafe
<1>5. SnapOwn /\ SnapKept => (SnapOwn /\ SnapKept)'
  BY DEF SnapOwn, SnapKept
<1>6. FileSafe => FileSafe'
  BY DEF FileSafe, FileSteady, FileHeld, FileLeft, Held, Left, There, Exports!Exposed
<1>7. ListSafe => ListSafe'
  BY DEF ListSafe, WrapperAgrees, Lists!WellFormed, Lists!Starts, Open, NoWhite
<1>8. kind' = kind
  OBVIOUS
<1> QED
  BY <1>1, <1>2, <1>3, <1>4, <1>5, <1>6, <1>7, <1>8, <1>9 DEF Safe

LEMMA SafeStep ==
  ASSUME Typed, Safe, [Next]_vars
  PROVE  Safe'
<1>1. CASE IsNat /\ NatNet!Next
  BY <1>1, NatKeepsSafe DEF Typed, Safe, IsNat
<1>2. CASE IsHost /\ HostOnly!Next
  <2>1. HostTyped /\ HostSafe /\ HostPaid /\ HostRanges /\ kind' = "hostonly"
    BY <1>2 DEF Typed, Safe, IsHost
  <2>2. HostSafe'
    BY <1>2, <2>1, HostKeepsSeen, HostKeepsAlone DEF HostSafe
  <2> QED
    BY <1>2, <2>1, <2>2, HostKeepsPaid, HostKeepsRanges DEF Safe
<1>3. CASE IsDisk /\ Medium!Next
  BY <1>3, DiskKeepsSafe DEF Typed, Safe, IsDisk
<1>4. CASE IsSnap /\ Snaps!Next
  BY <1>4, SnapKeepsOwn, SnapKeepsKept DEF Typed, Safe, IsSnap
<1>5. CASE IsFile /\ Exports!Next
  BY <1>5, FileKeepsSafe DEF Typed, Safe, IsFile
<1>6. CASE IsList /\ Lists!Next
  BY <1>6, ListKeepsSafe DEF Typed, Safe, IsList, shared
<1>7. CASE UNCHANGED vars
  BY <1>7, SafeStutters
<1> QED
  BY <1>1, <1>2, <1>3, <1>4, <1>5, <1>6, <1>7 DEF Next

LEMMA AlwaysSafe == Spec => [](Typed /\ Safe)
<1>1. Init => Typed /\ Safe
  BY TypedInit, SafeStarts
<1>2. Typed /\ Safe /\ [Next]_vars => (Typed /\ Safe)'
  BY TypedStep, SafeStep
<1> QED
  BY <1>1, <1>2, PTL DEF Spec

(* A plan without changes means that a network had, when it was read, the  *)
(* settings asked for, whatever update failed half way: all that the reads *)
(* bring back (resourceNATNetworkRead, resourceHostonlyNetworkRead), but   *)
(* for an IPv6 address and rules of which they find nothing at all, and the*)
(* DHCP range as long as nothing has failed: what the reads have recorded  *)
(* is what the host has when the plan compares it.                         *)
THEOREM CleanPlansAreTrue == Spec => []CleanPlanMeansConfigured
<1>1. Typed /\ Safe => CleanPlanMeansConfigured
  <2>1. ASSUME kind = "nat", NatSafe PROVE NatNet!CleanPlanMeansSettings
    BY <2>1 DEF NatSafe
  <2>2. ASSUME kind = "hostonly", HostTyped, HostSafe, HostRanges PROVE HostOnly!CleanPlanMeansConfigured
    <3> SUFFICES ASSUME pc = "clean", ~stale, NEW w \in want, NEW e \in tf
                 PROVE  /\ HostAsWanted(e.id, w)
                        /\ faults + events = 0 /\ ~HostOnly!Rangeless => servers[e.id] = w.range
      BY DEF HostOnly!CleanPlanMeansConfigured, HostOnly!Known, HostAsWanted
    <3>1. w = HostOnly!Wanted /\ want # {}
      BY <2>2, HostWanted
    <3> QED
      BY <2>2, <3>1 DEF HostSafe, HostSeen, HostRanges, NoFailures
  <2> QED
    BY <2>1, <2>2 DEF Typed, Safe, CleanPlanMeansConfigured
<1> QED
  BY <1>1, AlwaysSafe, PTL

(* What the provider has made and Terraform does not know of, or what      *)
(* outlives the object it belongs to, comes only from a failed command or  *)
(* from another user: networks, interfaces and their DHCP servers, disks,  *)
(* snapshots, exported files (the creates set their id last, the deletes   *)
(* take several steps); or from a create of a host-only network with DHCP  *)
(* and no range, which is refused after the interface has been made.       *)
THEOREM LossesAreFailures == Spec => []LossesComeFromFailures
<1>1. Typed /\ Safe => LossesComeFromFailures
  <2>1. ASSUME kind = "nat", NatTyped, NatSafe PROVE NatNet!OrphansComeFromFailures
    <3>1. faults \in Nat /\ events \in Nat
      BY <2>1, ConstantsAssumption DEF NatTyped, Counted
    <3> QED
      BY <2>1, <3>1 DEF NatSafe, NoFailures, NatNet!OrphansComeFromFailures
  <2>2. ASSUME kind = "hostonly", HostTyped, HostSafe, HostPaid
        PROVE  HostOnly!LeaksComeFromFailures /\ HostOnly!NoStrandedServers
    BY <2>2, HostPaidMeansCounted DEF HostSafe, HostAlone, HostOnly!NoStrandedServers, HostOnly!Mine
  <2>3. ASSUME kind = "disk", DiskTyped, DiskSafe PROVE Medium!LossesComeFromFailures
    <3>1. faults \in Nat /\ events \in Nat
      BY <2>3, ConstantsAssumption DEF DiskTyped, Counted
    <3> QED
      BY <2>3, <3>1 DEF DiskSafe, NoFailures, Medium!LossesComeFromFailures, Medium!Lost
  <2> QED
    BY <2>1, <2>2, <2>3, SnapKeptMeansNoLoss, FileSafeMeansNoLoss DEF Typed, Safe, LossesComeFromFailures
<1> QED
  BY <1>1, AlwaysSafe, PTL

(* A recorded export has all its files, whatever is exported and deleted   *)
(* beside it and whatever fails, unless its name begins with another's     *)
(* (the glob of resourceVMExportDelete).                                   *)
THEOREM ExportsStayWhole == Spec => []ExportsAreWhole
<1>1. Typed /\ Safe => ExportsAreWhole
  BY FileSafeMeansWhole DEF Typed, Safe, ExportsAreWhole
<1> QED
  BY <1>1, AlwaysSafe, PTL

(* The readers of a list of networks find the same in it, however long it  *)
(* is: parseVBoxBlocks and parseInterfaceBlocks in any text, the wrapper   *)
(* (parseHostOnlyIFs) in what VirtualBox prints, and the resource          *)
(* (parseHostonlyInterface) the interface of a name in a text without a    *)
(* line of white space.                                                    *)
THEOREM ParsersFindTheSame == Spec => []ParsersAgree
<1>1. Typed /\ Safe => ParsersAgree
  BY ListSafeMeansAgree DEF Typed, Safe, ParsersAgree
<1> QED
  BY <1>1, AlwaysSafe, PTL

(* Terraform deletes and edits no snapshot that it has not taken, as long  *)
(* as names are not shared (resourceSnapshotCreate, resourceSnapshotUpdate). *)
THEOREM OthersSnapshotsStay == Spec => OnlyOwnTouched
<1>1. Typed /\ Safe /\ [Next]_vars =>
        [kind = "snapshot" /\ ~contested /\ events' = events => Snaps!TouchedAreOwn]_vars
  <2> SUFFICES ASSUME Typed, Safe, Next, kind = "snapshot", ~contested, events' = events
               PROVE  Snaps!TouchedAreOwn
    OBVIOUS
  <2>1. Snaps!Next /\ SnapTyped /\ SnapOwn
    BY DEF Next, IsNat, IsHost, IsDisk, IsSnap, IsFile, IsList, Typed, Safe
  <2> QED
    BY <2>1, SnapTouchesOwn
<1> QED
  BY <1>1, AlwaysSafe, PTL DEF Spec, OnlyOwnTouched
=============================================================================
