------------------------- MODULE SmallResourcesTypes -------------------------
(***************************************************************************)
(* Proof of the type invariant of SmallResources, resource by resource, in *)
(* the form that the proofs of the other properties start from. A network, *)
(* a disk and their records are sets of at most one element.               *)
(***************************************************************************)
EXTENDS SmallResources, FiniteSetTheorems, TLAPS

AtMostOne(S) == \A x, y \in S : x = y

LEMMA AtMostOneCounts ==
  ASSUME NEW S, AtMostOne(S)
  PROVE  Cardinality(S) <= 1
<1>1. CASE S = {}
  BY <1>1, FS_EmptySet
<1>2. CASE S # {}
  <2>1. PICK x \in S : S = {x}
    BY <1>2 DEF AtMostOne
  <2>2. Cardinality(S) = 1
    BY <2>1, FS_Singleton
  <2> QED
    BY <2>2
<1> QED
  BY <1>1, <1>2

Counted(max) == edits \in 0..MaxEdits /\ events \in 0..MaxEvents /\ faults \in 0..max

-----------------------------------------------------------------------------
(* The NAT network                                                         *)

NatSteps == {"idle", "plan", "clean", "add", "modify", "deleteRules", "addRules", "read", "remove"}

NatTyped == /\ want \subseteq NatNet!Networks /\ AtMostOne(want)
            /\ tf \subseteq NatNet!Entries /\ AtMostOne(tf)
            /\ network \subseteq NatNet!Networks /\ AtMostOne(network)
            /\ pc \in NatSteps /\ rule \in NatNet!Rules
            /\ Counted(MaxFaults)

LEMMA NatCounts ==
  \A S : NatNet!Cardinality(S) = Cardinality(S)
BY DEF NatNet!Cardinality, Cardinality

(* The rules are numbered; a loop over them visits no other.               *)
LEMMA RulesAreNumbered ==
  \E n \in Nat \ {0} : NatNet!Rules = 1..n /\ NatNet!Cardinality(NatNet!Rules) = n
<1>1. PICK n \in Nat \ {0} : NatNet!Rules = 1..n
  <2>1. Len(Protocols) \in Nat \ {0} /\ DOMAIN Protocols = 1..Len(Protocols)
    BY ConstantsAssumption
  <2> QED
    BY <2>1 DEF NatNet!Rules
<1>2. Cardinality(NatNet!Rules) = n
  BY <1>1, FS_Interval
<1> QED
  BY <1>1, <1>2, NatCounts

LEMMA NatFaultTyped ==
  ASSUME Counted(MaxFaults), NatNet!Fault
  PROVE  Counted(MaxFaults)'
BY ConstantsAssumption DEF Counted, NatNet!Fault

(* What is recorded is a record, read or planned.                          *)
LEMMA NatRecords ==
  /\ \A w \in NatNet!Networks : NatNet!Planned(w) \in NatNet!Entries
  /\ \A w \in NatNet!Networks, b \in BOOLEAN : [NatNet!Planned(w) EXCEPT !.tainted = b] \in NatNet!Entries
  /\ \A e \in NatNet!Entries, n \in NatNet!Networks : NatNet!Read(e, n) \in NatNet!Entries
<1>1. ASSUME NEW e \in NatNet!Entries, NEW n \in NatNet!Networks
      PROVE  NatNet!Read(e, n) \in NatNet!Entries
  <2>1. NatNet!Found(n) \in [NatNet!Rules -> 0..2] /\ e.rules \in [NatNet!Rules -> 0..2] /\ n.net \in 1..2
    BY DEF NatNet!Found, NatNet!Networks, NatNet!Entries
  <2>2. [e EXCEPT !.net = n.net] \in NatNet!Entries
    BY <2>1 DEF NatNet!Entries
  <2> QED
    BY <2>1, <2>2 DEF NatNet!Read, NatNet!Entries
<1>2. \A w \in NatNet!Networks : NatNet!Planned(w) \in NatNet!Entries
  BY DEF NatNet!Planned, NatNet!Networks, NatNet!Entries
<1>3. \A w \in NatNet!Networks, b \in BOOLEAN : [NatNet!Planned(w) EXCEPT !.tainted = b] \in NatNet!Entries
  BY <1>2 DEF NatNet!Entries
<1> QED
  BY <1>1, <1>2, <1>3

(* A network with another setting or another rule is a network.            *)
LEMMA NatChanges ==
  ASSUME NEW n \in NatNet!Networks
  PROVE  /\ \A x \in 1..2 : [n EXCEPT !.net = x] \in NatNet!Networks
         /\ \A r \in NatNet!Rules, x \in 0..2 : [n EXCEPT !.rules[r] = x] \in NatNet!Networks
         /\ \A r \in NatNet!Rules : [n EXCEPT !.rules[r] = 0] \in NatNet!Networks
         /\ \A w \in NatNet!Networks : [net |-> w.net, rules |-> NatNet!NoRules] \in NatNet!Networks
         /\ [n EXCEPT !.net = 3 - @] \in NatNet!Networks
<1>1. n.net \in 1..2 /\ n.rules \in [NatNet!Rules -> 0..2] /\ 3 - n.net \in 1..2
  BY DEF NatNet!Networks
<1> QED
  BY <1>1 DEF NatNet!Networks, NatNet!NoRules

LEMMA NatFailedTyped ==
  ASSUME NatTyped, NatNet!Failed
  PROVE  tf' \subseteq NatNet!Entries /\ AtMostOne(tf') /\ pc' \in NatSteps /\ rule' \in NatNet!Rules
BY RulesAreNumbered, NatRecords DEF NatNet!Failed, NatTyped, NatSteps, AtMostOne

LEMMA NatAdvanceTyped ==
  ASSUME NatTyped, NEW next \in NatSteps, NatNet!Advance(next)
  PROVE  pc' \in NatSteps /\ rule' \in NatNet!Rules
<1>1. PICK n \in Nat \ {0} : NatNet!Rules = 1..n /\ NatNet!Cardinality(NatNet!Rules) = n
  BY RulesAreNumbered
<1>2. rule \in 1..n /\ 1 \in 1..n
  BY <1>1 DEF NatTyped
<1>3. rule < n => rule + 1 \in 1..n
  BY <1>2
<1>4. \/ rule < n /\ rule' = rule + 1 /\ pc' = pc
      \/ rule' = 1 /\ pc' = next
  BY <1>1 DEF NatNet!Advance
<1>5. pc \in NatSteps
  BY DEF NatTyped
<1> QED
  BY <1>1, <1>2, <1>3, <1>4, <1>5

LEMMA NatNextTyped ==
  ASSUME NatTyped, NatNet!Next
  PROVE  NatTyped'
<1> DEFINE HostTyped == network' \subseteq NatNet!Networks /\ AtMostOne(network')
           TfTyped   == tf' \subseteq NatNet!Entries /\ AtMostOne(tf')
           Moved     == pc' \in NatSteps /\ rule' \in NatNet!Rules
<1> USE DEF NatNet!counters
<1>1. CASE NatNet!Refresh
  <2>1. TfTyped
    BY <1>1, NatRecords DEF NatNet!Refresh, NatTyped, AtMostOne
  <2> QED
    BY <1>1, <2>1, NatFaultTyped DEF NatNet!Refresh, NatTyped, NatSteps, Counted
<1>2. CASE NatNet!Plan
  BY <1>2 DEF NatNet!Plan, NatTyped, NatSteps, Counted
<1>3. CASE NatNet!Add
  <2>1. HostTyped
    BY <1>3, NatChanges DEF NatNet!Add, NatNet!Command, NatTyped, AtMostOne
  <2>2. TfTyped /\ Moved
    BY <1>3, NatFailedTyped, RulesAreNumbered DEF NatNet!Add, NatNet!Command, NatTyped, NatSteps
  <2>3. want' = want /\ Counted(MaxFaults)'
    BY <1>3, NatFaultTyped DEF NatNet!Add, NatNet!Command, NatTyped, Counted
  <2> QED
    BY <2>1, <2>2, <2>3 DEF NatTyped
<1>4. CASE NatNet!Modify
  <2>1. want # {} /\ (CHOOSE w \in want : TRUE).net \in 1..2
    BY <1>4 DEF NatNet!Modify, NatTyped, NatNet!Networks
  <2>2. HostTyped
    <3> DEFINE x == (CHOOSE w \in want : TRUE).net
    <3>1. network' = network \/ \E n \in network : network' = {[n EXCEPT !.net = x]}
      BY <1>4 DEF NatNet!Modify, NatNet!Command
    <3> HIDE DEF x
    <3>2. \A n \in network : [n EXCEPT !.net = x] \in NatNet!Networks
      BY <2>1, NatChanges DEF NatTyped, x
    <3> QED
      BY <3>1, <3>2 DEF NatTyped, AtMostOne
  <2>3. TfTyped /\ Moved
    BY <1>4, NatFailedTyped, RulesAreNumbered DEF NatNet!Modify, NatNet!Command, NatTyped, NatSteps
  <2>4. want' = want /\ Counted(MaxFaults)'
    BY <1>4, NatFaultTyped DEF NatNet!Modify, NatNet!Command, NatTyped, Counted
  <2> QED
    BY <2>2, <2>3, <2>4 DEF NatTyped
<1>5. CASE NatNet!DeleteRule
  <2>1. HostTyped
    <3>1. network' = network \/ network' = {[n EXCEPT !.rules[rule] = 0] : n \in network}
      BY <1>5 DEF NatNet!DeleteRule
    <3>2. \A n \in network : [n EXCEPT !.rules[rule] = 0] \in NatNet!Networks
      BY NatChanges DEF NatTyped
    <3> QED
      BY <3>1, <3>2 DEF NatTyped, AtMostOne
  <2>2. Moved
    BY <1>5, NatAdvanceTyped DEF NatNet!DeleteRule, NatSteps
  <2> QED
    BY <1>5, <2>1, <2>2, NatFaultTyped DEF NatNet!DeleteRule, NatTyped, Counted
<1>6. CASE NatNet!AddRule
  <2>1. HostTyped
    <3>1. \A w \in want : w.rules[rule] \in 0..2
      BY DEF NatTyped, NatNet!Networks
    <3>2. network' = network \/ \E w \in want, n \in network :
                                   network' = {[n EXCEPT !.rules[rule] = w.rules[rule]]}
      BY <1>6 DEF NatNet!AddRule
    <3>3. \A w \in want, n \in network : [n EXCEPT !.rules[rule] = w.rules[rule]] \in NatNet!Networks
      BY <3>1, NatChanges DEF NatTyped
    <3> QED
      BY <3>2, <3>3 DEF NatTyped, AtMostOne
  <2>2. TfTyped /\ Moved
    BY <1>6, NatFailedTyped, NatAdvanceTyped DEF NatNet!AddRule, NatTyped, NatSteps
  <2>3. want' = want /\ Counted(MaxFaults)'
    BY <1>6, NatFaultTyped DEF NatNet!AddRule, NatTyped, Counted
  <2> QED
    BY <2>1, <2>2, <2>3 DEF NatTyped
<1>7. CASE NatNet!FinalRead
  <2>1. TfTyped
    <3>1. \/ tf' = {NatNet!Read(NatNet!Planned(w), n) : w \in want, n \in network}
          \/ tf' = {[NatNet!Planned(w) EXCEPT !.tainted = (tf = {})] : w \in want}
      BY <1>7 DEF NatNet!FinalRead
    <3>2. \A w \in want : /\ NatNet!Planned(w) \in NatNet!Entries
                          /\ [NatNet!Planned(w) EXCEPT !.tainted = (tf = {})] \in NatNet!Entries
      BY NatRecords DEF NatTyped
    <3>3. \A w \in want, n \in network : NatNet!Read(NatNet!Planned(w), n) \in NatNet!Entries
      BY <3>2, NatRecords DEF NatTyped
    <3> QED
      BY <3>1, <3>2, <3>3 DEF NatTyped, AtMostOne
  <2> QED
    BY <1>7, <2>1, NatFaultTyped DEF NatNet!FinalRead, NatTyped, NatSteps, Counted
<1>8. CASE NatNet!Remove
  BY <1>8, NatFaultTyped DEF NatNet!Remove, NatTyped, NatSteps, AtMostOne, Counted
<1>9. CASE NatNet!EditConfig
  BY <1>9, ConstantsAssumption DEF NatNet!EditConfig, NatTyped, NatSteps, AtMostOne, Counted
<1>10. CASE NatNet!Meddle
  <2>1. HostTyped
    <3>1. PICK n \in network : \/ network' = {} \/ network' = {[n EXCEPT !.net = 3 - @]}
                               \/ \E r \in NatNet!Rules : network' = {[n EXCEPT !.rules[r] = 0]}
      BY <1>10 DEF NatNet!Meddle
    <3>2. /\ [n EXCEPT !.net = 3 - @] \in NatNet!Networks
          /\ \A r \in NatNet!Rules : [n EXCEPT !.rules[r] = 0] \in NatNet!Networks
      BY NatChanges DEF NatTyped
    <3> QED
      BY <3>1, <3>2 DEF AtMostOne
  <2> QED
    BY <1>10, <2>1, ConstantsAssumption DEF NatNet!Meddle, NatTyped, Counted
<1> QED
  BY <1>1, <1>2, <1>3, <1>4, <1>5, <1>6, <1>7, <1>8, <1>9, <1>10 DEF NatNet!Next, NatNet!Apply

LEMMA NatInitTyped ==
  ASSUME NatNet!Init
  PROVE  NatTyped
BY RulesAreNumbered, ConstantsAssumption DEF NatNet!Init, NatTyped, NatSteps, AtMostOne, Counted

-----------------------------------------------------------------------------
(* The host-only network                                                   *)

HostSteps == {"idle", "plan", "clean", "create", "ipv4", "ipv6", "dhcp", "read",
              "removeServer", "removeIface"}
HostBusy  == {"create", "ipv4", "ipv6", "dhcp", "read"}

HostTyped == /\ want \subseteq HostOnly!Configs /\ AtMostOne(want)
             /\ tf \subseteq HostOnly!Entries /\ AtMostOne(tf)
             /\ DOMAIN ifaces \subseteq Ids /\ ifaces \in [DOMAIN ifaces -> HostOnly!Ifaces]
             /\ servers \in [Ids -> 0..2] /\ iface \in Ids
             /\ pc \in HostSteps /\ (pc \in HostBusy => want # {})
             /\ Counted(MaxFaults)

LEMMA HostFaultTyped ==
  ASSUME Counted(MaxFaults), HostOnly!Fault
  PROVE  Counted(MaxFaults)'
BY ConstantsAssumption DEF Counted, HostOnly!Fault

LEMMA HostWanted ==
  ASSUME HostTyped, want # {}
  PROVE  /\ HostOnly!Wanted \in want /\ want = {HostOnly!Wanted}
         /\ HostOnly!Wanted.v4 \in 1..2 /\ HostOnly!Wanted.v6 \in 0..2
         /\ HostOnly!Wanted.dhcp \in BOOLEAN /\ HostOnly!Wanted.range \in 0..2
<1>1. HostOnly!Wanted \in want
  BY DEF HostOnly!Wanted
<1>2. want = {HostOnly!Wanted}
  BY <1>1 DEF HostTyped, AtMostOne
<1>3. HostOnly!Wanted \in HostOnly!Configs
  BY <1>1 DEF HostTyped
<1>4. /\ HostOnly!Wanted.v4 \in 1..2 /\ HostOnly!Wanted.v6 \in V6s
      /\ HostOnly!Wanted.dhcp \in BOOLEAN /\ HostOnly!Wanted.range \in Ranges \cup {0}
  BY <1>3 DEF HostOnly!Configs
<1>5. V6s \subseteq 0..2 /\ Ranges \cup {0} \subseteq 0..2
  BY ConstantsAssumption
<1> QED
  BY <1>1, <1>2, <1>4, <1>5

LEMMA HostEntry ==
  ASSUME HostTyped, tf # {}
  PROVE  HostOnly!Entry \in HostOnly!Entries /\ tf = {HostOnly!Entry} /\ HostOnly!Entry.id \in Ids
<1>1. HostOnly!Entry \in tf
  BY DEF HostOnly!Entry
<1>2. tf = {HostOnly!Entry}
  BY <1>1 DEF HostTyped, AtMostOne
<1>3. HostOnly!Entry \in HostOnly!Entries
  BY <1>1 DEF HostTyped
<1> QED
  BY <1>2, <1>3 DEF HostOnly!Entries

(* What is recorded is a record, read or planned.                          *)
LEMMA HostPlanned ==
  ASSUME HostTyped, want # {}, NEW i \in Ids
  PROVE  /\ HostOnly!Planned(i) \in HostOnly!Entries
         /\ \A b \in BOOLEAN : [HostOnly!Planned(i) EXCEPT !.tainted = b] \in HostOnly!Entries
<1>1. HostOnly!Planned(i) \in HostOnly!Entries
  BY HostWanted DEF HostOnly!Planned, HostOnly!Entries
<1> QED
  BY <1>1 DEF HostOnly!Entries

LEMMA HostRead ==
  ASSUME HostTyped, NEW e \in HostOnly!Entries, e.id \in DOMAIN ifaces
  PROVE  /\ HostOnly!Read(e) \in HostOnly!Entries
         /\ HostOnly!Read(e).id = e.id /\ HostOnly!Read(e).v4 = ifaces[e.id].v4
         /\ ifaces[e.id].v6 \in {0, HostOnly!Read(e).v6}
         /\ HostOnly!Read(e).dhcp = (servers[e.id] # 0)
<1> DEFINE v4 == ifaces[e.id].v4
           v6 == IF ifaces[e.id].v6 = 0 THEN e.v6 ELSE ifaces[e.id].v6
           d  == servers[e.id] # 0
<1>1. ifaces[e.id] \in HostOnly!Ifaces
  BY DEF HostTyped
<1>2. v4 \in 0..2 /\ v6 \in 0..2 /\ d \in BOOLEAN
  BY <1>1 DEF HostOnly!Ifaces, HostOnly!Entries
<1>3. HostOnly!Read(e) = [[[e EXCEPT !.v4 = v4] EXCEPT !.v6 = v6] EXCEPT !.dhcp = d]
  BY DEF HostOnly!Read, HostOnly!Entries
<1> HIDE DEF v4, v6, d
<1>4. [e EXCEPT !.v4 = v4] \in HostOnly!Entries
  BY <1>2 DEF HostOnly!Entries
<1>5. [[e EXCEPT !.v4 = v4] EXCEPT !.v6 = v6] \in HostOnly!Entries
  BY <1>2, <1>4 DEF HostOnly!Entries
<1>6. [[[e EXCEPT !.v4 = v4] EXCEPT !.v6 = v6] EXCEPT !.dhcp = d] \in HostOnly!Entries
  BY <1>2, <1>5 DEF HostOnly!Entries
<1>7. /\ HostOnly!Read(e).id = e.id /\ HostOnly!Read(e).v4 = v4 /\ HostOnly!Read(e).dhcp = d
      /\ HostOnly!Read(e).v6 = v6
  BY <1>3 DEF HostOnly!Entries
<1> QED
  BY <1>3, <1>6, <1>7 DEF v4, v6, d

LEMMA HostFailedTyped ==
  ASSUME HostTyped, want # {}, HostOnly!Failed
  PROVE  pc' = "idle" /\ tf' \subseteq HostOnly!Entries /\ AtMostOne(tf')
<1>1. CASE tf = {}
  BY <1>1 DEF HostOnly!Failed, AtMostOne
<1>2. CASE tf # {}
  <2>1. tf' = {HostOnly!Planned(HostOnly!Entry.id)} /\ pc' = "idle"
    BY <1>2 DEF HostOnly!Failed
  <2>2. HostOnly!Planned(HostOnly!Entry.id) \in HostOnly!Entries
    BY <1>2, HostEntry, HostPlanned
  <2> QED
    BY <2>1, <2>2 DEF AtMostOne
<1> QED
  BY <1>1, <1>2

(* An interface is added, changed or removed; a server gets a range.       *)
LEMMA HostChanges ==
  ASSUME HostTyped
  PROVE  /\ \A x \in 0..2, i \in Ids : [servers EXCEPT ![i] = x] \in [Ids -> 0..2]
         /\ \A x \in 0..2, i \in DOMAIN ifaces :
              /\ [ifaces EXCEPT ![i].v4 = x] \in [DOMAIN ifaces -> HostOnly!Ifaces]
              /\ [ifaces EXCEPT ![i].v6 = x] \in [DOMAIN ifaces -> HostOnly!Ifaces]
<1> DEFINE D == DOMAIN ifaces
<1>1. ifaces \in [D -> HostOnly!Ifaces] /\ servers \in [Ids -> 0..2]
  BY DEF HostTyped
<1> HIDE DEF D
<1>2. \A x \in 0..2, i \in D : /\ [ifaces EXCEPT ![i].v4 = x] \in [D -> HostOnly!Ifaces]
                               /\ [ifaces EXCEPT ![i].v6 = x] \in [D -> HostOnly!Ifaces]
  BY <1>1 DEF HostOnly!Ifaces
<1> QED
  BY <1>1, <1>2 DEF D

LEMMA HostNextTyped ==
  ASSUME HostTyped, HostOnly!Next
  PROVE  HostTyped'
<1> DEFINE Ifs    == DOMAIN ifaces' \subseteq Ids /\ ifaces' \in [DOMAIN ifaces' -> HostOnly!Ifaces]
           Servs  == servers' \in [Ids -> 0..2]
           Record == tf' \subseteq HostOnly!Entries /\ AtMostOne(tf')
           Moved  == pc' \in HostSteps /\ want' = want /\ (pc' \in HostBusy => want # {}) /\ iface' \in Ids
           Rest   == Counted(MaxFaults)'
<1> USE DEF HostOnly!counters, HostOnly!virtualBox, HostOnly!Mine, HostOnly!There
<1>0. ASSUME Ifs, Servs, Record, Moved, Rest PROVE HostTyped'
  BY <1>0 DEF HostTyped
<1>00. UNCHANGED <<ifaces, servers>> => Ifs /\ Servs
  BY DEF HostTyped
<1>1. CASE HostOnly!Refresh
  <2>1. Record
    <3>1. tf' = tf \/ tf' = {HostOnly!Read(e) : e \in {e \in tf : e.id \in DOMAIN ifaces}}
      BY <1>1 DEF HostOnly!Refresh
    <3>2. \A e \in tf : e.id \in DOMAIN ifaces => HostOnly!Read(e) \in HostOnly!Entries
      BY HostRead DEF HostTyped
    <3> QED
      BY <3>1, <3>2 DEF HostTyped, AtMostOne
  <2>2. Moved /\ Rest
    BY <1>1, HostFaultTyped DEF HostOnly!Refresh, HostTyped, HostSteps, HostBusy, Counted
  <2> QED
    BY <1>0, <1>00, <1>1, <2>1, <2>2 DEF HostOnly!Refresh
<1>2. CASE HostOnly!Plan
  <2>1. Moved
    BY <1>2, HostEntry DEF HostOnly!Plan, HostTyped, HostSteps, HostBusy
  <2> QED
    BY <1>0, <1>00, <1>2, <2>1 DEF HostOnly!Plan, HostTyped, Counted
<1>3. CASE HostOnly!CreateIface
  <2>0. want # {}
    BY <1>3 DEF HostOnly!CreateIface, HostTyped, HostBusy
  <2>1. CASE HostOnly!Failed /\ UNCHANGED <<want, ifaces, servers, iface, edits, events, faults>>
    BY <1>0, <1>00, <2>0, <2>1, HostFailedTyped DEF HostTyped, HostSteps, HostBusy, Counted
  <2>2. ASSUME NEW i \in Ids \ DOMAIN ifaces,
               HostOnly!Command(TRUE, TRUE, HostOnly!AddIface(i), "ipv4"), iface' = i
        PROVE  HostTyped'
    <3>1. want' = want /\ Rest
      BY <2>2, HostFaultTyped DEF HostOnly!Command, HostTyped, Counted
    <3>2. Record /\ Moved
      BY <2>0, <2>2, HostFailedTyped DEF HostOnly!Command, HostTyped, HostSteps, HostBusy
    <3>3. \/ UNCHANGED <<ifaces, servers>>
          \/ ifaces' = [j \in DOMAIN ifaces \cup {i} |-> IF j = i THEN [v4 |-> 0, v6 |-> 0] ELSE ifaces[j]]
             /\ servers' = servers
      BY <2>2 DEF HostOnly!Command, HostOnly!AddIface
    <3>4. [v4 |-> 0, v6 |-> 0] \in HostOnly!Ifaces
      BY DEF HostOnly!Ifaces
    <3>5. Ifs /\ Servs
      BY <3>3, <3>4 DEF HostTyped
    <3> QED
      BY <1>0, <3>1, <3>2, <3>5
  <2> QED
    BY <1>3, <2>1, <2>2 DEF HostOnly!CreateIface
<1>4. CASE HostOnly!SetIpv4
  <2>0. want # {} /\ HostOnly!Wanted.v4 \in 0..2
    BY <1>4, HostWanted DEF HostOnly!SetIpv4, HostTyped, HostBusy
  <2>1. want' = want /\ Rest
    BY <1>4, HostFaultTyped DEF HostOnly!SetIpv4, HostOnly!Command, HostTyped, Counted
  <2>2. Record /\ Moved
    BY <1>4, <2>0, HostFailedTyped DEF HostOnly!SetIpv4, HostOnly!Command, HostTyped, HostSteps, HostBusy
  <2>3. \/ UNCHANGED <<ifaces, servers>>
        \/ iface \in DOMAIN ifaces /\ servers' = servers
           /\ ifaces' = [ifaces EXCEPT ![iface].v4 = HostOnly!Wanted.v4]
    BY <1>4 DEF HostOnly!SetIpv4, HostOnly!Command
  <2>4. Ifs /\ Servs
    <3> DEFINE x == HostOnly!Wanted.v4
    <3>0. \/ UNCHANGED ifaces
          \/ iface \in DOMAIN ifaces /\ x \in 0..2 /\ ifaces' = [ifaces EXCEPT ![iface].v4 = x]
      BY <2>0, <2>3
    <3> HIDE DEF x
    <3>1. UNCHANGED ifaces \/ ifaces' \in [DOMAIN ifaces -> HostOnly!Ifaces]
      BY <3>0 DEF HostTyped, HostOnly!Ifaces
    <3>2. DOMAIN ifaces' = DOMAIN ifaces
      BY <3>1
    <3> QED
      BY <2>3, <3>1, <3>2 DEF HostTyped
  <2> QED
    BY <1>0, <2>1, <2>2, <2>4
<1>5. CASE HostOnly!SetIpv6
  <2>0. want # {} /\ HostOnly!Wanted.v6 \in 0..2
    BY <1>5, HostWanted DEF HostOnly!SetIpv6, HostTyped, HostBusy
  <2>1. want' = want /\ Rest
    BY <1>5, HostFaultTyped DEF HostOnly!SetIpv6, HostOnly!Command, HostTyped, Counted
  <2>2. Record /\ Moved
    BY <1>5, <2>0, HostFailedTyped DEF HostOnly!SetIpv6, HostOnly!Command, HostTyped, HostSteps, HostBusy
  <2>3. \/ UNCHANGED <<ifaces, servers>>
        \/ iface \in DOMAIN ifaces /\ servers' = servers
           /\ ifaces' = [ifaces EXCEPT ![iface].v6 = HostOnly!Wanted.v6]
    BY <1>5 DEF HostOnly!SetIpv6, HostOnly!Command
  <2>4. Ifs /\ Servs
    <3> DEFINE x == HostOnly!Wanted.v6
    <3>0. \/ UNCHANGED ifaces
          \/ iface \in DOMAIN ifaces /\ x \in 0..2 /\ ifaces' = [ifaces EXCEPT ![iface].v6 = x]
      BY <2>0, <2>3
    <3> HIDE DEF x
    <3>1. UNCHANGED ifaces \/ ifaces' \in [DOMAIN ifaces -> HostOnly!Ifaces]
      BY <3>0 DEF HostTyped, HostOnly!Ifaces
    <3>2. DOMAIN ifaces' = DOMAIN ifaces
      BY <3>1
    <3> QED
      BY <2>3, <3>1, <3>2 DEF HostTyped
  <2> QED
    BY <1>0, <2>1, <2>2, <2>4
<1>6. CASE HostOnly!SetDhcp
  <2>0. want # {} /\ HostOnly!Wanted.range \in 0..2 /\ HostOnly!Wanted.dhcp \in BOOLEAN /\ 0 \in 0..2
    BY <1>6, HostWanted DEF HostOnly!SetDhcp, HostTyped, HostBusy
  <2> DEFINE Given(issued, can, r) == HostOnly!Command(issued, can, HostOnly!SetServer(r), "read")
             Effect == (\E r \in 0..2 : HostOnly!SetServer(r)) \/ UNCHANGED <<ifaces, servers>>
             After  == \/ pc' = "read" /\ UNCHANGED <<tf, edits, events, faults>>
                       \/ HostOnly!Failed /\ (UNCHANGED <<edits, events, faults>> \/ HostOnly!Fault)
  <2>a. ASSUME NEW issued, NEW can, NEW r \in 0..2, Given(issued, can, r)
        PROVE  Effect /\ After /\ want' = want
    BY <2>a DEF HostOnly!Command
  <2>b. ASSUME HostOnly!Command(FALSE, TRUE, UNCHANGED <<ifaces, servers, refused>>, "read")
        PROVE  Effect /\ After /\ want' = want
    BY <2>b DEF HostOnly!Command
  <2>1. Effect /\ After /\ want' = want
    <3> DEFINE set == HostOnly!Changed("dhcp") \/ HostOnly!Changed("range")
    <3>5. CASE set /\ HostOnly!Rangeless
      BY <1>6, <3>5 DEF HostOnly!SetDhcp
    <3> HIDE DEF Effect, After
    <3>1. CASE set /\ ~HostOnly!Rangeless /\ ~HostOnly!Wanted.dhcp /\ HostOnly!Had
      BY <1>6, <2>0, <2>a, <3>1 DEF HostOnly!SetDhcp
    <3>2. CASE set /\ ~HostOnly!Rangeless /\ HostOnly!Wanted.dhcp /\ HostOnly!Had
      BY <1>6, <2>0, <2>a, <3>2 DEF HostOnly!SetDhcp
    <3>3. CASE set /\ ~HostOnly!Rangeless /\ HostOnly!Wanted.dhcp /\ ~HostOnly!Had
      BY <1>6, <2>0, <2>a, <3>3 DEF HostOnly!SetDhcp
    <3>4. CASE ~set
      BY <1>6, <2>b, <3>4 DEF HostOnly!SetDhcp
    <3>6. CASE ~HostOnly!Wanted.dhcp /\ ~HostOnly!Had
      BY <1>6, <2>b, <3>6 DEF HostOnly!SetDhcp, HostOnly!Rangeless
    <3> HIDE DEF set
    <3> QED
      BY <3>1, <3>2, <3>3, <3>4, <3>5, <3>6
  <2>2. want' = want /\ Rest
    BY <2>1, HostFaultTyped DEF HostTyped, Counted
  <2>3. iface' = iface
    BY <1>6 DEF HostOnly!SetDhcp
  <2>4. Record /\ Moved
    BY <2>0, <2>1, <2>3, HostFailedTyped DEF HostTyped, HostSteps, HostBusy
  <2>6. Ifs /\ Servs
    BY <2>1, HostChanges DEF HostOnly!SetServer, HostTyped
  <2> QED
    BY <1>0, <2>2, <2>4, <2>6
<1>7. CASE HostOnly!FinalRead
  <2>0. want # {} /\ iface \in Ids
    BY <1>7 DEF HostOnly!FinalRead, HostTyped, HostBusy
  <2>1. Record
    <3>1. \/ iface \in DOMAIN ifaces /\ tf' = {HostOnly!Read(HostOnly!Planned(iface))}
          \/ tf' = {}
          \/ tf' = {[HostOnly!Planned(iface) EXCEPT !.tainted = (tf = {})]}
      BY <1>7 DEF HostOnly!FinalRead
    <3>2. /\ HostOnly!Planned(iface) \in HostOnly!Entries
          /\ [HostOnly!Planned(iface) EXCEPT !.tainted = (tf = {})] \in HostOnly!Entries
          /\ HostOnly!Planned(iface).id = iface
      BY <2>0, HostPlanned DEF HostOnly!Planned
    <3>3. iface \in DOMAIN ifaces => HostOnly!Read(HostOnly!Planned(iface)) \in HostOnly!Entries
      BY <3>2, HostRead
    <3> QED
      BY <3>1, <3>2, <3>3 DEF AtMostOne
  <2>2. Moved /\ Rest
    BY <1>7, HostFaultTyped DEF HostOnly!FinalRead, HostTyped, HostSteps, HostBusy, Counted
  <2> QED
    BY <1>0, <1>00, <1>7, <2>1, <2>2 DEF HostOnly!FinalRead
<1>8. CASE HostOnly!RemoveServer
  <2>1. \/ UNCHANGED <<ifaces, servers>>
        \/ ifaces' = ifaces /\ servers' = [servers EXCEPT ![iface] = 0]
    BY <1>8 DEF HostOnly!RemoveServer, HostOnly!SetServer
  <2>2. Ifs /\ Servs
    BY <2>1, HostChanges DEF HostTyped
  <2>3. Record /\ Moved /\ Rest
    BY <1>8, HostFaultTyped DEF HostOnly!RemoveServer, HostTyped, HostSteps, HostBusy, Counted
  <2> QED
    BY <1>0, <2>2, <2>3
<1>9. CASE HostOnly!RemoveIface
  <2>1. \/ UNCHANGED <<ifaces, servers>>
        \/ servers' = servers /\ ifaces' = [j \in DOMAIN ifaces \ {iface} |-> ifaces[j]]
    BY <1>9 DEF HostOnly!RemoveIface
  <2>2. Ifs /\ Servs
    BY <2>1 DEF HostTyped
  <2>3. Record /\ Moved /\ Rest
    BY <1>9, HostFaultTyped DEF HostOnly!RemoveIface, HostTyped, HostSteps, HostBusy, Counted, AtMostOne
  <2> QED
    BY <1>0, <2>2, <2>3
<1>10. CASE HostOnly!EditConfig
  BY <1>10, ConstantsAssumption DEF HostOnly!EditConfig, HostTyped, HostSteps, HostBusy, AtMostOne, Counted
<1>11. CASE HostOnly!Meddle
  <2>1. PICK i \in DOMAIN ifaces :
          \/ ifaces' = [ifaces EXCEPT ![i].v4 = 0] /\ UNCHANGED servers
          \/ servers' \in {[servers EXCEPT ![i] = r] : r \in {0, 1}} /\ UNCHANGED ifaces
          \/ ifaces' = [j \in DOMAIN ifaces \ {i} |-> ifaces[j]] /\ servers' = [servers EXCEPT ![i] = 0]
    BY <1>11 DEF HostOnly!Meddle
  <2>2. i \in Ids /\ {0, 1} \subseteq 0..2
    BY DEF HostTyped
  <2>3. ASSUME ifaces' = [ifaces EXCEPT ![i].v4 = 0] /\ UNCHANGED servers
        PROVE  Ifs /\ Servs
    <3>1. ifaces' \in [DOMAIN ifaces -> HostOnly!Ifaces]
      BY <2>2, <2>3, HostChanges
    <3>2. DOMAIN ifaces' = DOMAIN ifaces
      BY <3>1
    <3> QED
      BY <2>3, <3>1, <3>2 DEF HostTyped
  <2>5. ASSUME servers' \in {[servers EXCEPT ![i] = r] : r \in {0, 1}} /\ UNCHANGED ifaces
        PROVE  Ifs /\ Servs
    BY <2>2, <2>5, HostChanges DEF HostTyped
  <2>6. ASSUME ifaces' = [j \in DOMAIN ifaces \ {i} |-> ifaces[j]], servers' = [servers EXCEPT ![i] = 0]
        PROVE  Ifs /\ Servs
    BY <2>2, <2>6, HostChanges DEF HostTyped
  <2>4. Record /\ Moved /\ Rest
    BY <1>11, ConstantsAssumption DEF HostOnly!Meddle, HostTyped, Counted
  <2> QED
    BY <1>0, <2>1, <2>3, <2>4, <2>5, <2>6
<1> QED
  BY <1>1, <1>2, <1>3, <1>4, <1>5, <1>6, <1>7, <1>8, <1>9, <1>10, <1>11 DEF HostOnly!Next, HostOnly!Apply

LEMMA HostInitTyped ==
  ASSUME HostOnly!Init
  PROVE  HostTyped
BY ConstantsAssumption DEF HostOnly!Init, HostTyped, HostSteps, HostBusy, AtMostOne, Counted

-----------------------------------------------------------------------------
(* The disk                                                                *)

DiskSteps == {"idle", "plan", "clean", "create", "lookup", "resize", "read", "remove"}

DiskTyped == /\ want \subseteq Medium!Disks /\ AtMostOne(want)
             /\ tf \subseteq Medium!Disks /\ AtMostOne(tf)
             /\ medium \subseteq Medium!Media /\ AtMostOne(medium)
             /\ pc \in DiskSteps /\ Counted(MaxFaults)

LEMMA DiskFaultTyped ==
  ASSUME Counted(MaxFaults), Medium!Fault
  PROVE  Counted(MaxFaults)'
BY ConstantsAssumption DEF Counted, Medium!Fault

LEMMA DiskRead ==
  /\ \A m \in Medium!Media : Medium!Read(m) \in Medium!Disks
  /\ \A w \in Medium!Disks :
       [size |-> w.size, form |-> w.form, own |-> TRUE, busy |-> FALSE] \in Medium!Media
  /\ \A m \in Medium!Media, x \in 1..2 : [m EXCEPT !.size = x] \in Medium!Media
  /\ \A m \in Medium!Media, b \in BOOLEAN : [m EXCEPT !.busy = b] \in Medium!Media
BY DEF Medium!Media, Medium!Disks, Medium!Read

LEMMA DiskLookupTyped ==
  ASSUME DiskTyped, Medium!Lookup
  PROVE  tf' \subseteq Medium!Disks /\ AtMostOne(tf') /\ Counted(MaxFaults)'
BY DiskRead, DiskFaultTyped DEF Medium!Lookup, Medium!counters, DiskTyped, AtMostOne, Counted

LEMMA DiskNextTyped ==
  ASSUME DiskTyped, Medium!Next
  PROVE  DiskTyped'
<1> USE DEF Medium!counters
<1>1. CASE Medium!Refresh
  <2>1. tf' \subseteq Medium!Disks /\ AtMostOne(tf') /\ Counted(MaxFaults)'
    BY <1>1, DiskLookupTyped DEF Medium!Refresh, DiskTyped, Counted
  <2> QED
    BY <1>1, <2>1 DEF Medium!Refresh, DiskTyped, DiskSteps
<1>2. CASE Medium!Plan
  BY <1>2 DEF Medium!Plan, DiskTyped, DiskSteps, Counted
<1>3. CASE Medium!Create
  <2>1. medium' \subseteq Medium!Media /\ AtMostOne(medium')
    BY <1>3, DiskRead DEF Medium!Create, DiskTyped, AtMostOne
  <2>2. tf' \subseteq Medium!Disks /\ AtMostOne(tf') /\ pc' \in DiskSteps /\ want' = want
    BY <1>3 DEF Medium!Create, Medium!Failed, DiskTyped, DiskSteps, AtMostOne
  <2>3. Counted(MaxFaults)'
    BY <1>3, DiskFaultTyped DEF Medium!Create, DiskTyped, Counted
  <2> QED
    BY <2>1, <2>2, <2>3 DEF DiskTyped
<1>4. CASE Medium!FindUuid
  <2>1. tf' \subseteq Medium!Disks /\ AtMostOne(tf') /\ pc' \in DiskSteps
    BY <1>4 DEF Medium!FindUuid, Medium!Failed, DiskTyped, DiskSteps, AtMostOne
  <2>2. Counted(MaxFaults)'
    BY <1>4, DiskFaultTyped DEF Medium!FindUuid, DiskTyped, Counted
  <2> QED
    BY <1>4, <2>1, <2>2 DEF Medium!FindUuid, DiskTyped
<1>5. CASE Medium!Resize
  <2>1. tf' \subseteq Medium!Disks /\ AtMostOne(tf') /\ pc' \in DiskSteps /\ want' = want
    BY <1>5 DEF Medium!Resize, Medium!Failed, DiskTyped, DiskSteps, AtMostOne
  <2>2. Counted(MaxFaults)'
    BY <1>5, DiskFaultTyped DEF Medium!Resize, DiskTyped, Counted
  <2>3. medium' \subseteq Medium!Media /\ AtMostOne(medium')
    <3>1. medium' = medium \/ \E m \in medium, w \in want : medium' = {[m EXCEPT !.size = w.size]}
      BY <1>5 DEF Medium!Resize
    <3>2. \A m \in medium, w \in want : [m EXCEPT !.size = w.size] \in Medium!Media
      BY DiskRead DEF DiskTyped, Medium!Disks
    <3> QED
      BY <3>1, <3>2 DEF DiskTyped, AtMostOne
  <2> QED
    BY <2>1, <2>2, <2>3 DEF DiskTyped
<1>6. CASE Medium!FinalRead
  BY <1>6, DiskLookupTyped DEF Medium!FinalRead, DiskTyped, DiskSteps
<1>7. CASE Medium!Remove
  <2>1. Counted(MaxFaults)'
    BY <1>7, DiskFaultTyped DEF Medium!Remove, DiskTyped, Counted
  <2> QED
    BY <1>7, <2>1 DEF Medium!Remove, DiskTyped, DiskSteps, AtMostOne
<1>8. CASE Medium!EditConfig
  BY <1>8, ConstantsAssumption DEF Medium!EditConfig, DiskTyped, DiskSteps, AtMostOne, Counted
<1>9. CASE Medium!Meddle
  <2>1. \/ medium' = {} \/ \E m \in Medium!Media : medium' = {m}
        \/ \E m \in medium : \/ medium' = {[m EXCEPT !.size = 2]}
                             \/ \E b \in BOOLEAN : medium' = {[m EXCEPT !.busy = b]}
    BY <1>9, Zenon DEF Medium!Meddle
  <2>2. \A m \in medium : /\ [m EXCEPT !.size = 2] \in Medium!Media
                          /\ \A b \in BOOLEAN : [m EXCEPT !.busy = b] \in Medium!Media
    BY DEF DiskTyped, Medium!Media
  <2>3. medium' \subseteq Medium!Media /\ AtMostOne(medium')
    BY <2>1, <2>2 DEF AtMostOne
  <2> QED
    BY <1>9, <2>3, ConstantsAssumption DEF Medium!Meddle, DiskTyped, Counted
<1> QED
  BY <1>1, <1>2, <1>3, <1>4, <1>5, <1>6, <1>7, <1>8, <1>9 DEF Medium!Next, Medium!Apply

LEMMA DiskInitTyped ==
  ASSUME Medium!Init
  PROVE  DiskTyped
BY ConstantsAssumption DEF Medium!Init, DiskTyped, DiskSteps, AtMostOne, Counted

-----------------------------------------------------------------------------
(* The exports                                                             *)

FileSteps == {"idle", "refresh", "plan", "clean", "export", "disks", "record",
              "remove", "glob", "sweep", "forget"}

FileTyped == /\ want \in [Bases -> Exports!Extensions \cup {"none"}]
             /\ tf \in [Bases -> Exports!Extensions \cup {"none"}]
             /\ files \subseteq Exports!Files /\ \A f, g \in files : f.path = g.path => f = g
             /\ todo \in [Bases -> SUBSET Exports!Paths]
             /\ pc \in [Bases -> FileSteps]
             /\ \A e \in Bases : /\ pc[e] # "sweep" => todo[e] = {}
                                 /\ pc[e] \in {"export", "disks", "record"} => want[e] # "none"
                                 /\ pc[e] \in {"remove", "glob"} => tf[e] # "none"
             /\ Counted(MaxFaults)

LEMMA FileFaultTyped ==
  ASSUME Counted(MaxFaults), Exports!Fault
  PROVE  Counted(MaxFaults)'
BY ConstantsAssumption DEF Counted, Exports!Fault

(* Paths in the directory are those of the files.                          *)
LEMMA FilePaths ==
  ASSUME FileTyped
  PROVE  /\ Exports!Taken \subseteq Exports!Paths
         /\ \A p \in Exports!Paths : [path |-> p, own |-> TRUE] \in Exports!Files
         /\ \A e \in Bases, x \in Exports!Extensions \cup {"vmdk"} : <<e, x>> \in Exports!Paths
BY DEF FileTyped, Exports!Taken, Exports!Files, Exports!Paths

(* Some of the files, or one more at a free path.                          *)
LEMMA FilesChange ==
  ASSUME FileTyped,
         \/ files' \subseteq files
         \/ \E p \in Exports!Paths, b \in BOOLEAN :
              p \notin Exports!Taken /\ files' = files \cup {[path |-> p, own |-> b]}
  PROVE  files' \subseteq Exports!Files /\ \A f, g \in files' : f.path = g.path => f = g
<1>1. CASE files' \subseteq files
  BY <1>1 DEF FileTyped
<1>2. ASSUME NEW p \in Exports!Paths, NEW b \in BOOLEAN, p \notin Exports!Taken,
             files' = files \cup {[path |-> p, own |-> b]}
      PROVE  files' \subseteq Exports!Files /\ \A f, g \in files' : f.path = g.path => f = g
  <2> DEFINE new == [path |-> p, own |-> b]
  <2>1. new \in Exports!Files /\ new.path = p
    BY DEF Exports!Files
  <2>2. \A f \in files : f.path # p
    BY <1>2 DEF Exports!Taken
  <2>3. files' = files \cup {new}
    BY <1>2
  <2> HIDE DEF new
  <2> QED
    BY <2>1, <2>2, <2>3 DEF FileTyped
<1> QED
  BY <1>1, <1>2

LEMMA FileNextTyped ==
  ASSUME FileTyped, Exports!Next
  PROVE  FileTyped'
<1> DEFINE FilesOK == files' \subseteq Exports!Files /\ \A f, g \in files' : f.path = g.path => f = g
           Records == tf' \in [Bases -> Exports!Extensions \cup {"none"}]
           Todos   == todo' \in [Bases -> SUBSET Exports!Paths]
           Moved   == /\ pc' \in [Bases -> FileSteps]
                      /\ want' \in [Bases -> Exports!Extensions \cup {"none"}]
                      /\ \A e \in Bases : /\ pc'[e] # "sweep" => todo'[e] = {}
                                          /\ pc'[e] \in {"export", "disks", "record"} => want'[e] # "none"
                                          /\ pc'[e] \in {"remove", "glob"} => tf'[e] # "none"
           Rest    == Counted(MaxFaults)'
<1> USE DEF Exports!counters, Exports!Goto, Exports!Record
<1>0. ASSUME FilesOK, Records, Todos, Moved, Rest PROVE FileTyped'
  BY <1>0 DEF FileTyped
<1>1. CASE Exports!Start
  BY <1>1 DEF Exports!Start, Exports!AtRest, FileTyped, FileSteps, Counted
<1>2. ASSUME NEW e \in Bases, Exports!Refresh(e) PROVE FileTyped'
  <2>1. Records /\ FilesOK /\ Todos
    BY <1>2 DEF Exports!Refresh, FileTyped
  <2>2. Moved
    BY <1>2 DEF Exports!Refresh, FileTyped, FileSteps
  <2>3. Rest
    BY <1>2, FileFaultTyped DEF Exports!Refresh, FileTyped, Counted
  <2> QED
    BY <1>0, <2>1, <2>2, <2>3
<1>3. CASE Exports!Plan
  <2>1. \A e \in Bases : pc'[e] = Exports!Planned(e)
    BY <1>3 DEF Exports!Plan
  <2>2. \A e \in Bases : /\ Exports!Planned(e) \in {"clean", "remove", "export"}
                         /\ Exports!Planned(e) = "remove" => tf[e] # "none"
                         /\ Exports!Planned(e) = "export" => want[e] # "none"
    BY DEF Exports!Planned
  <2>3. pc' \in [Bases -> FileSteps]
    <3>1. pc' = [e \in Bases |-> Exports!Planned(e)]
      BY <1>3 DEF Exports!Plan
    <3>2. {"clean", "remove", "export"} \subseteq FileSteps
      BY DEF FileSteps
    <3>3. \A e \in Bases : Exports!Planned(e) \in FileSteps
      BY <2>2, <3>2
    <3> QED
      BY <3>1, <3>3
  <2>5. \A e \in Bases : todo'[e] = {} /\ want'[e] = want[e] /\ tf'[e] = tf[e]
    BY <1>3 DEF Exports!Plan, FileTyped
  <2>4. Moved
    <3>1. ASSUME NEW e \in Bases
          PROVE  /\ pc'[e] # "sweep" => todo'[e] = {}
                 /\ pc'[e] \in {"export", "disks", "record"} => want'[e] # "none"
                 /\ pc'[e] \in {"remove", "glob"} => tf'[e] # "none"
      <4>1. pc'[e] \in {"clean", "remove", "export"}
        BY <2>1, <2>2
      <4> QED
        BY <2>1, <2>2, <2>5, <4>1
    <3> QED
      BY <1>3, <2>3, <3>1 DEF Exports!Plan, FileTyped
  <2> QED
    BY <1>0, <1>3, <2>4 DEF Exports!Plan, FileTyped, Counted
<1>4. ASSUME NEW e \in Bases, Exports!Export(e) PROVE FileTyped'
  <2>1. Exports!Target(e) \in Exports!Paths
    BY <1>4, FilePaths DEF Exports!Export, Exports!Target, FileTyped
  <2>2. \/ files' \subseteq files
        \/ Exports!Target(e) \notin Exports!Taken
           /\ files' = files \cup {[path |-> Exports!Target(e), own |-> TRUE]}
    BY <1>4 DEF Exports!Export
  <2>3. FilesOK
    BY <2>1, <2>2, FilesChange
  <2>4. Moved
    BY <1>4 DEF Exports!Export, FileTyped, FileSteps
  <2>5. Rest
    BY <1>4, FileFaultTyped DEF Exports!Export, FileTyped, Counted
  <2> QED
    BY <1>0, <1>4, <2>3, <2>4, <2>5 DEF Exports!Export, FileTyped
<1>5. ASSUME NEW e \in Bases, Exports!SetId(e) PROVE FileTyped'
  BY <1>5 DEF Exports!SetId, FileTyped, FileSteps, Counted
<1>6. ASSUME NEW e \in Bases, Exports!RemoveMain(e) PROVE FileTyped'
  <2>1. files' \subseteq files
    BY <1>6 DEF Exports!RemoveMain, Exports!RemoveFile
  <2>2. Moved
    BY <1>6 DEF Exports!RemoveMain, FileTyped, FileSteps
  <2>3. Rest
    BY <1>6, FileFaultTyped DEF Exports!RemoveMain, Exports!RemoveFile, FileTyped, Counted
  <2> QED
    BY <1>0, <1>6, <2>1, <2>2, <2>3, FilesChange DEF Exports!RemoveMain, FileTyped
<1>7. ASSUME NEW e \in Bases, Exports!Glob(e) PROVE FileTyped'
  <2>1. Exports!Matches(e) \subseteq Exports!Paths
    BY FilePaths DEF Exports!Matches
  <2>2. Todos
    BY <1>7, <2>1 DEF Exports!Glob, FileTyped
  <2>3. Moved
    BY <1>7 DEF Exports!Glob, FileTyped, FileSteps
  <2> QED
    BY <1>0, <1>7, <2>2, <2>3 DEF Exports!Glob, FileTyped, Counted
<1>8. ASSUME NEW e \in Bases, Exports!Sweep(e) PROVE FileTyped'
  <2>1. files' \subseteq files
    BY <1>8 DEF Exports!Sweep, Exports!RemoveFile
  <2>2. Todos
    BY <1>8 DEF Exports!Sweep, FileTyped
  <2>3. Moved
    BY <1>8 DEF Exports!Sweep, FileTyped, FileSteps
  <2>4. Rest
    BY <1>8, FileFaultTyped DEF Exports!Sweep, Exports!RemoveFile, FileTyped, Counted
  <2> QED
    BY <1>0, <1>8, <2>1, <2>2, <2>3, <2>4, FilesChange DEF Exports!Sweep, FileTyped
<1>9. ASSUME NEW e \in Bases, Exports!Forget(e) PROVE FileTyped'
  BY <1>9 DEF Exports!Forget, FileTyped, FileSteps, Counted
<1>10. ASSUME NEW e \in Bases, Exports!EditConfig(e) PROVE FileTyped'
  <2>1. Moved
    BY <1>10 DEF Exports!EditConfig, Exports!AtRest, FileTyped, FileSteps
  <2>2. Rest
    BY <1>10, ConstantsAssumption DEF Exports!EditConfig, FileTyped, Counted
  <2> QED
    BY <1>0, <1>10, <2>1, <2>2 DEF Exports!EditConfig, FileTyped
<1>11. CASE Exports!Meddle
  <2>1. \/ files' \subseteq files
        \/ \E p \in Exports!Paths : p \notin Exports!Taken /\ files' = files \cup {[path |-> p, own |-> FALSE]}
    BY <1>11 DEF Exports!Meddle
  <2>2. FilesOK
    BY <2>1, FilesChange
  <2> QED
    BY <1>11, <2>2, ConstantsAssumption DEF Exports!Meddle, FileTyped, Counted
<1> QED
  BY <1>1, <1>2, <1>3, <1>4, <1>5, <1>6, <1>7, <1>8, <1>9, <1>10, <1>11
  DEF Exports!Next, Exports!Reads, Exports!Apply

LEMMA FileInitTyped ==
  ASSUME Exports!Init
  PROVE  FileTyped
<1>1. files = {} \/ \E p \in Exports!Paths : files = {[path |-> p, own |-> FALSE]}
  BY DEF Exports!Init
<1>2. \A p \in Exports!Paths : [path |-> p, own |-> FALSE] \in Exports!Files
  BY DEF Exports!Files
<1> QED
  <2>1. files \subseteq Exports!Files /\ \A f, g \in files : f = g
    BY <1>1, <1>2
  <2>2. /\ want \in [Bases -> Exports!Extensions] /\ tf = [e \in Bases |-> "none"]
        /\ todo = [e \in Bases |-> {}] /\ pc = [e \in Bases |-> "idle"]
        /\ Counted(MaxFaults)
    BY ConstantsAssumption DEF Exports!Init, Counted
  <2> QED
    BY <2>1, <2>2 DEF FileTyped, FileSteps

-----------------------------------------------------------------------------
(* The snapshots                                                           *)

SnapSteps == {"idle", "refresh", "plan", "clean", "take", "find", "edit", "read", "remove"}
Snapshots == [id : Nat \ {0}, name : Names \cup {"x"}, text : Snaps!Texts, by : Names \cup {"other"}]

SnapTyped == /\ want \in [Names -> {0} \cup Snaps!Texts]
             /\ tf \in [Names -> SUBSET Snaps!Entries] /\ \A n \in Names : AtMostOne(tf[n])
             /\ taken \in Nat /\ snaps \subseteq Snapshots /\ \A s \in snaps : s.id <= taken
             /\ \A s, t \in snaps : s.id = t.id => s = t
             /\ pc \in [Names -> SnapSteps]
             /\ \A n \in Names : /\ pc[n] \in {"take", "find", "edit"} => want[n] # 0
             /\ contested \in BOOLEAN
             /\ Counted(MaxSnapshotFaults)

LEMMA SnapFaultTyped ==
  ASSUME Counted(MaxSnapshotFaults), Snaps!Fault
  PROVE  Counted(MaxSnapshotFaults)'
BY ConstantsAssumption DEF Counted, Snaps!Fault

LEMMA SnapEntry ==
  ASSUME NEW s \in Snapshots
  PROVE  Snaps!Entry(s) \in Snaps!Entries /\ Snaps!Entry(s).id = s.id
BY DEF Snapshots, Snaps!Entry, Snaps!Entries

LEMMA SnapChanged ==
  ASSUME NEW s \in Snapshots
  PROVE  /\ \A x \in Snaps!Texts : [s EXCEPT !["text"] = x] \in Snapshots
         /\ \A x \in Names \cup {"x"} : [s EXCEPT !["name"] = x] \in Snapshots
         /\ \A x : [s EXCEPT !["text"] = x].id = s.id /\ [s EXCEPT !["name"] = x].id = s.id
BY DEF Snapshots

(* The records of one resource change to at most one.                      *)
LEMMA SnapRecord ==
  ASSUME SnapTyped, NEW n \in Names, NEW e, Snaps!Record(n, e),
         e \subseteq Snaps!Entries, AtMostOne(e)
  PROVE  tf' \in [Names -> SUBSET Snaps!Entries] /\ \A m \in Names : AtMostOne(tf'[m])
BY DEF SnapTyped, Snaps!Record

LEMMA SnapFailedTyped ==
  ASSUME SnapTyped, NEW n \in Names, want[n] # 0, Snaps!Failed(n)
  PROVE  /\ tf' \in [Names -> SUBSET Snaps!Entries] /\ \A m \in Names : AtMostOne(tf'[m])
         /\ pc' = [pc EXCEPT ![n] = "idle"]
<1> DEFINE new == {[e EXCEPT !.text = want[n]] : e \in tf[n]}
<1>1. want[n] \in Snaps!Texts
  BY DEF SnapTyped
<1>2. \A e \in Snaps!Entries : [e EXCEPT !.text = want[n]] \in Snaps!Entries
  BY <1>1 DEF Snaps!Entries
<1>3. new \subseteq Snaps!Entries /\ AtMostOne(new)
  BY <1>2 DEF SnapTyped, AtMostOne
<1>4. Snaps!Record(n, new) /\ pc' = [pc EXCEPT ![n] = "idle"]
  BY DEF Snaps!Failed, Snaps!Goto
<1> HIDE DEF new
<1> QED
  BY <1>3, <1>4, SnapRecord

LEMMA SnapLookupTyped ==
  ASSUME SnapTyped, NEW n \in Names, Snaps!Lookup(n)
  PROVE  /\ tf' \in [Names -> SUBSET Snaps!Entries] /\ \A m \in Names : AtMostOne(tf'[m])
         /\ Counted(MaxSnapshotFaults)'
<1> DEFINE S   == {s \in snaps : \E e \in tf[n] : e.id = s.id}
           new == {Snaps!Entry(s) : s \in S}
<1>1. AtMostOne(S)
  BY DEF SnapTyped, AtMostOne
<1>2. \A s \in S : Snaps!Entry(s) \in Snaps!Entries
  BY SnapEntry DEF SnapTyped
<1>3. new \subseteq Snaps!Entries /\ AtMostOne(new)
  <2> HIDE DEF S
  <2> QED
    BY <1>1, <1>2 DEF AtMostOne
<1>4. Snaps!Record(n, new) \/ Snaps!Record(n, {})
  BY DEF Snaps!Lookup
<1>5. Counted(MaxSnapshotFaults)'
  BY SnapFaultTyped DEF Snaps!Lookup, Snaps!counters, SnapTyped, Counted
<1> HIDE DEF new
<1> QED
  BY <1>3, <1>4, <1>5, SnapRecord DEF AtMostOne

(* A snapshot is taken, changed or deleted.                                *)
LEMMA SnapsChange ==
  ASSUME SnapTyped, taken' \in {taken, taken + 1},
         \/ snaps' \subseteq snaps
         \/ \E s \in Snapshots : s.id = taken + 1 /\ snaps' = snaps \cup {s} /\ taken' = taken + 1
         \/ \E s \in snaps, t \in Snapshots : t.id = s.id /\ snaps' = (snaps \ {s}) \cup {t}
  PROVE  /\ taken' \in Nat /\ snaps' \subseteq Snapshots /\ \A s \in snaps' : s.id <= taken'
         /\ \A s, t \in snaps' : s.id = t.id => s = t
<1>1. /\ snaps \subseteq Snapshots /\ \A s \in snaps : s.id \in Nat /\ s.id <= taken
      /\ \A s, t \in snaps : s.id = t.id => s = t
      /\ taken \in Nat /\ taken' \in Nat /\ taken <= taken'
  BY DEF SnapTyped, Snapshots
<1>2. CASE snaps' \subseteq snaps
  BY <1>1, <1>2
<1>3. ASSUME NEW s \in Snapshots, s.id = taken + 1, snaps' = snaps \cup {s}, taken' = taken + 1
      PROVE  /\ snaps' \subseteq Snapshots /\ \A t \in snaps' : t.id <= taken'
             /\ \A t, u \in snaps' : t.id = u.id => t = u
  <2>1. \A t \in snaps : t.id # s.id
    BY <1>1, <1>3
  <2> QED
    BY <1>1, <1>3, <2>1
<1>4. ASSUME NEW s \in snaps, NEW t \in Snapshots, t.id = s.id, snaps' = (snaps \ {s}) \cup {t}
      PROVE  /\ snaps' \subseteq Snapshots /\ \A u \in snaps' : u.id <= taken'
             /\ \A u, v \in snaps' : u.id = v.id => u = v
  BY <1>1, <1>4
<1> QED
  BY <1>1, <1>2, <1>3, <1>4

LEMMA SnapNextTyped ==
  ASSUME SnapTyped, Snaps!Next
  PROVE  SnapTyped'
<1> DEFINE Host    == /\ taken' \in Nat /\ snaps' \subseteq Snapshots /\ \A s \in snaps' : s.id <= taken'
                      /\ \A s, t \in snaps' : s.id = t.id => s = t
           Records == tf' \in [Names -> SUBSET Snaps!Entries] /\ \A n \in Names : AtMostOne(tf'[n])
           Moved   == /\ pc' \in [Names -> SnapSteps]
                      /\ want' \in [Names -> {0} \cup Snaps!Texts]
                      /\ \A n \in Names : pc'[n] \in {"take", "find", "edit"} => want'[n] # 0
           Rest    == contested' \in BOOLEAN /\ Counted(MaxSnapshotFaults)'
<1> USE DEF Snaps!counters, Snaps!Goto
<1>0. ASSUME Host, Records, Moved, Rest PROVE SnapTyped'
  BY <1>0 DEF SnapTyped
<1>00. UNCHANGED <<snaps, taken>> => Host
  BY DEF SnapTyped
<1>1. CASE Snaps!Start
  BY <1>1 DEF Snaps!Start, Snaps!AtRest, SnapTyped, SnapSteps, Counted
<1>2. ASSUME NEW n \in Names, Snaps!Refresh(n) PROVE SnapTyped'
  <2>1. Moved /\ contested' \in BOOLEAN
    BY <1>2 DEF Snaps!Refresh, SnapTyped, SnapSteps
  <2>2. Records /\ Counted(MaxSnapshotFaults)'
    BY <1>2, SnapLookupTyped DEF Snaps!Refresh, SnapTyped, Counted
  <2> QED
    BY <1>0, <1>00, <1>2, <2>1, <2>2 DEF Snaps!Refresh
<1>3. CASE Snaps!Plan
  <2>1. ASSUME NEW n \in Names
        PROVE  Snaps!Planned(n) \in SnapSteps /\ (Snaps!Planned(n) \in {"take", "find", "edit"} => want[n] # 0)
    <3>1. \/ Snaps!Planned(n) \in {"clean", "remove"}
          \/ Snaps!Planned(n) \in {"take", "edit"} /\ want[n] # 0
      BY DEF Snaps!Planned
    <3> QED
      BY <3>1 DEF SnapSteps
  <2>2. pc' = [n \in Names |-> Snaps!Planned(n)]
    BY <1>3 DEF Snaps!Plan
  <2>3. Moved
    BY <1>3, <2>1, <2>2 DEF Snaps!Plan, SnapTyped
  <2> QED
    BY <1>0, <1>00, <1>3, <2>3 DEF Snaps!Plan, SnapTyped, Counted
<1>4. ASSUME NEW n \in Names, Snaps!Take(n) PROVE SnapTyped'
  <2>1. want[n] \in Snaps!Texts
    BY <1>4 DEF Snaps!Take, SnapTyped
  <2>2. Host
    <3> DEFINE s == [id |-> taken + 1, name |-> n, by |-> n, text |-> want[n]]
    <3>1. s \in Snapshots /\ s.id = taken + 1
      BY <2>1 DEF Snapshots, SnapTyped
    <3>2. (snaps' = snaps \cup {s} /\ taken' = taken + 1) \/ UNCHANGED <<snaps, taken>>
      BY <1>4 DEF Snaps!Take, Snaps!New
    <3> HIDE DEF s
    <3> QED
      BY <1>00, <3>1, <3>2, SnapsChange
  <2>3. Records /\ Moved
    <3>1. (tf' = tf /\ pc' = [pc EXCEPT ![n] = "find"]) \/ Snaps!Failed(n)
      BY <1>4 DEF Snaps!Take
    <3>2. Records /\ (pc' = [pc EXCEPT ![n] = "find"] \/ pc' = [pc EXCEPT ![n] = "idle"])
      BY <2>1, <3>1, SnapFailedTyped DEF SnapTyped, Snaps!Texts
    <3> QED
      BY <1>4, <2>1, <3>2 DEF Snaps!Take, SnapTyped, SnapSteps, Snaps!Texts
  <2>4. Rest
    BY <1>4, SnapFaultTyped DEF Snaps!Take, SnapTyped, Counted
  <2> QED
    BY <1>0, <2>2, <2>3, <2>4
<1>5. ASSUME NEW n \in Names, Snaps!Find(n) PROVE SnapTyped'
  <2>1. want[n] # 0
    BY <1>5 DEF Snaps!Find, SnapTyped
  <2>2. Records /\ (pc' = [pc EXCEPT ![n] = "read"] \/ pc' = [pc EXCEPT ![n] = "idle"])
    <3>1. CASE Snaps!Failed(n)
      BY <2>1, <3>1, SnapFailedTyped
    <3>2. ASSUME NEW s \in Snaps!Named(n), Snaps!Record(n, {Snaps!Entry(s)}) PROVE Records
      <4>1. s \in Snapshots
        BY DEF SnapTyped, Snaps!Named
      <4>2. {Snaps!Entry(s)} \subseteq Snaps!Entries /\ AtMostOne({Snaps!Entry(s)})
        BY <4>1, SnapEntry DEF AtMostOne
      <4> QED
        BY <3>2, <4>2, SnapRecord
    <3> QED
      BY <1>5, <3>1, <3>2 DEF Snaps!Find
  <2>3. Moved
    BY <1>5, <2>2 DEF Snaps!Find, SnapTyped, SnapSteps
  <2>4. Rest
    BY <1>5, SnapFaultTyped DEF Snaps!Find, SnapTyped, Counted
  <2> QED
    BY <1>0, <1>00, <1>5, <2>2, <2>3, <2>4 DEF Snaps!Find
<1>6. ASSUME NEW n \in Names, Snaps!Edit(n) PROVE SnapTyped'
  <2>1. want[n] \in Snaps!Texts /\ want[n] # 0
    BY <1>6 DEF Snaps!Edit, SnapTyped
  <2>2. Host
    <3>1. snaps' = snaps \/ \E s \in snaps : snaps' = Snaps!Changed(s, "text", want[n])
      BY <1>6 DEF Snaps!Edit, Snaps!Named
    <3>2. \A s \in snaps : /\ [s EXCEPT !["text"] = want[n]] \in Snapshots
                           /\ [s EXCEPT !["text"] = want[n]].id = s.id
      BY <2>1, SnapChanged DEF SnapTyped
    <3>3. \/ snaps' = snaps
          \/ \E s \in snaps, t \in Snapshots : t.id = s.id /\ snaps' = (snaps \ {s}) \cup {t}
      BY <3>1, <3>2 DEF Snaps!Changed
    <3>4. taken' = taken
      BY <1>6 DEF Snaps!Edit
    <3> QED
      BY <3>3, <3>4, SnapsChange
  <2>3. Records /\ (pc' = [pc EXCEPT ![n] = "read"] \/ pc' = [pc EXCEPT ![n] = "idle"])
    BY <1>6, <2>1, SnapFailedTyped DEF Snaps!Edit, SnapTyped
  <2>4. Moved
    BY <1>6, <2>3 DEF Snaps!Edit, SnapTyped, SnapSteps
  <2>5. Rest
    BY <1>6, SnapFaultTyped DEF Snaps!Edit, SnapTyped, Counted
  <2> QED
    BY <1>0, <2>2, <2>3, <2>4, <2>5
<1>7. ASSUME NEW n \in Names, Snaps!FinalRead(n) PROVE SnapTyped'
  <2>1. Moved /\ contested' \in BOOLEAN
    BY <1>7 DEF Snaps!FinalRead, SnapTyped, SnapSteps
  <2>2. Records /\ Counted(MaxSnapshotFaults)'
    BY <1>7, SnapLookupTyped DEF Snaps!FinalRead
  <2> QED
    BY <1>0, <1>00, <1>7, <2>1, <2>2 DEF Snaps!FinalRead
<1>8. ASSUME NEW n \in Names, Snaps!Remove(n) PROVE SnapTyped'
  <2>1. snaps' \subseteq snaps /\ taken' = taken
    BY <1>8 DEF Snaps!Remove
  <2>2. Records
    <3>1. tf' = tf \/ Snaps!Record(n, {})
      BY <1>8 DEF Snaps!Remove
    <3> QED
      BY <3>1, SnapRecord DEF SnapTyped, AtMostOne
  <2>3. Moved
    BY <1>8 DEF Snaps!Remove, SnapTyped, SnapSteps
  <2>4. Rest
    BY <1>8, SnapFaultTyped DEF Snaps!Remove, SnapTyped, Counted
  <2> QED
    BY <1>0, <2>1, <2>2, <2>3, <2>4, SnapsChange
<1>9. ASSUME NEW n \in Names, Snaps!EditConfig(n) PROVE SnapTyped'
  <2>1. Moved
    BY <1>9 DEF Snaps!EditConfig, Snaps!AtRest, SnapTyped, SnapSteps
  <2> QED
    BY <1>0, <1>00, <1>9, <2>1, ConstantsAssumption DEF Snaps!EditConfig, SnapTyped, Counted
<1>10. CASE Snaps!Meddle
  <2>1. \/ \E n \in Names \cup {"x"} : snaps' = Snaps!New(n, "other") /\ taken' = taken + 1
        \/ \E s \in snaps, n \in Names \cup {"x"} : snaps' = Snaps!Changed(s, "name", n) /\ taken' = taken
        \/ snaps' \subseteq snaps /\ taken' = taken
    BY <1>10 DEF Snaps!Meddle
  <2>2. ASSUME NEW n \in Names \cup {"x"}, snaps' = Snaps!New(n, "other"), taken' = taken + 1 PROVE Host
    <3> DEFINE s == [id |-> taken + 1, name |-> n, by |-> "other", text |-> 2]
    <3>1. s \in Snapshots /\ s.id = taken + 1
      BY DEF Snapshots, SnapTyped, Snaps!Texts
    <3>2. n # "other"
      BY ConstantsAssumption
    <3>3. snaps' = snaps \cup {s}
      BY <2>2, <3>2 DEF Snaps!New
    <3> HIDE DEF s
    <3> QED
      BY <2>2, <3>1, <3>3, SnapsChange
  <2>3. ASSUME NEW s \in snaps, NEW n \in Names \cup {"x"}, snaps' = Snaps!Changed(s, "name", n), taken' = taken
        PROVE  Host
    <3> DEFINE t == [s EXCEPT !["name"] = n]
    <3>1. t \in Snapshots /\ t.id = s.id
      BY SnapChanged DEF SnapTyped
    <3>2. snaps' = (snaps \ {s}) \cup {t}
      BY <2>3 DEF Snaps!Changed
    <3> HIDE DEF t
    <3> QED
      BY <2>3, <3>1, <3>2, SnapsChange
  <2>4. ASSUME snaps' \subseteq snaps, taken' = taken PROVE Host
    BY <2>4, SnapsChange
  <2>5. Host
    BY <2>1, <2>2, <2>3, <2>4
  <2>6. contested' \in BOOLEAN
    BY <1>10, Zenon DEF Snaps!Meddle
  <2>7. Records /\ Moved /\ Counted(MaxSnapshotFaults)'
    BY <1>10, ConstantsAssumption DEF Snaps!Meddle, SnapTyped, Counted
  <2> QED
    BY <1>0, <2>5, <2>6, <2>7
<1> QED
  BY <1>1, <1>2, <1>3, <1>4, <1>5, <1>6, <1>7, <1>8, <1>9, <1>10 DEF Snaps!Next, Snaps!Reads, Snaps!Apply

LEMMA SnapCounts ==
  \A S : Snaps!Cardinality(S) = Cardinality(S)
BY DEF Snaps!Cardinality, Cardinality

LEMMA SnapInitTyped ==
  ASSUME Snaps!Init
  PROVE  SnapTyped
<1>1. PICK n \in Names \cup {"x"} : snaps = {} \/ snaps = {[id |-> 1, name |-> n, text |-> 2, by |-> "other"]}
  BY DEF Snaps!Init
<1>2. snaps \subseteq Snapshots /\ \A s \in snaps : s.id = 1
  BY <1>1 DEF Snapshots, Snaps!Texts
<1>3. taken \in Nat /\ (snaps # {} => taken = 1)
  <2>1. taken = Cardinality(snaps)
    BY SnapCounts DEF Snaps!Init
  <2>2. CASE snaps = {}
    BY <2>1, <2>2, FS_EmptySet
  <2>3. CASE snaps # {}
    <3>1. PICK s : snaps = {s}
      BY <1>1, <2>3
    <3> QED
      BY <2>1, <3>1, FS_Singleton
  <2> QED
    BY <2>2, <2>3
<1>4. contested \in BOOLEAN
  BY Zenon DEF Snaps!Init
<1>5. want \in [Names -> {0} \cup Snaps!Texts] /\ tf \in [Names -> SUBSET Snaps!Entries]
  BY DEF Snaps!Init, Snaps!Texts
<1> QED
  BY <1>1, <1>2, <1>3, <1>4, <1>5, ConstantsAssumption DEF Snaps!Init, SnapTyped, SnapSteps, AtMostOne, Counted

-----------------------------------------------------------------------------
(* The lists, and all of them                                              *)

ListTyped == /\ text \in Seq(Lists!Lines) /\ Len(text) <= MaxLines
             /\ blocks \in Lists!Parsers /\ shown \in Lists!Parsers
             /\ listed \in Lists!Parsers /\ split \in Lists!Parsers

LEMMA NothingIsBlock == Lists!Nothing \in Lists!Blocks
BY DEF Lists!Nothing, Lists!Blocks

LEMMA PutBlock ==
  ASSUME NEW b \in Lists!Blocks, NEW l \in Lists!Lines, ~Lists!Blank(l)
  PROVE  Lists!Put(b, l) \in Lists!Blocks
<1>1. CASE l.key = "junk"
  BY <1>1 DEF Lists!Put
<1>2. CASE l.key # "junk"
  <2>1. l.key \in Lists!Keys /\ l.value \in 0..2
    BY <1>2 DEF Lists!Lines, Lists!Blank, Lists!Values
  <2> QED
    BY <1>2, <2>1 DEF Lists!Put, Lists!Blocks
<1> QED
  BY <1>1, <1>2

LEMMA ClosedParser ==
  ASSUME NEW p \in Lists!Parsers
  PROVE  Lists!Close(p) \in Lists!Parsers /\ Lists!CloseNamed(p) \in Lists!Parsers
<1>1. p.list \in Seq(Lists!Blocks) /\ p.block \in Lists!Blocks
  BY DEF Lists!Parsers
<1>2. Append(p.list, p.block) \in Seq(Lists!Blocks)
  BY <1>1
<1> QED
  BY <1>1, <1>2, NothingIsBlock DEF Lists!Close, Lists!CloseNamed, Lists!Parsers

LEMMA ReadParsers ==
  ASSUME NEW p \in Lists!Parsers, NEW l \in Lists!Lines
  PROVE  /\ Lists!ReadBlock(p, l) \in Lists!Parsers /\ Lists!ReadShown(p, l) \in Lists!Parsers
         /\ Lists!ReadListed(p, l) \in Lists!Parsers /\ Lists!ReadSplit(p, l) \in Lists!Parsers
<1>1. p.block \in Lists!Blocks
  BY DEF Lists!Parsers
<1>2. ASSUME NEW b \in Lists!Blocks
      PROVE  [p EXCEPT !.block = b] \in Lists!Parsers
  BY DEF Lists!Parsers
<1>3. CASE Lists!Blank(l)
  BY <1>3, ClosedParser DEF Lists!ReadBlock, Lists!ReadShown, Lists!ReadListed, Lists!ReadSplit, Lists!Blank
<1>4. CASE ~Lists!Blank(l)
  <2>1. Lists!Put(p.block, l) \in Lists!Blocks /\ Lists!StartOrPut(p.block, l) \in Lists!Blocks
    BY <1>1, <1>4, PutBlock, NothingIsBlock DEF Lists!StartOrPut
  <2>2. l.key # "empty" /\ l.key # "white"
    BY <1>4 DEF Lists!Blank
  <2> QED
    BY <1>2, <1>4, <2>1, <2>2 DEF Lists!ReadBlock, Lists!ReadShown, Lists!ReadListed, Lists!ReadSplit
<1> QED
  BY <1>3, <1>4

LEMMA ListNextTyped ==
  ASSUME ListTyped, Lists!Next
  PROVE  ListTyped'
<1>1. PICK l \in Lists!Lines :
        /\ Len(text) < MaxLines /\ text' = Append(text, l)
        /\ blocks' = Lists!ReadBlock(blocks, l) /\ shown' = Lists!ReadShown(shown, l)
        /\ listed' = Lists!ReadListed(listed, l) /\ split' = Lists!ReadSplit(split, l)
  BY DEF Lists!Next, Lists!PrintLine
<1>2. text' \in Seq(Lists!Lines) /\ Len(text') = Len(text) + 1
  BY <1>1 DEF ListTyped
<1>3. Len(text') <= MaxLines
  BY <1>1, <1>2, ConstantsAssumption DEF ListTyped
<1> QED
  BY <1>1, <1>2, <1>3, ReadParsers DEF ListTyped

LEMMA ListInitTyped ==
  ASSUME Lists!Init
  PROVE  ListTyped
<1>1. Lists!Fresh \in Lists!Parsers
  BY NothingIsBlock DEF Lists!Fresh, Lists!Parsers
<1> QED
  BY <1>1, ConstantsAssumption DEF Lists!Init, ListTyped

(* What all proofs start from.                                             *)
Typed == \/ kind = "nat" /\ NatTyped
         \/ kind = "hostonly" /\ HostTyped
         \/ kind = "disk" /\ DiskTyped
         \/ kind = "snapshot" /\ SnapTyped
         \/ kind = "export" /\ FileTyped
         \/ kind = "list" /\ ListTyped

Noted == stale \in BOOLEAN /\ refused \subseteq Ids

LEMMA NotedStep ==
  ASSUME Typed, Noted, [Next]_vars
  PROVE  Noted'
<1>1. CASE IsNat /\ NatNet!Next
  <2>1. stale' = stale \/ stale' = FALSE \/ stale' = TRUE
    BY <1>1 DEF NatNet!Next, NatNet!Apply, NatNet!Refresh, NatNet!EditConfig, NatNet!Meddle
  <2> QED
    BY <1>1, <2>1 DEF Noted, IsNat, hostVars
<1>2. CASE IsHost /\ HostOnly!Next
  <2>1. iface \in Ids
    BY <1>2 DEF Typed, HostTyped, IsHost
  <2>2. stale' \in BOOLEAN
    BY <1>2 DEF Noted, HostOnly!Next, HostOnly!Apply, HostOnly!Refresh, HostOnly!EditConfig, HostOnly!Meddle
  <2>3. CASE HostOnly!SetDhcp
    <3>1. refused' \in {refused, refused \cup {iface}}
      BY <2>3 DEF HostOnly!SetDhcp, HostOnly!Command, HostOnly!SetServer, HostOnly!virtualBox
    <3> QED
      BY <2>1, <2>2, <3>1 DEF Noted
  <2>4. CASE HostOnly!CreateIface
    <3>1. refused' \subseteq refused
      BY <2>4 DEF HostOnly!CreateIface, HostOnly!Command, HostOnly!AddIface, HostOnly!virtualBox
    <3> QED
      BY <2>2, <3>1 DEF Noted
  <2>5. CASE ~HostOnly!SetDhcp /\ ~HostOnly!CreateIface
    <3>1. refused' = refused
      BY <1>2, <2>5 DEF HostOnly!Next, HostOnly!Apply, HostOnly!Refresh, HostOnly!Plan, HostOnly!SetIpv4,
           HostOnly!SetIpv6, HostOnly!Command, HostOnly!FinalRead, HostOnly!RemoveServer,
           HostOnly!SetServer, HostOnly!RemoveIface, HostOnly!EditConfig, HostOnly!Meddle,
           HostOnly!virtualBox
    <3> QED
      BY <2>2, <3>1 DEF Noted
  <2> QED
    BY <2>3, <2>4, <2>5
<1>3. CASE UNCHANGED <<stale, hostVars>>
  BY <1>3 DEF Noted, hostVars
<1> QED
  BY <1>1, <1>2, <1>3 DEF Next, IsDisk, IsSnap, IsFile, IsList, vars

LEMMA TypedStep ==
  ASSUME Typed, [Next]_vars
  PROVE  Typed'
<1>1. CASE IsNat /\ NatNet!Next
  BY <1>1, NatNextTyped DEF Typed, IsNat
<1>2. CASE IsHost /\ HostOnly!Next
  BY <1>2, HostNextTyped DEF Typed, IsHost
<1>3. CASE IsDisk /\ Medium!Next
  BY <1>3, DiskNextTyped DEF Typed, IsDisk
<1>4. CASE IsSnap /\ Snaps!Next
  BY <1>4, SnapNextTyped DEF Typed, IsSnap
<1>5. CASE IsFile /\ Exports!Next
  BY <1>5, FileNextTyped DEF Typed, IsFile
<1>6. CASE IsList /\ Lists!Next
  BY <1>6, ListNextTyped DEF Typed, IsList, shared
<1>7. CASE UNCHANGED vars
  <2> USE <1>7 DEF vars, shared, natVars, hostVars, snapVars, fileVars, listVars, Counted
  <2>1. NatTyped => NatTyped'
    BY DEF NatTyped
  <2>2. HostTyped => HostTyped'
    BY DEF HostTyped
  <2>3. DiskTyped => DiskTyped'
    BY DEF DiskTyped
  <2>4. SnapTyped => SnapTyped'
    BY DEF SnapTyped
  <2>5. FileTyped => FileTyped'
    BY DEF FileTyped
  <2>6. ListTyped => ListTyped'
    BY DEF ListTyped
  <2>7. kind' = kind
    OBVIOUS
  <2> QED
    BY <2>1, <2>2, <2>3, <2>4, <2>5, <2>6, <2>7 DEF Typed
<1> QED
  BY <1>1, <1>2, <1>3, <1>4, <1>5, <1>6, <1>7 DEF Next

LEMMA TypedInit ==
  ASSUME Init
  PROVE  Typed
BY NatInitTyped, HostInitTyped, DiskInitTyped, SnapInitTyped, FileInitTyped, ListInitTyped DEF Init, Typed

LEMMA AlwaysTyped == Spec => []Typed
BY TypedInit, TypedStep, PTL DEF Spec

LEMMA AlwaysNoted == Spec => []Noted
<1>1. Init => Noted
  BY DEF Init, Noted, NatNet!Init, HostOnly!Init, NoHost, Fresh
<1>2. Typed /\ Noted /\ [Next]_vars => Noted'
  BY NotedStep
<1> QED
  BY <1>1, <1>2, AlwaysTyped, PTL DEF Spec

LEMMA TypedImpliesTypeOK == Typed /\ Noted => TypeOK
<1>1. ASSUME kind = "nat", NatTyped, Noted PROVE TypeOK
  <2>1. /\ NatNet!Cardinality(want) <= 1 /\ NatNet!Cardinality(tf) <= 1
        /\ NatNet!Cardinality(network) <= 1
    BY <1>1, AtMostOneCounts, NatCounts DEF NatTyped
  <2> QED
    BY <1>1, <2>1 DEF NatTyped, Noted, NatSteps, Counted, NatNet!TypeOK, TypeOK
<1>2. ASSUME kind = "hostonly", HostTyped, Noted PROVE TypeOK
  <2>1. HostOnly!Cardinality(want) <= 1 /\ HostOnly!Cardinality(tf) <= 1
    <3>1. \A S : HostOnly!Cardinality(S) = Cardinality(S)
      BY DEF HostOnly!Cardinality, Cardinality
    <3> QED
      BY <1>2, <3>1, AtMostOneCounts DEF HostTyped
  <2> QED
    BY <1>2, <2>1 DEF HostTyped, Noted, HostSteps, Counted, HostOnly!Mine, HostOnly!TypeOK, TypeOK
<1>3. ASSUME kind = "disk", DiskTyped PROVE TypeOK
  <2>1. /\ Medium!Cardinality(want) <= 1 /\ Medium!Cardinality(tf) <= 1
        /\ Medium!Cardinality(medium) <= 1
    <3>1. \A S : Medium!Cardinality(S) = Cardinality(S)
      BY DEF Medium!Cardinality, Cardinality
    <3> QED
      BY <1>3, <3>1, AtMostOneCounts DEF DiskTyped
  <2> QED
    BY <1>3, <2>1 DEF DiskTyped, DiskSteps, Counted, Medium!TypeOK, TypeOK
<1>4. ASSUME kind = "snapshot", SnapTyped PROVE TypeOK
  <2>1. \A n \in Names : Snaps!Cardinality(tf[n]) <= 1
    BY <1>4, SnapCounts, AtMostOneCounts DEF SnapTyped
  <2>2. snaps \subseteq [id : 1..taken, name : Names \cup {"x"}, text : Snaps!Texts, by : Names \cup {"other"}]
    BY <1>4 DEF SnapTyped, Snapshots
  <2> QED
    BY <1>4, <2>1, <2>2 DEF SnapTyped, SnapSteps, Counted, Snaps!TypeOK, TypeOK
<1>5. ASSUME kind = "export", FileTyped PROVE TypeOK
  BY <1>5 DEF FileTyped, FileSteps, Counted, Exports!TypeOK, TypeOK
<1>6. ASSUME kind = "list", ListTyped PROVE TypeOK
  BY <1>6 DEF ListTyped, Lists!TypeOK, TypeOK
<1> QED
  BY <1>1, <1>2, <1>3, <1>4, <1>5, <1>6 DEF Typed

(* The types of the small resources: at most one network, disk or record,  *)
(* UUIDs of snapshots and paths of files that tell them apart, and no path *)
(* left over from the sweep of an earlier delete.                          *)
THEOREM TypeCorrect == Spec => []TypeOK
BY AlwaysTyped, AlwaysNoted, TypedImpliesTypeOK, PTL
=============================================================================
