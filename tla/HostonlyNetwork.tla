--------------------------- MODULE HostonlyNetwork ---------------------------
(***************************************************************************)
(* A virtualbox_hostonly_network resource over repeated runs of Terraform, *)
(* one action for each VBoxManage command. VirtualBox names the interface; *)
(* its DHCP server is an object of its own under that name. The IPv4 and   *)
(* the IPv6 settings of an interface are one value each (IPv6: 0 if there  *)
(* is none), and so is the range of a DHCP server (0: no server; in the    *)
(* configuration: a bound is missing).                                     *)
(***************************************************************************)
EXTENDS Naturals, FiniteSets

CONSTANTS Ids,        \* names of interfaces, 1..n
          Ranges,     \* DHCP ranges that are configured, 0: a bound is missing
          V6s,        \* IPv6 settings that are configured
          MaxEdits,   \* bound on changes of the configuration
          MaxEvents,  \* bound on what other users of the host do
          MaxFaults   \* bound on failing commands

VARIABLES want,     \* the configured network, {} if there is none
          tf,       \* Terraform's record of it, {} if there is none
          ifaces,   \* ifaces[i]: the interface i of this resource, if there
          servers,  \* servers[i]: the range of the DHCP server of i
          pc,       \* where Terraform is
          iface,    \* the interface the provider works on
          refused,  \* auxiliary: the interfaces that creates have made and left,
                    \* as the configuration has no DHCP range
          stale,    \* auxiliary: another user has acted since the last refresh
          edits, events, faults

vars == <<want, tf, ifaces, servers, pc, iface, refused, stale, edits, events, faults>>
counters == <<edits, events, faults>>
virtualBox == <<ifaces, servers, refused>>

Configs == [v4 : 1..2, v6 : V6s, dhcp : {FALSE}, range : {0}]
             \cup [v4 : 1..2, v6 : V6s, dhcp : {TRUE}, range : Ranges]
Entries == [id : Ids, v4 : 0..2, v6 : 0..2, dhcp : BOOLEAN, range : 0..2, tainted : BOOLEAN]
Ifaces  == [v4 : 0..2, v6 : 0..2]      \* v4 = 0: VirtualBox's own choice

Mine    == DOMAIN ifaces
Wanted  == CHOOSE w \in want : TRUE
Entry   == CHOOSE e \in tf : TRUE
Fault   == faults < MaxFaults /\ faults' = faults + 1 /\ UNCHANGED <<edits, events>>

Planned(i) == [id |-> i, v4 |-> Wanted.v4, v6 |-> Wanted.v6, dhcp |-> Wanted.dhcp,
               range |-> Wanted.range, tainted |-> FALSE]

(* A failed update records what it was to do, a failed create nothing.     *)
Failed == /\ pc' = "idle"
          /\ tf' = IF tf = {} THEN {} ELSE {Planned(Entry.id)}

-----------------------------------------------------------------------------
(* resourceHostonlyNetworkRead                                             *)

(* The "DHCP" field of the list is taken for the presence of a server; the *)
(* range of the server is not in the list.                                 *)
Read(e) == [e EXCEPT !.v4 = ifaces[e.id].v4,
                     !.v6 = IF ifaces[e.id].v6 = 0 THEN @ ELSE ifaces[e.id].v6,
                     !.dhcp = servers[e.id] # 0]

Refresh == /\ pc \in {"idle", "clean"}
           /\ \/ tf' = {Read(e) : e \in {e \in tf : e.id \in Mine}} /\ pc' = "plan" /\ UNCHANGED counters
              \/ tf # {} /\ Fault /\ pc' = "idle" /\ UNCHANGED tf
           /\ stale' = FALSE /\ UNCHANGED <<want, virtualBox, iface>>

Plan == /\ pc = "plan"
        /\ \/ /\ tf = {} /\ pc' = IF want = {} THEN "clean" ELSE "create"
              /\ UNCHANGED iface
           \/ /\ tf # {} /\ iface' = Entry.id
              /\ pc' = IF want = {} \/ Entry.tainted
                       THEN IF Entry.dhcp THEN "removeServer" ELSE "removeIface"
                       ELSE IF Entry = Planned(Entry.id) THEN "clean" ELSE "ipv4"
        /\ UNCHANGED <<want, tf, virtualBox, counters>>

-----------------------------------------------------------------------------
(* Create and update: the same commands, in an update for what has changed *)

(* One command that can be given in the current state if `can', or none.   *)
Command(issued, can, effect, next) ==
  /\ \/ issued /\ can /\ effect /\ pc' = next /\ UNCHANGED <<tf, counters>>
     \/ issued /\ ~can /\ Failed /\ UNCHANGED <<virtualBox, counters>>
     \/ issued /\ Fault /\ Failed /\ UNCHANGED virtualBox
     \/ ~issued /\ pc' = next /\ UNCHANGED <<tf, virtualBox, counters>>
  /\ UNCHANGED want

AddIface(i) == /\ ifaces' = [j \in Mine \cup {i} |-> IF j = i THEN [v4 |-> 0, v6 |-> 0] ELSE ifaces[j]]
               /\ refused' = refused \ {i} /\ UNCHANGED servers

(* The name is known only now; until SetId nobody else knows it.           *)
CreateIface == /\ pc = "create"
               /\ \/ \E i \in Ids \ Mine : /\ \A j \in Ids \ Mine : i <= j
                                           /\ Command(TRUE, TRUE, AddIface(i), "ipv4")
                                           /\ iface' = i
                  \/ Ids = Mine /\ Failed /\ UNCHANGED <<want, virtualBox, iface, counters>>

Changed(f) == \A e \in tf : e[f] # Wanted[f]
There      == iface \in Mine

SetIpv4 == /\ pc = "ipv4"
           /\ Command(Changed("v4"), There,
                      ifaces' = [ifaces EXCEPT ![iface].v4 = Wanted.v4] /\ UNCHANGED <<servers, refused>>, "ipv6")
           /\ UNCHANGED iface

(* An address that is no longer configured is not taken away.              *)
SetIpv6 == /\ pc = "ipv6"
           /\ Command(Changed("v6") /\ Wanted.v6 # 0, There,
                      ifaces' = [ifaces EXCEPT ![iface].v6 = Wanted.v6] /\ UNCHANGED <<servers, refused>>, "dhcp")
           /\ UNCHANGED iface

Had     == \E e \in tf : e.dhcp
Serves  == servers[iface] # 0
SetServer(r) == servers' = [servers EXCEPT ![iface] = r] /\ UNCHANGED <<ifaces, refused>>

Rangeless == Wanted.dhcp /\ Wanted.range = 0

(* dhcpserver remove, add or modify. A missing bound is found out only     *)
(* here, after a create has made the interface.                            *)
SetDhcp ==
  /\ pc = "dhcp" /\ UNCHANGED iface
  /\ LET set == Changed("dhcp") \/ Changed("range") IN
     CASE set /\ Rangeless   -> /\ Failed /\ UNCHANGED <<want, ifaces, servers, counters>>
                                /\ refused' = IF tf = {} THEN refused \cup {iface} ELSE refused
       [] set /\ ~Rangeless /\ ~Wanted.dhcp /\ Had -> Command(TRUE, Serves, SetServer(0), "read")
       [] set /\ ~Rangeless /\ Wanted.dhcp /\ Had  -> Command(TRUE, Serves, SetServer(Wanted.range), "read")
       [] set /\ ~Rangeless /\ Wanted.dhcp /\ ~Had -> Command(TRUE, There /\ ~Serves,
                                                              SetServer(Wanted.range), "read")
       [] OTHER              -> Command(FALSE, TRUE, UNCHANGED virtualBox, "read")

FinalRead_NoId == /\ pc = "read" /\ pc' = "idle"                         \* mutant
                  /\ tf' = {Read(e) : e \in {e \in tf : e.id \in Mine}}
                  /\ UNCHANGED <<want, virtualBox, iface, counters>>

(* SetId of a new interface, and the read at the end of both.              *)
FinalRead == /\ pc = "read" /\ pc' = "idle"
             /\ \/ /\ tf' = IF There THEN {Read(Planned(iface))} ELSE {}
                   /\ UNCHANGED counters
                \/ Fault /\ tf' = {[Planned(iface) EXCEPT !.tainted = (tf = {})]}
             /\ UNCHANGED <<want, virtualBox, iface>>

-----------------------------------------------------------------------------
(* resourceHostonlyNetworkDelete: the server first, if one is recorded     *)

RemoveServer ==
  /\ pc = "removeServer"
  /\ \/ Serves /\ SetServer(0) /\ pc' = "removeIface" /\ UNCHANGED counters
     \/ ~Serves /\ pc' = "idle" /\ UNCHANGED <<virtualBox, counters>>
     \/ Fault /\ pc' = "idle" /\ UNCHANGED virtualBox
  /\ UNCHANGED <<want, tf, iface>>

RemoveIface ==
  /\ pc = "removeIface" /\ pc' = "idle"
  /\ \/ /\ There /\ ifaces' = [j \in Mine \ {iface} |-> ifaces[j]] /\ tf' = {}
        /\ UNCHANGED <<servers, refused, counters>>
     \/ ~There /\ UNCHANGED <<tf, virtualBox, counters>>
     \/ Fault /\ UNCHANGED <<tf, virtualBox>>
  /\ UNCHANGED <<want, iface>>

-----------------------------------------------------------------------------
EditConfig == /\ pc \in {"idle", "clean"} /\ pc' = "idle"
              /\ edits < MaxEdits /\ edits' = edits + 1
              /\ want' \in {{}} \cup {{w} : w \in Configs}
              /\ UNCHANGED <<tf, virtualBox, iface, stale, events, faults>>

(* Another user changes the address of the interface, adds or removes its  *)
(* DHCP server, or removes both.                                           *)
Meddle == /\ events < MaxEvents /\ events' = events + 1 /\ stale' = TRUE
          /\ \E i \in Mine :
               \/ ifaces' = [ifaces EXCEPT ![i].v4 = 0] /\ UNCHANGED servers
               \/ servers' \in {[servers EXCEPT ![i] = r] : r \in {0, 1}} /\ UNCHANGED ifaces
               \/ /\ ifaces' = [j \in Mine \ {i} |-> ifaces[j]]
                  /\ servers' = [servers EXCEPT ![i] = 0]
          /\ UNCHANGED <<want, tf, pc, iface, refused, edits, faults>>

Init == /\ want \in {{w} : w \in Configs}
        /\ tf = {} /\ ifaces = <<>> /\ servers = [i \in Ids |-> 0]
        /\ pc = "idle" /\ iface = 1 /\ refused = {} /\ stale = FALSE
        /\ edits = 0 /\ events = 0 /\ faults = 0

Apply == /\ UNCHANGED stale
         /\ \/ Plan \/ CreateIface \/ SetIpv4 \/ SetIpv6 \/ SetDhcp \/ FinalRead
            \/ RemoveServer \/ RemoveIface

Next == Refresh \/ Apply \/ EditConfig \/ Meddle

(* Terraform is run again and again, and its commands return.              *)
Fairness == WF_vars(Refresh) /\ WF_vars(Apply)

Spec == Init /\ [][Next]_vars /\ Fairness

TypeOK ==
  /\ want \subseteq Configs /\ Cardinality(want) <= 1
  /\ tf \subseteq Entries /\ Cardinality(tf) <= 1
  /\ Mine \subseteq Ids /\ \A i \in Mine : ifaces[i] \in Ifaces
  /\ servers \in [Ids -> 0..2] /\ iface \in Ids /\ refused \subseteq Ids /\ stale \in BOOLEAN
  /\ pc \in {"idle", "plan", "clean", "create", "ipv4", "ipv6", "dhcp", "read",
             "removeServer", "removeIface"}
  /\ edits \in 0..MaxEdits /\ events \in 0..MaxEvents /\ faults \in 0..MaxFaults

-----------------------------------------------------------------------------
(* Properties                                                              *)

Known == {e.id : e \in tf}

(* A plan without changes means that the interface was as asked for when   *)
(* it was read, even after updates that failed half way and were recorded  *)
(* as done, in what is read back: the IPv4 address, the IPv6 address if the*)
(* interface has one, and whether there is a DHCP server. The range of the *)
(* server is never read: it is the one asked for as long as no command has *)
(* failed and nobody else has acted, and one is asked for.                 *)
CleanPlanMeansConfigured ==
  pc = "clean" /\ ~stale => \A w \in want, i \in Known :
    /\ ifaces[i].v4 = w.v4 /\ ifaces[i].v6 \in {0, w.v6} /\ (servers[i] # 0) = w.dhcp
    /\ faults + events = 0 /\ ~Rangeless => servers[i] = w.range

(* Between runs, an interface that Terraform does not know of is left by   *)
(* a command that failed, or by somebody else, and there are no more of    *)
(* them than that; or by a create that was refused for want of a range,    *)
(* which leaves one in every apply.                                        *)
LeaksComeFromFailures ==
  pc \in {"idle", "clean"} => Cardinality(Mine \ (Known \cup refused)) <= faults + events

(* Where repeating the apply does not help. An IPv6 address that is to go  *)
(* is not taken away; one that is recorded and not there is not missed, nor*)
(* is the recorded range of a server that has another. A configuration     *)
(* without a range is refused, and may have used up the names.             *)
DeadEnd(e, w) ==
  LET i == e.id IN
  /\ i \in Mine /\ ~e.tainted
  /\ \/ w.v6 = 0 /\ ifaces[i].v6 # 0
     \/ w.v6 # 0 /\ ifaces[i].v6 = 0 /\ e.v6 = w.v6
     \/ w.dhcp /\ e.range = w.range /\ servers[i] \notin {0, w.range}

Stuck == \/ \E e \in tf, w \in want : DeadEnd(e, w)
         \/ want # {} /\ Rangeless
         \/ pc = "create" /\ Ids = Mine /\ refused # {}

InPlace == \A e \in tf : /\ e.id \in Mine
                         /\ \A w \in want : /\ ifaces[e.id] = [v4 |-> w.v4, v6 |-> w.v6]
                                            /\ servers[e.id] = w.range

Settled == \/ pc = "clean" /\ (tf = {}) = (want = {}) /\ InPlace
           \/ Stuck

(* Otherwise, applying again and again comes to a plan without changes for *)
(* an interface that is as asked for, with its addresses and the range of  *)
(* its server, or for none if none is asked for: a delete that failed      *)
(* between its two commands is brought to its end.                         *)
Converges == []<>Settled

(* Left alone by others, a DHCP server does not outlive its interface: in  *)
(* VirtualBox it would serve the next interface that gets the same name.   *)
NoStrandedServers ==
  events = 0 /\ pc \in {"idle", "clean"} => \A i \in Ids \ Mine : servers[i] = 0
=============================================================================
