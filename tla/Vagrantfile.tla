----------------------------- MODULE Vagrantfile -----------------------------
(***************************************************************************)
(* What vagrant2terraform makes of the networks of a Vagrantfile: the      *)
(* network_adapter blocks of a virtualbox_vm. A Vagrantfile is a record of *)
(* what the regular expressions find: the forwarded ports, the number of   *)
(* private networks, and the bridge of each public network, "" if none is  *)
(* named.                                                                  *)
(***************************************************************************)
EXTENDS Naturals, Sequences

(* What the schema fills in where the HCL says nothing.                    *)
Adapter(type) == [type |-> type, device |-> "IntelPro1000MTServer", net |-> "", promisc |-> FALSE,
                  cable |-> TRUE, dns |-> FALSE, rules |-> <<>>]

(* A rule is called after its guest port alone, whatever the protocol. The *)
(* names of ports differ where the ports do, so that the port stands for it. *)
PortForwarding(f) == [name |-> f.guest, port |-> f.host]

NatAdapter(v) ==
  [Adapter("nat") EXCEPT !.rules = [i \in DOMAIN v.forwards |-> PortForwarding(v.forwards[i])]]

HostOnlyAdapter == [Adapter("hostonly") EXCEPT !.net = "VirtualBox Host-Only Ethernet Adapter"]

BridgedAdapter(bridge) == [Adapter("bridged") EXCEPT !.net = bridge]

NetworkAdapters(v) == <<NatAdapter(v)>>
                        \o [i \in 1..v.privates |-> HostOnlyAdapter]
                        \o [i \in DOMAIN v.bridges |-> BridgedAdapter(v.bridges[i])]

(* The second group of an expression with one group is asked for as soon   *)
(* as there is an inline shell provisioner: nothing is written then.       *)
Converts(v) == ~v.shell
=============================================================================
