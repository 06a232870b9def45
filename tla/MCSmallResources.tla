-------------------------- MODULE MCSmallResources --------------------------
(* Values of SmallResources' constants for TLC: a NAT network with two udp *)
(* rules, a host-only network that may have a DHCP server, two snapshots,  *)
(* and two exports, the name of one beginning with that of the other.      *)
EXTENDS SmallResources

UdpRules  == <<"udp", "udp">>
FourIds   == 1..4
TwoNames  == {"a", "b"}
TwoBases  == {"web", "web2"}
WebPrefix == {<<"web", "web2">>}
=============================================================================
