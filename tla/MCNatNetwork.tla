---------------------------- MODULE MCNatNetwork ----------------------------
(* A NAT network with a tcp rule before a udp rule.                        *)
EXTENDS NatNetwork

TcpThenUdp == <<"tcp", "udp">>
=============================================================================
