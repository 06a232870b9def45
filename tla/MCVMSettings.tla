---------------------------- MODULE MCVMSettings ----------------------------
(***************************************************************************)
(* Values of VMParts' constants for TLC: adapters one per behaviour of the *)
(* code, among them those converted from Vagrantfiles, and storage with    *)
(* and without each kind of medium.                                        *)
(***************************************************************************)
EXTENDS VMParts

Vagrant == INSTANCE Vagrantfile

(* Vagrantfiles with ports forwarded to different guest ports, to one      *)
(* guest port, and with a public network whose bridge is not named.        *)
Forward(g, h) == [guest |-> g, host |-> h]
File(fs, n, bs, sh) == [forwards |-> fs, privates |-> n, bridges |-> bs, shell |-> sh]
Vagrantfiles ==
  {File(<<Forward("80", "tcp 8080"), Forward("22", "tcp 2222")>>, 1, <<>>, FALSE),
   File(<<Forward("53", "tcp 5300"), Forward("53", "udp 5300")>>, 0, <<>>, FALSE),
   File(<<>>, 0, <<"">>, FALSE), File(<<>>, 0, <<"en0">>, FALSE), File(<<>>, 0, <<>>, TRUE)}

Plain(t, n) == [Vagrant!Adapter(t) EXCEPT !.net = n]
Web         == <<[name |-> "web", port |-> "tcp 80"]>>
AdapterLists ==
  {<<>>, <<Plain("hostonly", "vboxnet0")>>, <<Plain("nat", ""), Plain("bridged", "en0")>>, <<Plain("nat", ""), Plain("nat", "")>>,
   <<Plain("natnetwork", "lab")>>, <<[Plain("natnetwork", "lab") EXCEPT !.rules = Web]>>,
   <<[Plain("nat", "") EXCEPT !.device = "VirtIO"]>>, <<[Plain("nat", "") EXCEPT !.device = "82545EM"]>>,
   <<[Plain("nat", "") EXCEPT !.promisc = TRUE, !.dns = TRUE, !.cable = FALSE]>>,
   <<Plain("internal", "")>>, <<Plain("intnet", "")>>, <<Plain("hostonly", "")>>,
   [i \in 1..4 |-> Plain("nat", "")]}
  \cup {Vagrant!NetworkAdapters(v) : v \in {v \in Vagrantfiles : Vagrant!Converts(v)}}

(* A machine of an image has one NAT adapter; that of an appliance may     *)
(* have more, with rules, and with an empty slot between them.             *)
Slot(t, rs) == [type |-> t, device |-> "82540EM", net |-> "", promisc |-> FALSE, cable |-> TRUE,
                dns |-> FALSE, rules |-> rs]
None == Slot("none", {})
Old  == [name |-> "old", port |-> "tcp 81"]
NewMachines == {<<Slot("nat", {}), None, None>>, <<Slot("nat", {Old}), None, None>>,
                <<Slot("intnet", {}), Slot("nat", {Web[1], Old}), None>>,
                <<Slot("nat", {}), None, Slot("nat", {})>>}

(* Storage: images with a configdrive or without, ISO files of one base    *)
(* name, controllers with and without a number of ports or of one name,    *)
(* attachments that fit, that take a slot which is in use or attach a disk *)
(* again, and that have no port.                                           *)
Iso(d)     == [dir |-> d, base |-> "tools.iso"]
At(c, p, m) == [ctl |-> c, port |-> p, medium |-> m]
StorageAsked ==
  [image       : {{"disk1"}, {"configdrive", "disk1"}, {"configdrive", "disk1", "disk2"}},
   opticals    : {<<>>, <<Iso("a")>>, <<Iso("a"), Iso("b")>>},
   controllers : {<<>>, <<[name |-> "SATA", ports |-> 4]>>,
                  <<[name |-> "NVMe", ports |-> 0], [name |-> "IDE", ports |-> 2]>>,
                  <<[name |-> "IDE", ports |-> 0], [name |-> "IDE", ports |-> 2]>>},
   attachments : {<<>>, <<At("SATA", 0, "data")>>, <<At("NVMe", 0, "data"), At("IDE", 1, "more")>>,
                  <<At("IDE", 2, "data")>>, <<At("IDE", -1, "data")>>, <<At("IDE", 0, "disk1")>>,
                  <<At("NVMe", 0, "data"), At("NVMe", 0, "more")>>}]

DiskFiles == <<"configdrive", "disk1", "disk2", "old">>
=============================================================================
