---------------------------- MODULE MCGoldImages ----------------------------
(* Values of GoldImages' constants for TLC: two VMs of a local image and   *)
(* one of an image that is downloaded; two images with the same base name. *)
EXTENDS GoldImages

CONSTANTS web, db, cache
ThreeVMs == {web, db, cache}
TwoVMs   == {web, db}
Mostly   == [v \in ThreeVMs |-> IF v = cache THEN "http://b/alpine.box" ELSE "debian.box"]
ByUrl    == [v \in TwoVMs |-> IF v = web THEN "http://a/vagrant.box" ELSE "http://b/vagrant.box"]
AllImages == {"debian.box", "http://b/alpine.box", "http://a/vagrant.box", "http://b/vagrant.box"}
Urls      == AllImages \ {"debian.box"}
BaseName  == [i \in AllImages |-> CASE i = "debian.box"          -> "debian.box"
                                    [] i = "http://b/alpine.box" -> "alpine.box"
                                    [] OTHER                     -> "vagrant.box"]
=============================================================================
