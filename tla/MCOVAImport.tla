----------------------------- MODULE MCOVAImport -----------------------------
(* Values of OVAImport's constants for TLC.                                *)
EXTENDS OVAImport

CONSTANTS web, db
TwoVMs   == {web, db}
OneVM    == {web}
OwnNames == [v \in TwoVMs |-> IF v = web THEN "web" ELSE "db"]
OneName  == [v \in OneVM |-> "web"]
=============================================================================
