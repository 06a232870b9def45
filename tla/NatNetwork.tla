----------------------------- MODULE NatNetwork -----------------------------
(***************************************************************************)
(* A virtualbox_nat_network resource over repeated runs of Terraform:      *)
(* refresh (resourceNATNetworkRead), plan, and apply, one action for each  *)
(* VBoxManage command. The settings of the network are one value; a port   *)
(* forwarding rule r (its position in the configuration) has the port      *)
(* rules[r], 0 if it is not there.                                         *)
(***************************************************************************)
EXTENDS Naturals, FiniteSets

CONSTANTS Protocols,  \* Protocols[r]: "tcp" or "udp", for rules 1..N
          MaxEdits,   \* bound on changes of the configuration
          MaxEvents,  \* bound on what other users of the host do
          MaxFaults   \* bound on failing commands

VARIABLES want,  \* the configured network, {} if there is none
          tf,    \* Terraform's record of it, {} if there is none
          host,  \* the network VirtualBox has under its name
          pc,    \* where Terraform is
          rule,  \* the rule that a loop of the provider is at
          stale, \* auxiliary: another user has acted since the last refresh
          edits, events, faults

vars == <<want, tf, host, pc, rule, stale, edits, events, faults>>
counters == <<edits, events, faults>>

Rules    == DOMAIN Protocols
Networks == [net : 1..2, rules : [Rules -> 0..2]]
Entries  == [net : 1..2, rules : [Rules -> 0..2], tainted : BOOLEAN]
NoRules  == [r \in Rules |-> 0]

Fault == faults < MaxFaults /\ faults' = faults + 1 /\ UNCHANGED <<edits, events>>

Planned(w) == [net |-> w.net, rules |-> w.rules, tainted |-> FALSE]

(* A failed update records what it was to do, a failed create nothing.     *)
Failed == /\ pc' = "idle" /\ rule' = 1
          /\ tf' = IF tf = {} THEN {} ELSE {Planned(w) : w \in want}

-----------------------------------------------------------------------------
(* resourceNATNetworkRead. The lines of the list are trimmed before one of *)
(* a tcp rule is looked for by its indentation; without any rule found the *)
(* recorded ones stay.                                                     *)
Found(n) == [r \in Rules |-> IF Protocols[r] = "udp" THEN n.rules[r] ELSE 0]

Read_NotTheNetwork(e, n) ==                                              \* mutant
  [e EXCEPT !.rules = IF Found(n) = NoRules THEN @ ELSE Found(n)]

Read(e, n) == [e EXCEPT !.net = n.net,
                        !.rules = IF Found(n) = NoRules THEN @ ELSE Found(n)]

Refresh == /\ pc \in {"idle", "clean"}
           /\ \/ tf' = {Read(e, n) : e \in tf, n \in host} /\ pc' = "plan" /\ UNCHANGED counters
              \/ tf # {} /\ Fault /\ pc' = "idle" /\ UNCHANGED tf
           /\ stale' = FALSE /\ UNCHANGED <<want, host, rule>>

Plan == /\ pc = "plan"
        /\ \/ want = {} /\ pc' = IF tf = {} THEN "clean" ELSE "remove"
           \/ tf = {} /\ want # {} /\ pc' = "add"
           \/ \E w \in want, e \in tf :
                pc' = IF e.tainted THEN "remove"
                      ELSE IF e = Planned(w) THEN "clean" ELSE "modify"
        /\ UNCHANGED <<want, tf, host, rule, counters>>

-----------------------------------------------------------------------------
(* Create, update and delete                                               *)

(* A command that takes the network from each n of `from' to to(n).        *)
Command(from, to(_), next) ==
  /\ \/ \E n \in from : host' = to(n) /\ pc' = next /\ rule' = 1 /\ UNCHANGED <<tf, counters>>
     \/ from = {} /\ Failed /\ UNCHANGED <<host, counters>>
     \/ Fault /\ Failed /\ UNCHANGED host
  /\ UNCHANGED want

Add == /\ pc = "add"
       /\ LET new(w) == {[net |-> w.net, rules |-> NoRules]}
          IN  Command(IF host = {} THEN want ELSE {}, new, "addRules")

(* natnetwork modify, if a setting differs; then on to the rules.          *)
RulesDiffer == \E w \in want, e \in tf : w.rules # e.rules

Modify ==
  /\ pc = "modify"
  /\ LET next     == IF RulesDiffer THEN "deleteRules" ELSE "read"
         to(n)    == {[n EXCEPT !.net = (CHOOSE w \in want : TRUE).net]}
     IN \/ (\E w \in want, e \in tf : w.net # e.net) /\ Command(host, to, next)
        \/ /\ \E w \in want, e \in tf : w.net = e.net
           /\ pc' = next /\ UNCHANGED <<want, tf, host, rule, counters>>

Advance_OneTooFar(next) ==                                               \* mutant
  IF rule <= Cardinality(Rules) THEN rule' = rule + 1 /\ UNCHANGED pc
                                ELSE rule' = 1 /\ pc' = next

(* The next rule of the loop, or the step after it.                        *)
Advance(next) == IF rule < Cardinality(Rules) THEN rule' = rule + 1 /\ UNCHANGED pc
                                              ELSE rule' = 1 /\ pc' = next

(* The recorded rules are deleted; a failure is only logged.               *)
DeleteRule ==
  /\ pc = "deleteRules" /\ Advance("addRules")
  /\ LET recorded == \E e \in tf : e.rules[rule] # 0 IN
       \/ /\ host' = IF recorded THEN {[n EXCEPT !.rules[rule] = 0] : n \in host} ELSE host
          /\ UNCHANGED counters
       \/ recorded /\ Fault /\ UNCHANGED host
  /\ UNCHANGED <<want, tf>>

(* addPortForwardingRules: a rule that is there cannot be added.           *)
AddRule ==
  /\ pc = "addRules"
  /\ \E w \in want :
       \/ w.rules[rule] = 0 /\ Advance("read") /\ UNCHANGED <<tf, host, counters>>
       \/ /\ w.rules[rule] # 0
          /\ \/ \E n \in host : /\ n.rules[rule] = 0 /\ Advance("read")
                                /\ host' = {[n EXCEPT !.rules[rule] = w.rules[rule]]}
                                /\ UNCHANGED <<tf, counters>>
             \/ (\A n \in host : n.rules[rule] # 0) /\ Failed /\ UNCHANGED <<host, counters>>
             \/ Fault /\ Failed /\ UNCHANGED host
  /\ UNCHANGED want

(* SetId of a new network, and the read that ends a create or an update.   *)
FinalRead ==
  /\ pc = "read" /\ pc' = "idle"
  /\ \/ tf' = {Read(Planned(w), n) : w \in want, n \in host} /\ UNCHANGED counters
     \/ Fault /\ tf' = {[Planned(w) EXCEPT !.tainted = (tf = {})] : w \in want}
  /\ UNCHANGED <<want, host, rule>>

Remove ==
  /\ pc = "remove" /\ pc' = "idle"
  /\ \/ host # {} /\ host' = {} /\ tf' = {} /\ UNCHANGED counters
     \/ host = {} /\ UNCHANGED <<tf, host, counters>>
     \/ Fault /\ UNCHANGED <<tf, host>>
  /\ UNCHANGED <<want, rule>>

-----------------------------------------------------------------------------
EditConfig == /\ pc \in {"idle", "clean"} /\ pc' = "idle"
              /\ edits < MaxEdits /\ edits' = edits + 1
              /\ want' \in {{}} \cup {{n} : n \in Networks}
              /\ UNCHANGED <<tf, host, rule, stale, events, faults>>

(* Another user changes the network, drops a rule of it, or removes it.    *)
Meddle == /\ events < MaxEvents /\ events' = events + 1 /\ stale' = TRUE
          /\ \E n \in host :
               host' \in {{[n EXCEPT !.net = 3 - @]}, {}}
                           \cup {{[n EXCEPT !.rules[r] = 0]} : r \in Rules}
          /\ UNCHANGED <<want, tf, pc, rule, edits, faults>>

Init == /\ want \in {{n} : n \in Networks}
        /\ tf = {} /\ host = {} /\ pc = "idle" /\ rule = 1 /\ stale = FALSE
        /\ edits = 0 /\ events = 0 /\ faults = 0

Apply == /\ UNCHANGED stale
         /\ Plan \/ Add \/ Modify \/ DeleteRule \/ AddRule \/ FinalRead \/ Remove

Next == Refresh \/ Apply \/ EditConfig \/ Meddle

(* Terraform is run again and again, and its commands return.              *)
Fairness == WF_vars(Refresh) /\ WF_vars(Apply)

Spec == Init /\ [][Next]_vars /\ Fairness

TypeOK ==
  /\ want \subseteq Networks /\ Cardinality(want) <= 1
  /\ tf \subseteq Entries /\ Cardinality(tf) <= 1
  /\ host \subseteq Networks /\ Cardinality(host) <= 1
  /\ pc \in {"idle", "plan", "clean", "add", "modify", "deleteRules", "addRules", "read", "remove"}
  /\ rule \in Rules /\ stale \in BOOLEAN
  /\ edits \in 0..MaxEdits /\ events \in 0..MaxEvents /\ faults \in 0..MaxFaults

-----------------------------------------------------------------------------
(* Properties                                                              *)

(* A plan without changes means that VirtualBox had the network with the   *)
(* settings asked for when it was read, even after updates that failed half*)
(* way and were recorded as done; and if the read found any rules at all,  *)
(* those it found are those asked for (it finds no tcp rules, and of no    *)
(* rules makes nothing).                                                   *)
CleanPlanMeansSettings ==
  pc = "clean" /\ ~stale =>
    \A w \in want : \E n \in host : n.net = w.net /\ Found(n) \in {w.rules, NoRules}

(* A network of the provider's that Terraform does not know of comes only  *)
(* from a command that failed or from somebody else.                       *)
OrphansComeFromFailures ==
  pc \in {"idle", "clean"} /\ tf = {} /\ host # {} => faults + events > 0

(* Where repeating the apply does not help: a failed create left a network *)
(* under the name; and the last rule has gone behind Terraform's back (an  *)
(* update failed between deleting and adding, or somebody deleted it),     *)
(* which the read does not notice as long as those rules are asked for.    *)
Stuck == /\ pc \in {"idle", "clean"}
         /\ \/ tf = {} /\ host # {}
            \/ \E e \in tf, w \in want, n \in host : /\ n.rules = NoRules /\ w.rules # NoRules
                                                     /\ e.rules = w.rules /\ ~e.tainted

InPlace == /\ {n.net : n \in host} = {w.net : w \in want}
           /\ {n.rules : n \in host} = {w.rules : w \in want}

Settled == (pc = "clean" /\ InPlace) \/ Stuck

(* Outside these, applying again and again comes to a plan without changes *)
(* for a network that has exactly the settings and rules asked for, after  *)
(* failed commands and other users' changes too.                           *)
Converges == []<>Settled
=============================================================================
