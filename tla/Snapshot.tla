------------------------------ MODULE Snapshot ------------------------------
(***************************************************************************)
(* The virtualbox_snapshot resources of one VM over repeated runs of       *)
(* Terraform, which handles them concurrently; one action for each         *)
(* VBoxManage command. A resource is called by the name it gives its       *)
(* snapshot. A snapshot is found by its name once, when it has been taken, *)
(* and edited by its name; it is read and deleted by its UUID.             *)
(***************************************************************************)
EXTENDS Naturals, FiniteSets

CONSTANTS Names,      \* the resources
          MaxEdits,   \* bound on changes of the configuration
          MaxEvents,  \* bound on what other users of the VM do
          MaxFaults   \* bound on failing commands

VARIABLES want,       \* the description each is to have, 0 if it is not configured
          tf,         \* Terraform's record of each, {} if there is none
          host,       \* the snapshots of the VM; the list has the oldest one first
          pc,         \* where Terraform is with each
          taken,      \* how many have been taken: the UUID of the last one
          contested,  \* somebody has had a snapshot with the name of a resource
          edits, events, faults

vars == <<want, tf, host, pc, taken, contested, edits, events, faults>>
counters == <<edits, events, faults>>

Texts   == 1..2
Entries == [id : Nat \ {0}, name : Names \cup {"x"}, text : Texts]

Fault == faults < MaxFaults /\ faults' = faults + 1 /\ UNCHANGED <<edits, events>>

Goto(n, p)   == pc' = [pc EXCEPT ![n] = p]
Record(n, e) == tf' = [tf EXCEPT ![n] = e]

(* A failed update records what it was to do, a failed create nothing.     *)
Failed(n) == Goto(n, "idle") /\ Record(n, {[e EXCEPT !.text = want[n]] : e \in tf[n]})

-----------------------------------------------------------------------------
Entry(s) == [id |-> s.id, name |-> s.name, text |-> s.text]

(* listSnapshots, searched by name; the first one counts.                  *)
Named(n) == {s \in host : s.name = n /\ \A t \in host : t.name = n => s.id <= t.id}

(* resourceSnapshotRead. A list that fails counts as a missing snapshot.   *)
Lookup(n) ==
  \/ Record(n, {Entry(s) : s \in {s \in host : \E e \in tf[n] : e.id = s.id}}) /\ UNCHANGED counters
  \/ Fault /\ Record(n, {})

(* A run of Terraform reads all resources, plans, and applies the plans.   *)
AtRest == \A n \in Names : pc[n] \in {"idle", "clean"}

Start == AtRest /\ pc' = [n \in Names |-> "refresh"]
         /\ UNCHANGED <<want, tf, host, taken, contested, counters>>

Refresh(n) == /\ pc[n] = "refresh" /\ Goto(n, "plan")
              /\ IF tf[n] = {} THEN UNCHANGED <<tf, counters>> ELSE Lookup(n)
              /\ UNCHANGED <<want, host, taken, contested>>

Planned(n) == CASE want[n] = 0 /\ tf[n] = {} -> "clean"
                [] want[n] = 0 /\ tf[n] # {} -> "remove"
                [] want[n] # 0 /\ tf[n] = {} -> "take"
                [] OTHER -> LET e == CHOOSE e \in tf[n] : TRUE IN
                              IF e.name # n THEN "remove"
                              ELSE IF e.text # want[n] THEN "edit" ELSE "clean"

Plan == /\ \A n \in Names : pc[n] = "plan"
        /\ pc' = [n \in Names |-> Planned(n)]
        /\ UNCHANGED <<want, tf, host, taken, contested, counters>>

-----------------------------------------------------------------------------
(* VirtualBox takes snapshots of one name as often as it is asked to.      *)
New(n, by) == host \cup {[id |-> taken + 1, name |-> n, by |-> by,
                          text |-> IF by = n THEN want[n] ELSE 2]}

(* One of the snapshots gets another value in a field.                     *)
Changed(s, f, x) == (host \ {s}) \cup {[s EXCEPT ![f] = x]}

Take(n) == /\ pc[n] = "take"
           /\ \/ Goto(n, "find") /\ host' = New(n, n) /\ taken' = taken + 1
                 /\ UNCHANGED <<tf, counters>>
              \/ Fault /\ Failed(n) /\ UNCHANGED <<host, taken>>
           /\ UNCHANGED <<want, contested>>

Find_AnyName(n) ==                                                       \* mutant
  /\ pc[n] = "find" /\ Goto(n, "read")
  /\ \E s \in host : (\A t \in host : s.id <= t.id) /\ Record(n, {Entry(s)})
  /\ UNCHANGED <<want, host, taken, contested, counters>>

(* The search for the UUID that becomes the id.                            *)
Find(n) == /\ pc[n] = "find"
           /\ \/ \E s \in Named(n) : Goto(n, "read") /\ Record(n, {Entry(s)}) /\ UNCHANGED counters
              \/ Named(n) = {} /\ Failed(n) /\ UNCHANGED counters
              \/ Fault /\ Failed(n)
           /\ UNCHANGED <<want, host, taken, contested>>

Edit(n) == /\ pc[n] = "edit"
           /\ \/ \E s \in Named(n) : /\ Goto(n, "read") /\ host' = Changed(s, "text", want[n])
                                       /\ UNCHANGED <<tf, counters>>
              \/ Named(n) = {} /\ Failed(n) /\ UNCHANGED <<host, counters>>
              \/ Fault /\ Failed(n) /\ UNCHANGED host
           /\ UNCHANGED <<want, taken, contested>>

(* The read that ends a create or an update.                               *)
FinalRead(n) == /\ pc[n] = "read" /\ Goto(n, "idle") /\ Lookup(n)
                /\ UNCHANGED <<want, host, taken, contested>>

(* In a replacement, which a changed name brings about, the create comes   *)
(* next. A snapshot that is gone already is an error.                      *)
Remove(n) ==
  /\ pc[n] = "remove"
  /\ LET recorded(s) == \E e \in tf[n] : e.id = s.id IN
       \/ /\ \E s \in host : recorded(s)
          /\ host' = {s \in host : ~recorded(s)} /\ Record(n, {})
          /\ Goto(n, IF want[n] = 0 THEN "idle" ELSE "take") /\ UNCHANGED counters
       \/ (\A s \in host : ~recorded(s)) /\ Goto(n, "idle") /\ UNCHANGED <<tf, host, counters>>
       \/ Fault /\ Goto(n, "idle") /\ UNCHANGED <<tf, host>>
  /\ UNCHANGED <<want, taken, contested>>

-----------------------------------------------------------------------------
EditConfig(n) == /\ AtRest /\ Goto(n, "idle")
                 /\ edits < MaxEdits /\ edits' = edits + 1
                 /\ \E t \in {0} \cup Texts : want' = [want EXCEPT ![n] = t]
                 /\ UNCHANGED <<tf, host, taken, contested, events, faults>>

(* Another user takes, renames or deletes a snapshot.                      *)
Meddle == /\ events < MaxEvents /\ events' = events + 1
          /\ \/ \E n \in Names \cup {"x"} : host' = New(n, "other") /\ taken' = taken + 1
             \/ \E s \in host, n \in Names \cup {"x"} : host' = Changed(s, "name", n) /\ UNCHANGED taken
             \/ \E s \in host : host' = host \ {s} /\ UNCHANGED taken
          /\ contested' = (contested \/ \E s \in host' : s.name \in Names \ {s.by})
          /\ UNCHANGED <<want, tf, pc, edits, faults>>

Init == /\ want = [n \in Names |-> 1]
        /\ host \in {{}} \cup {{[id |-> 1, name |-> n, text |-> 2, by |-> "other"]} : n \in Names \cup {"x"}}
        /\ taken = Cardinality(host) /\ contested = \E s \in host : s.name \in Names
        /\ tf = [n \in Names |-> {}] /\ pc = [n \in Names |-> "idle"]
        /\ edits = 0 /\ events = 0 /\ faults = 0

Reads == Start \/ \E n \in Names : Refresh(n)

Apply == \/ Plan
         \/ /\ \A n \in Names : pc[n] \notin {"refresh", "plan"}
            /\ \E n \in Names : Take(n) \/ Find(n) \/ Edit(n) \/ FinalRead(n) \/ Remove(n)

Next == Reads \/ Apply \/ Meddle \/ \E n \in Names : EditConfig(n)

(* Terraform is run again and again, and its commands return.              *)
Fairness == WF_vars(Reads) /\ WF_vars(Apply)

Spec == Init /\ [][Next]_vars /\ Fairness

TypeOK ==
  /\ want \in [Names -> {0} \cup Texts]
  /\ tf \in [Names -> SUBSET Entries] /\ \A n \in Names : Cardinality(tf[n]) <= 1
  /\ host \subseteq [id : 1..taken, name : Names \cup {"x"}, text : Texts, by : Names \cup {"other"}]
  /\ \A s, t \in host : s.id = t.id => s = t
  /\ pc \in [Names -> {"idle", "refresh", "plan", "clean", "take", "find", "edit", "read", "remove"}]
  /\ contested \in BOOLEAN
  /\ edits \in 0..MaxEdits /\ events \in 0..MaxEvents /\ faults \in 0..MaxFaults

-----------------------------------------------------------------------------
(* Properties                                                              *)

(* As long as nobody's snapshot has the name of another's resource, what   *)
(* Terraform deletes or edits is the snapshot that the resource at work    *)
(* has taken, in all interleavings and after any failure.                  *)
TouchedAreOwn == \A s \in host \ host' :
  s.by \in Names /\ pc[s.by] \in {"edit", "remove"} /\ pc'[s.by] # pc[s.by]

OnlyOwnTouched == [][~contested /\ events' = events => TouchedAreOwn]_vars

(* Under the same condition a snapshot that a resource has taken is in its *)
(* record between runs, unless a command failed or somebody else acted.    *)
Lost(n) == /\ pc[n] \in {"idle", "clean"}
           /\ \E s \in host : s.by = n /\ \A e \in tf[n] : e.id # s.id

LossesComeFromFailures ==
  (\E n \in Names : Lost(n)) => contested \/ faults + events > 0

(* Where repeating the apply does not help: an older snapshot has the name *)
(* and gets the description instead.                                       *)
Stuck(n) == \E s, t \in host, e \in tf[n] :
              s.id < t.id /\ s.name = n /\ t.id = e.id /\ t.text # want[n]

Settled(n) == pc[n] = "clean" \/ Stuck(n)

(* Otherwise, applying again and again comes to an empty plan, after any   *)
(* failed command and whatever others do to the snapshots.                 *)
Converges == \A n \in Names : []<>Settled(n)
=============================================================================
