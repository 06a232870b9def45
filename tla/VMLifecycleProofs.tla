-------------------------- MODULE VMLifecycleProofs --------------------------
(***************************************************************************)
(* Proofs about VMLifecycle: for any ways to create the VM, any settings,  *)
(* and any number of edits, events and failing commands.                   *)
(***************************************************************************)
EXTENDS VMLifecycle, FiniteSetTheorems, TLAPS

(* Sets of at most one element: a record or none, a machine or none.       *)
AtMostOne(S) == \A x, y \in S : x = y

LEMMA AtMostOneCounts ==
  ASSUME NEW S, AtMostOne(S)
  PROVE  Cardinality(S) <= 1
<1>1. CASE S = {}
  BY <1>1, FS_EmptySet
<1>2. CASE S # {}
  <2>1. PICK x \in S : S = {x}
    BY <1>2 DEF AtMostOne
  <2>2. Cardinality(S) = 1
    BY <2>1, FS_Singleton
  <2> QED
    BY <2>2
<1> QED
  BY <1>1, <1>2

Steps == {"idle", "clean", "plan", "register", "configure", "tune", "start",
          "finish", "query", "wait", "replace"}

(* The type invariant in the form that is kept by every step.              *)
Typed == /\ path \in Paths /\ want \in Configs
         /\ tf \subseteq Entries /\ AtMostOne(tf)
         /\ host \subseteq Machines /\ AtMostOne(host)
         /\ pc \in Steps
         /\ edits \in 0..MaxEdits /\ events \in 0..MaxEvents /\ faults \in 0..MaxFaults
         /\ failed \in BOOLEAN /\ wrong \in BOOLEAN /\ seen \in 0..events

(* What Terraform records of an operation, and what a read makes of it, is *)
(* a record again.                                                         *)
LEMMA RecordsAreEntries ==
  ASSUME Typed
  PROVE  /\ Planned \in Entries
         /\ [Planned EXCEPT !.tainted = (tf = {})] \in Entries
         /\ \A e \in Entries, m \in Machines : Read(e, m) \in Entries
<1>1. WantedStatus \in Powers \cup {"unset"}
  <2>1. CASE tf = {}
    BY <2>1 DEF WantedStatus, Typed, Configs, Powers
  <2>2. CASE tf # {}
    <3>1. (CHOOSE e \in tf : TRUE) \in Entries
      BY <2>2 DEF Typed
    <3> QED
      BY <3>1 DEF WantedStatus, Typed, Configs, Powers, Entries
  <2> QED
    BY <2>1, <2>2
<1>2. want.spec \in Specs /\ want.boot \in 0..Slots
  BY ConstantsAssumption DEF Typed, Configs, Slots
<1>3. Planned \in Entries
  BY <1>1, <1>2 DEF Planned, Entries, Values
<1>4. [Planned EXCEPT !.tainted = (tf = {})] \in Entries
  BY <1>3 DEF Entries
<1>5. ASSUME NEW e \in Entries, NEW m \in Machines
      PROVE  Read(e, m) \in Entries
  <2>1. m.power \in Powers \cup {"unset"} /\ m.base \in Values
    BY DEF Machines
  <2>2. Slots \in 0..Slots
    BY DEF Slots
  <2>3. [e EXCEPT !.status = m.power] \in Entries
    BY <2>1 DEF Entries
  <2>4. [e EXCEPT !.status = m.power, !.base = m.base] \in Entries
    BY <2>1, <2>3 DEF Entries
  <2> QED
    BY <2>2, <2>4 DEF Read, Entries
<1> QED
  BY <1>3, <1>4, <1>5

(* A failed operation leaves at most one record.                           *)
LEMMA FailedIsTyped ==
  ASSUME Typed, Failed
  PROVE  /\ tf' \subseteq Entries /\ AtMostOne(tf') /\ pc' \in Steps
         /\ failed' \in BOOLEAN /\ UNCHANGED <<wrong, seen>>
BY RecordsAreEntries DEF Failed, Fails, AtMostOne, Steps

LEMMA FaultIsTyped ==
  ASSUME Typed, Fault
  PROVE  /\ edits' \in 0..MaxEdits /\ events' \in 0..MaxEvents /\ faults' \in 0..MaxFaults
         /\ UNCHANGED events
BY ConstantsAssumption DEF Typed, Fault

(* The machine of the record is the registered one.                        *)
LEMMA OursIsHost ==
  ASSUME Typed
  PROVE  /\ Ours \subseteq host /\ Ours \subseteq Machines /\ AtMostOne(Ours)
         /\ \A m \in Ours : host = {m} /\ Ours = {m}
BY DEF Ours, Typed, AtMostOne

(* Every step keeps the types, and one record and one machine at most.     *)
LEMMA NextTyped ==
  ASSUME Typed, [Next]_vars
  PROVE  Typed'
<1> DEFINE HostTyped == host' \subseteq Machines /\ AtMostOne(host')
           TfTyped   == tf' \subseteq Entries /\ AtMostOne(tf')
           Counted   == /\ edits' \in 0..MaxEdits /\ events' \in 0..MaxEvents
                        /\ faults' \in 0..MaxFaults
                        /\ failed' \in BOOLEAN /\ wrong' \in BOOLEAN /\ seen' \in 0..events'
<1>1. CASE Refresh
  <2>1. TfTyped
    BY <1>1, RecordsAreEntries, OursIsHost DEF Refresh, Typed, AtMostOne
  <2> QED
    BY <1>1, <2>1, FaultIsTyped DEF Refresh, Typed, Steps, counters, aux
<1>2. CASE Plan
  BY <1>2 DEF Plan, Typed, Steps, counters, aux
<1>3. CASE Register
  <2>1. HostTyped
    BY <1>3 DEF Register, New, Machine, Machines, Powers, Values, AtMostOne, Typed
  <2>2. TfTyped /\ pc' \in Steps
    BY <1>3, FailedIsTyped DEF Register, Typed, Steps
  <2>3. Counted
    BY <1>3, FaultIsTyped, FailedIsTyped DEF Register, Typed, counters, aux
  <2> QED
    BY <1>3, <2>1, <2>2, <2>3 DEF Register, Typed
<1>4. CASE Configure
  <2>1. CASE ~Converts
    BY <1>4, <2>1, RecordsAreEntries DEF Configure, Fails, Typed, Steps, AtMostOne, counters
  <2>2. CASE Converts
    <3>1. HostTyped
      BY <1>4, <2>2, OursIsHost DEF Configure, Command, Machines, Values, AtMostOne, Typed, Configs
    <3>2. TfTyped /\ pc' \in Steps
      BY <1>4, <2>2, FailedIsTyped DEF Configure, Command, Typed, Steps
    <3>3. Counted
      <4>1. \/ UNCHANGED <<counters, failed, wrong>> /\ seen' = events
            \/ Failed /\ (Fault \/ UNCHANGED counters)
        BY <1>4, <2>2 DEF Configure, Command, counters
      <4> QED
        BY <4>1, FaultIsTyped, FailedIsTyped DEF Typed, counters
    <3> QED
      BY <1>4, <2>2, <3>1, <3>2, <3>3 DEF Configure, Command, Typed
  <2> QED
    BY <2>1, <2>2
<1>5. CASE Tune
  <2>1. HostTyped
    BY <1>5, OursIsHost DEF Tune, Command, Machines, Values, AtMostOne, Typed, Configs
  <2>2. TfTyped /\ pc' \in Steps
    BY <1>5, FailedIsTyped DEF Tune, Command, Typed, Steps
  <2>3. Counted
    BY <1>5, FaultIsTyped, FailedIsTyped DEF Tune, Command, Typed, counters, aux
  <2> QED
    BY <1>5, <2>1, <2>2, <2>3 DEF Tune, Command, Typed
<1>6. CASE Start
  <2>1. HostTyped
    BY <1>6, OursIsHost DEF Start, Command, Machines, Powers, AtMostOne, Typed
  <2>2. TfTyped /\ pc' \in Steps
    BY <1>6, FailedIsTyped DEF Start, Command, Typed, Steps
  <2>3. Counted
    BY <1>6, FaultIsTyped, FailedIsTyped DEF Start, Command, Typed, counters, aux
  <2> QED
    BY <1>6, <2>1, <2>2, <2>3 DEF Start, Command, Typed
<1>7. CASE Finish
  <2>1. TfTyped
    BY <1>7, RecordsAreEntries, OursIsHost DEF Finish, AtMostOne
  <2> QED
    BY <1>7, <2>1, FaultIsTyped DEF Finish, Typed, Steps, counters, aux
<1>8. CASE Query
  <2>1. HostTyped
    BY <1>8, OursIsHost DEF Query, Command, AtMostOne, Typed
  <2>2. TfTyped /\ pc' \in Steps
    BY <1>8, FailedIsTyped DEF Query, Command, Typed, Steps
  <2>3. Counted
    BY <1>8, FaultIsTyped, FailedIsTyped DEF Query, Command, Typed, counters, aux
  <2> QED
    BY <1>8, <2>1, <2>2, <2>3 DEF Query, Command, Typed
<1>9. CASE WaitForPoweroff
  <2>1. TfTyped /\ pc' \in Steps
    BY <1>9, FailedIsTyped DEF WaitForPoweroff, Typed, Steps
  <2>2. Counted
    BY <1>9, FaultIsTyped, FailedIsTyped DEF WaitForPoweroff, Typed, counters, aux
  <2> QED
    BY <1>9, <2>1, <2>2 DEF WaitForPoweroff, Typed
<1>10. CASE Replace \/ Destroy
  <2>1. HostTyped
    <3>1. host' = host \ Ours \/ host' = host \/ \E m \in Ours : host' = {[m EXCEPT !.power = "poweroff"]}
      BY <1>10 DEF Replace, Destroy, Delete
    <3> QED
      BY <3>1, OursIsHost DEF Machines, Powers, Values, AtMostOne, Typed
  <2>2. Counted
    BY <1>10, ConstantsAssumption DEF Replace, Destroy, Delete, Typed, aux
  <2> QED
    BY <1>10, <2>1, <2>2 DEF Replace, Destroy, Delete, Typed, Steps, AtMostOne
<1>11. CASE EditConfig
  BY <1>11, ConstantsAssumption DEF EditConfig, Typed, Steps, aux
<1>12. CASE GuestObeys \/ GuestStops \/ Meddle
  <2>1. HostTyped
    BY <1>12, OursIsHost DEF GuestObeys, GuestStops, Meddle, Machine, Machines, Powers,
                             Values, AtMostOne, Typed
  <2>2. Counted
    BY <1>12, ConstantsAssumption DEF GuestObeys, GuestStops, Meddle, Event, Typed, counters, aux
  <2> QED
    BY <1>12, <2>1, <2>2 DEF GuestObeys, GuestStops, Meddle, Event, Typed
<1>13. CASE UNCHANGED vars
  BY <1>13 DEF vars, counters, aux, Typed
<1> QED
  BY <1>1, <1>2, <1>3, <1>4, <1>5, <1>6, <1>7, <1>8, <1>9, <1>10, <1>11, <1>12, <1>13
     DEF Next, Apply

(* The record, the machine and where Terraform is stay well typed; there   *)
(* is one machine under the name, and one record of it, at most.           *)
THEOREM TypedThroughout == Spec => []Typed
<1>1. Init => Typed
  <2>1. ASSUME Init
        PROVE  /\ host \subseteq Machines /\ AtMostOne(host)
               /\ seen \in 0..events
    BY <2>1 DEF Init, Machine, Machines, Powers, Values, AtMostOne
  <2>2. 0 \in 0..MaxEdits /\ 0 \in 0..MaxEvents /\ 0 \in 0..MaxFaults
    BY ConstantsAssumption
  <2>3. Init => path \in Paths /\ want \in Configs /\ tf = {} /\ pc \in Steps
    BY DEF Init, Steps
  <2>4. Init => edits = 0 /\ events = 0 /\ faults = 0 /\ failed \in BOOLEAN /\ wrong \in BOOLEAN
    BY DEF Init
  <2> QED
    BY <2>1, <2>2, <2>3, <2>4 DEF Typed, AtMostOne
<1> QED
  BY <1>1, NextTyped, PTL DEF Spec

(* The same as the runs state it, with the size of the sets instead of the *)
(* equality of their elements.                                             *)
THEOREM TypeCorrect == Spec => []TypeOK
<1>1. Typed => TypeOK
  BY AtMostOneCounts DEF Typed, TypeOK, Steps
<1> QED
  BY <1>1, TypedThroughout, PTL

-----------------------------------------------------------------------------
(* What the plan compares is what the refresh has read: an event after it  *)
(* may change the power state, but only modifyVM changes the settings. Of  *)
(* those that no read fetches the record is right from the end of one      *)
(* apply to modifyVM of the next, if none has failed.                      *)
ReadBack == pc = "plan" => \A e \in tf, m \in Ours :
                             e.base = m.base /\ (events = seen => e.status = m.power)

Trusted == ~failed /\ pc \notin {"tune", "start", "finish"} =>
             \A e \in tf, m \in Ours : e.flags = m.flags /\ e.extras = m.extras

(* How far an apply has come with the machine.                             *)
Progress == /\ pc = "register" => tf = {}
            /\ pc \in {"tune", "start", "finish"} =>
                 \A m \in Ours : m.base = want.spec /\ m.flags = want.spec
            /\ pc \in {"start", "finish"} => \A m \in Ours : m.extras = want.spec

PowerKnown ==
  /\ pc = "start" /\ events = seen => \A m \in Ours : m.power \in {"poweroff", "aborted"}
  /\ pc = "finish" /\ events = seen =>
       \A m \in Ours : IF WantedStatus = "poweroff" THEN m.power \in {"poweroff", "aborted"}
                                                   ELSE m.power = "running"

PlanInv == ReadBack /\ Trusted /\ Progress /\ PowerKnown /\ CleanPlanMeansConfigured

(* An event changes no setting, and is one more than have been seen.       *)
LEMMA EventsKeepSettings ==
  ASSUME Typed, GuestStops \/ Meddle
  PROVE  /\ events' # seen' /\ UNCHANGED <<path, want, tf, pc, aux>>
         /\ \A m \in Ours' : \E n \in Ours :
              m.base = n.base /\ m.flags = n.flags /\ m.extras = n.extras
<1>1. events' # seen' /\ UNCHANGED <<path, want, tf, pc, aux>>
  BY ConstantsAssumption DEF GuestStops, Meddle, Event, Typed, aux
<1>2. ASSUME NEW m \in Ours'
      PROVE  \E n \in Ours : m.base = n.base /\ m.flags = n.flags /\ m.extras = n.extras
  BY OursIsHost DEF GuestStops, Meddle, Machine, Machines, Typed, Ours
<1> QED
  BY <1>1, <1>2

(* An operation that fails ends the apply, and nothing is trusted after it.*)
LEMMA FailsKeepsPlanInv ==
  ASSUME Typed, NEW w, Fails(w)
  PROVE  PlanInv'
BY DEF Fails, PlanInv, ReadBack, Trusted, Progress, PowerKnown, CleanPlanMeansConfigured

(* Every step keeps it.                                                    *)
LEMMA NextPlanInv ==
  ASSUME Typed, Typed', PlanInv, [Next]_vars
  PROVE  PlanInv'
<1>0. ASSUME Failed PROVE PlanInv'
  BY <1>0, FailsKeepsPlanInv DEF Failed
<1> USE DEF PlanInv, ReadBack, Trusted, Progress, PowerKnown, CleanPlanMeansConfigured
<1>1. CASE Refresh
  <2>1. ASSUME pc' = "plan", NEW e \in tf', NEW m \in Ours'
        PROVE  /\ e.base = m.base /\ e.status = m.power
               /\ ~failed' => e.flags = m.flags /\ e.extras = m.extras
    <3>1. PICK f \in tf, n \in Ours : e = Read(f, n)
      BY <1>1, <2>1 DEF Refresh
    <3>2. n = m /\ f \in Entries
      BY <1>1, OursIsHost DEF Typed, AtMostOne, Refresh, Ours
    <3>3. e.base = n.base /\ e.status = n.power /\ e.flags = f.flags /\ e.extras = f.extras
      BY <3>1, <3>2 DEF Read, Entries
    <3>4. failed' = failed /\ pc \in {"idle", "clean"}
      BY <1>1 DEF Refresh
    <3> QED
      BY <3>1, <3>2, <3>3, <3>4
  <2>2. CASE pc' = "plan"
    BY <1>1, <2>1, <2>2
  <2>3. CASE pc' # "plan"
    BY <1>1, <2>3 DEF Refresh, Ours
  <2> QED
    BY <2>2, <2>3
<1>2. CASE Plan
  <2>1. UNCHANGED <<want, tf, host, counters, aux>> /\ pc = "plan"
    BY <1>2 DEF Plan
  <2>2. CASE tf = {} /\ pc' = "register"
    BY <2>1, <2>2 DEF Ours, counters, aux
  <2>3. ASSUME NEW e \in tf,
               pc' = IF e.tainted THEN "replace" ELSE IF Differs(e) THEN "query" ELSE "clean"
        PROVE  PlanInv'
    BY <2>1, <2>3 DEF Ours, counters, aux, Differs
  <2> QED
    BY <1>2, <2>2, <2>3 DEF Plan
<1>3. CASE Register
  <2>1. CASE Failed
    BY <1>0, <2>1
  <2>2. CASE pc' = "configure" /\ UNCHANGED <<tf, counters, aux>>
    BY <1>3, <2>2 DEF Register, counters, aux
  <2> QED
    BY <1>3, <2>1, <2>2 DEF Register
<1>4. CASE Configure
  <2>1. CASE ~Converts
    BY <1>4, <2>1, FailsKeepsPlanInv DEF Configure
  <2>2. CASE Failed
    BY <1>0, <2>2
  <2>3. ASSUME Converts, ~Failed
        PROVE  PlanInv'
    <3>1. PICK m \in Ours : /\ host' = {[m EXCEPT !.base = want.spec, !.flags = want.spec]}
                            /\ pc' = "tune" /\ UNCHANGED <<tf, want>>
      BY <1>4, <2>3 DEF Configure, Command
    <3>2. m \in Machines
      BY OursIsHost
    <3> QED
      BY <3>1, <3>2 DEF Machines, Ours
  <2> QED
    BY <2>1, <2>2, <2>3
<1>5. CASE Tune
  <2>1. CASE Failed
    BY <1>0, <2>1
  <2>2. CASE ~Failed
    <3>1. PICK m \in Ours : /\ host' = {[m EXCEPT !.extras = want.spec]}
                            /\ m.power \in {"poweroff", "aborted"}
                            /\ pc = "tune" /\ pc' = "start" /\ UNCHANGED <<tf, want>>
      BY <1>5, <2>2 DEF Tune, Command
    <3>2. m \in Machines
      BY OursIsHost
    <3> QED
      BY <3>1, <3>2 DEF Machines, Ours
  <2> QED
    BY <2>1, <2>2
<1>6. CASE Start
  <2>1. CASE Failed
    BY <1>0, <2>1
  <2>2. CASE WantedStatus = "poweroff" /\ ~Failed
    BY <1>6, <2>2 DEF Start, counters, aux, Ours, WantedStatus
  <2>3. CASE WantedStatus # "poweroff" /\ ~Failed
    <3>1. PICK m \in Ours : /\ host' = {[m EXCEPT !.power = "running"]}
                            /\ pc = "start" /\ pc' = "finish" /\ UNCHANGED <<tf, want>>
      BY <1>6, <2>3 DEF Start, Command
    <3>2. m \in Machines
      BY OursIsHost
    <3>3. WantedStatus' # "poweroff"
      BY <2>3, <3>1 DEF WantedStatus
    <3> QED
      BY <3>1, <3>2, <3>3 DEF Machines, Ours
  <2> QED
    BY <2>1, <2>2, <2>3
<1>7. CASE Finish
  <2>1. CASE failed'
    BY <1>7, <2>1 DEF Finish
  <2>2. ASSUME ~failed', NEW e \in tf', NEW m \in Ours'
        PROVE  e.flags = m.flags /\ e.extras = m.extras
    <3>1. PICK n \in Ours : e = Read(Planned, n)
      BY <1>7, <2>2 DEF Finish
    <3>2. e.flags = want.spec /\ e.extras = want.spec
      BY <3>1, RecordsAreEntries DEF Read, Planned
    <3> QED
      BY <1>7, <2>2, <3>2 DEF Finish, Ours
  <2> QED
    BY <1>7, <2>1, <2>2 DEF Finish
<1>8. CASE Query
  <2>1. CASE Failed
    BY <1>0, <2>1
  <2>2. CASE ~Failed
    <3>1. PICK m \in Ours : /\ host' = {m} /\ UNCHANGED <<tf, want, failed>>
                            /\ pc = "query" /\ pc' \in {"wait", "configure"}
      BY <1>8, <2>2 DEF Query, Command
    <3>2. Ours' = Ours
      BY <3>1, OursIsHost DEF Ours
    <3> QED
      BY <3>1, <3>2
  <2> QED
    BY <2>1, <2>2
<1>9. CASE WaitForPoweroff
  <2>1. CASE Failed
    BY <1>0, <2>1
  <2>2. CASE ~Failed
    BY <1>9, <2>2 DEF WaitForPoweroff, counters, aux, Ours
  <2> QED
    BY <2>1, <2>2
<1>10. CASE Replace \/ Destroy
  <2>1. CASE tf' = {} /\ pc' \in {"register", "idle"}
    BY <2>1
  <2>2. ASSUME tf' = tf, pc' = "idle"
        PROVE  PlanInv'
    <3>1. ASSUME NEW m \in Ours'
          PROVE  \E n \in Ours : m.flags = n.flags /\ m.extras = n.extras
      BY <1>10, <2>2, <3>1, OursIsHost DEF Replace, Destroy, Delete, Machines, Ours
    <3>2. failed' = failed /\ pc \notin {"tune", "start", "finish"}
      BY <1>10 DEF Replace, Destroy, Delete, aux
    <3> QED
      BY <2>2, <3>1, <3>2
  <2> QED
    BY <1>10, <2>1, <2>2 DEF Replace, Destroy, Delete
<1>11. CASE EditConfig
  BY <1>11 DEF EditConfig, aux, Ours
<1>12. CASE GuestObeys
  <2>1. ASSUME NEW m \in Ours'
        PROVE  \E n \in Ours : m.flags = n.flags /\ m.extras = n.extras
    BY <1>12, <2>1, OursIsHost DEF GuestObeys, Machines, Ours
  <2> QED
    BY <1>12, <2>1 DEF GuestObeys, aux
<1>13. CASE GuestStops \/ Meddle
  <2>1. /\ events' # seen' /\ UNCHANGED <<want, tf, pc, failed>>
        /\ \A m \in Ours' : \E n \in Ours :
             m.base = n.base /\ m.flags = n.flags /\ m.extras = n.extras
    BY <1>13, EventsKeepSettings DEF aux
  <2> QED
    BY <2>1
<1>14. CASE UNCHANGED vars
  BY <1>14 DEF vars, counters, aux, Ours, WantedStatus
<1> QED
  BY <1>1, <1>2, <1>3, <1>4, <1>5, <1>6, <1>7, <1>8, <1>9, <1>10, <1>11, <1>12, <1>13, <1>14
     DEF Next, Apply

LEMMA PlanInvHolds == Spec => []PlanInv
<1>1. Init => PlanInv
  BY DEF Init, PlanInv, ReadBack, Trusted, Progress, PowerKnown, CleanPlanMeansConfigured
<1>2. Typed /\ Typed' /\ PlanInv /\ [Next]_vars => PlanInv'
  BY NextPlanInv
<1> QED
  BY <1>1, <1>2, TypedThroughout, PTL DEF Spec

(* An empty plan means that the machine has the configured cpus, memory    *)
(* and adapters, whatever earlier applies recorded; and the settings that  *)
(* no read fetches, unless the last create or update ended with an error.  *)
THEOREM CleanPlansAreTrue == Spec => []CleanPlanMeansConfigured
<1>1. PlanInv => CleanPlanMeansConfigured
  BY DEF PlanInv
<1> QED
  BY <1>1, PlanInvHolds, PTL

(* Only Plan finds that there is nothing to do.                            *)
LEMMA OnlyPlanIsClean ==
  ASSUME Typed, Next, pc' = "clean", events' = seen'
  PROVE  Plan
<1>1. ~Refresh /\ ~Register /\ ~Configure /\ ~Tune /\ ~Start /\ ~Finish
  BY DEF Refresh, Register, Configure, Tune, Start, Finish, Command, Failed, Fails
<1>2. ~Query /\ ~WaitForPoweroff /\ ~Replace /\ ~Destroy /\ ~EditConfig /\ ~GuestObeys
  BY DEF Query, WaitForPoweroff, Replace, Destroy, Delete, EditConfig, GuestObeys, Command,
         Failed, Fails
<1>3. ~GuestStops /\ ~Meddle
  BY EventsKeepSettings
<1> QED
  BY <1>1, <1>2, <1>3 DEF Next, Apply

(* An apply that ended well, or that had nothing to do, leaves the machine *)
(* in the power state asked for, unless the guest or somebody changed it   *)
(* after the last command that the apply needed.                           *)
THEOREM SuccessHasTheStatus == Spec => SuccessMeansStatus
<1> DEFINE AsAsked(m) == /\ want.status = "running" => m.power = "running"
                         /\ want.status = "poweroff" => m.power \in {"poweroff", "aborted"}
<1>1. ASSUME Typed, PlanInv, Next, pc' = "clean", events' = seen', NEW m \in Ours'
      PROVE  AsAsked(m)
  <2>1. Plan
    BY <1>1, OnlyPlanIsClean
  <2>2. \E e \in tf : ~Differs(e)
    BY <1>1, <2>1 DEF Plan
  <2> QED
    BY <1>1, <2>1, <2>2 DEF Plan, Differs, PlanInv, ReadBack, Ours, counters, aux
<1>2. ASSUME Typed, PlanInv, Next, pc = "finish", ~failed', events' = seen', NEW m \in Ours'
      PROVE  AsAsked(m)
  <2>0. pc' # "finish" \/ GuestStops \/ Meddle
    BY <1>2 DEF Next, Apply, Refresh, Plan, Register, Configure, Tune, Start, Finish, Query,
                WaitForPoweroff, Replace, Destroy, EditConfig, GuestObeys
  <2>1. Finish
    <3>1. ~GuestStops /\ ~Meddle
      BY <1>2, EventsKeepSettings
    <3> QED
      BY <1>2, <3>1 DEF Next, Apply, Refresh, Plan, Register, Configure, Tune, Start, Query,
                        WaitForPoweroff, Replace, Destroy, EditConfig, GuestObeys
  <2>2. events = seen /\ m \in Ours
    BY <1>2, <2>1 DEF Finish, Fault, counters, Ours
  <2>3. want.status # "unset" => WantedStatus = want.status
    BY DEF WantedStatus
  <2> QED
    BY <1>2, <2>2, <2>3 DEF PlanInv, PowerKnown
<1>3. Typed /\ PlanInv /\ [Next]_vars =>
        [(pc' = "clean" \/ (pc = "finish" /\ ~failed')) /\ events' = seen' =>
           \A m \in Ours' : /\ want.status = "running" => m.power = "running"
                            /\ want.status = "poweroff" => m.power \in {"poweroff", "aborted"}]_vars
  BY <1>1, <1>2
<1> QED
  BY <1>3, TypedThroughout, PlanInvHolds, PTL DEF Spec, SuccessMeansStatus

-----------------------------------------------------------------------------
(* A machine that has another owner is changed only by an event: without   *)
(* an OVA the name must be free for a create, and all other commands go to *)
(* the UUID of a machine that the provider registered.                     *)
THEOREM OthersMachinesStay == Spec => OthersMachineUntouched
<1>1. ASSUME Typed, Next, path # "ova", host # Ours, host' # host
      PROVE  events' # events
  <2>1. Ours = {} /\ host # {}
    BY <1>1, OursIsHost
  <2>2. ~NameIsFree
    BY <1>1, <2>1 DEF NameIsFree
  <2>3. ~Refresh /\ ~Plan /\ ~Register /\ ~Finish /\ ~WaitForPoweroff /\ ~EditConfig
    BY <1>1, <2>1, <2>2 DEF Refresh, Plan, Register, Finish, WaitForPoweroff, EditConfig
  <2>4. ~Configure /\ ~Tune /\ ~Start /\ ~Query
    BY <1>1, <2>1 DEF Configure, Tune, Start, Query, Command
  <2>5. ~Replace /\ ~Destroy /\ ~GuestObeys
    BY <1>1, <2>1 DEF Replace, Destroy, Delete, GuestObeys
  <2> QED
    BY <1>1, <2>3, <2>4, <2>5 DEF Next, Apply, GuestStops, Meddle, Event, Typed
<1>2. Typed /\ [Next]_vars =>
        [path # "ova" /\ host # Ours /\ host' # host => events' # events]_vars
  BY <1>1 DEF vars
<1> QED
  BY <1>2, TypedThroughout, PTL DEF Spec, OthersMachineUntouched

-----------------------------------------------------------------------------
(* Without failure, refusal and event a machine is registered only for a   *)
(* create, which nothing can then keep from coming to its SetId.           *)
Undisturbed == faults = 0 /\ events = 0 /\ ~wrong

Recorded ==
  tf = {} => /\ pc \notin {"query", "wait", "replace"}
             /\ Undisturbed =>
                  /\ pc \in {"idle", "clean", "plan", "register"} => Ours = {}
                  /\ pc \in {"configure", "tune", "start"} => \A m \in Ours : m.power = "poweroff"

(* Every step keeps it: one that a command fails in counts the failure.    *)
LEMMA NextRecorded ==
  ASSUME Typed, Recorded, [Next]_vars
  PROVE  Recorded'
<1> USE DEF Typed, Recorded, Undisturbed, Ours, counters, aux
<1>1. CASE Refresh
  <2>1. ASSUME tf' = {}, Undisturbed'
        PROVE  Ours = {} /\ Undisturbed
    <3>0. ~Fault
      BY <2>1 DEF Fault
    <3>1. tf' = {Read(e, m) : e \in tf, m \in Ours} /\ Undisturbed
      BY <1>1, <2>1, <3>0 DEF Refresh
    <3>2. tf # {} => Ours = {}
      BY <2>1, <3>1
    <3> QED
      BY <1>1, <3>1, <3>2 DEF Refresh
  <2> QED
    BY <1>1, <2>1 DEF Refresh
<1>2. CASE Plan
  BY <1>2 DEF Plan
<1>3. CASE Register
  BY <1>3 DEF Register, Failed, Fails, Fault, New, Machine
<1>4. CASE Configure
  <2>1. CASE ~Converts
    BY <1>4, <2>1 DEF Configure, Fails
  <2>2. CASE Converts
    <3>1. CASE Failed
      BY <1>4, <2>2, <3>1 DEF Configure, Command, Failed, Fails, Fault
    <3>2. CASE ~Failed
      <4>1. PICK m \in Ours : /\ host' = {[m EXCEPT !.base = want.spec, !.flags = want.spec]}
                              /\ pc' = "tune" /\ UNCHANGED <<tf, counters, wrong>>
        BY <1>4, <2>2, <3>2 DEF Configure, Command
      <4>2. ASSUME NEW n \in Ours'
            PROVE  n.power = m.power
        BY <4>1 DEF Machines
      <4> QED
        BY <1>4, <4>1, <4>2 DEF Configure
    <3> QED
      BY <3>1, <3>2
  <2> QED
    BY <2>1, <2>2
<1>5. CASE Tune
  BY <1>5 DEF Tune, Command, Failed, Fails, Fault, Machines
<1>6. CASE Start
  BY <1>6 DEF Start, Command, Failed, Fails, Fault
<1>7. CASE Finish
  <2>1. ASSUME tf' = {}, Undisturbed'
        PROVE  Ours = {}
    BY <1>7, <2>1 DEF Finish, Fault
  <2> QED
    BY <1>7, <2>1 DEF Finish
<1>8. CASE Query \/ WaitForPoweroff
  BY <1>8 DEF Query, WaitForPoweroff, Command, Failed, Fails, Planned
<1>9. CASE Replace \/ Destroy
  BY <1>9 DEF Replace, Destroy, Delete
<1>10. CASE EditConfig
  BY <1>10 DEF EditConfig
<1>11. CASE GuestObeys
  BY <1>11 DEF GuestObeys
<1>12. CASE GuestStops \/ Meddle
  BY <1>12 DEF GuestStops, Meddle, Event
<1>13. CASE UNCHANGED vars
  BY <1>13 DEF vars
<1> QED
  BY <1>1, <1>2, <1>3, <1>4, <1>5, <1>6, <1>7, <1>8, <1>9, <1>10, <1>11, <1>12, <1>13
     DEF Next, Apply

(* A registered machine without a record comes only from a failed command, *)
(* from somebody else or from a configuration that was refused, although   *)
(* SetId is among the last of some twenty commands of a create.            *)
THEOREM OrphansAreFailures == Spec => []OrphansComeFromFailures
<1>1. Init => Recorded
  BY DEF Init, Recorded, Ours, Machine
<1>2. Typed /\ Recorded /\ [Next]_vars => Recorded'
  BY NextRecorded
<1>3. Typed /\ Recorded => OrphansComeFromFailures
  BY DEF Typed, Recorded, Undisturbed, OrphansComeFromFailures
<1> QED
  BY <1>1, <1>2, <1>3, TypedThroughout, PTL DEF Spec
=============================================================================
