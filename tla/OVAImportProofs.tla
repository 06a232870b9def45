--------------------------- MODULE OVAImportProofs ---------------------------
(***************************************************************************)
(* Proofs about OVAImport, for any number of VMs, attempts and faults.     *)
(***************************************************************************)
EXTENDS OVAImport, TLAPS

Inside == {"import", "importing", "cleanup"}

(* The kinds of machines tell them apart.                                  *)
LEMMA Kinds == /\ Absent.kind = "absent" /\ Partial.kind = "partial"
               /\ \A v \in VMs : [kind |-> "imported", for |-> v].kind = "imported"
BY DEF Absent, Partial

(* What a kill of the provider leaves: machines that are there stay, and   *)
(* only the import that was going on may have added one, or a part of it.  *)
LEMMA KillLeaves ==
  ASSUME TypeOK, Kill
  PROVE  /\ host' \in [Names -> Machines]
         /\ \A n \in Names : host[n] # Absent => host'[n] = host[n]
         /\ \A n \in Names : host'[n] # host[n] =>
              host'[n] = Partial \/ \E v \in VMs : host'[n] = [kind |-> "imported", for |-> v]
<1>1. CASE UNCHANGED host
  BY <1>1 DEF TypeOK
<1>2. ASSUME NEW v \in VMs, host[Name[v]] = Absent,
             NEW m \in {Partial, [kind |-> "imported", for |-> v]},
             host' = [host EXCEPT ![Name[v]] = m]
      PROVE  /\ host' \in [Names -> Machines]
             /\ \A n \in Names : host[n] # Absent => host'[n] = host[n]
             /\ \A n \in Names : host'[n] # host[n] =>
                  host'[n] = Partial \/ \E w \in VMs : host'[n] = [kind |-> "imported", for |-> w]
  <2>1. m \in Machines
    BY DEF Machines
  <2> QED
    BY <1>2, <2>1, ConstantsAssumption DEF TypeOK
<1> QED
  BY <1>1, <1>2 DEF Kill

(* The state stays well typed: no create starts more attempts than there   *)
(* are (the loop of importOVAWithRetry).                                   *)
THEOREM TypeCorrect == Spec => []TypeOK
<1> USE ConstantsAssumption DEF TypeOK
<1>1. Init => TypeOK
  BY DEF Init, Machines, Absent
<1>2. TypeOK /\ [Next]_vars => TypeOK'
  <2> SUFFICES ASSUME TypeOK, [Next]_vars
               PROVE  TypeOK'
    OBVIOUS
  <2>1. ASSUME NEW v \in VMs, Lock(v) \/ Begin(v)
        PROVE  TypeOK'
    BY <2>1 DEF Lock, Begin, Goto
  <2>2. ASSUME NEW v \in VMs, Succeed(v)
        PROVE  TypeOK'
    BY <2>2 DEF Succeed, Goto, Machines
  <2>3. ASSUME NEW v \in VMs, Fail(v)
        PROVE  TypeOK'
    BY <2>3 DEF Fail, Retry, Fault, Goto, Machines
  <2>4. ASSUME NEW v \in VMs, Cleanup(v)
        PROVE  TypeOK'
    BY <2>4 DEF Cleanup, Fault, Goto, Machines
  <2>5. CASE Kill
    <3>1. host' \in [Names -> Machines]
      BY <2>5, KillLeaves
    <3>2. /\ pc' \in [VMs -> {"start", "import", "importing", "cleanup", "done", "failed"}]
          /\ attempt' \in [VMs -> 1..Attempts]
          /\ mutex' = {} /\ faults' \in 0..MaxFaults
      BY <2>5 DEF Kill, Fault
    <3> QED
      BY <3>1, <3>2
  <2>6. CASE UNCHANGED vars
    BY <2>6 DEF vars
  <2> QED
    BY <2>1, <2>2, <2>3, <2>4, <2>5, <2>6 DEF Next, Create
<1> QED
  BY <1>1, <1>2, PTL DEF Spec

-----------------------------------------------------------------------------
(* Between its lock and its unlock a create is the one holder of the mutex. *)
LockHeld == \A v \in VMs : pc[v] \in Inside => mutex = {v}

(* Whoever is inside holds importOpMutex alone.                            *)
LEMMA MutexIsHeld == Spec => []LockHeld
<1>1. Init => LockHeld
  BY DEF Init, LockHeld, Inside
<1>2. TypeOK /\ LockHeld /\ [Next]_vars => LockHeld'
  <2> SUFFICES ASSUME TypeOK, LockHeld, [Next]_vars
               PROVE  LockHeld'
    OBVIOUS
  <2> USE DEF TypeOK, LockHeld, Inside, Goto
  <2>1. ASSUME NEW v \in VMs, Lock(v)
        PROVE  LockHeld'
    BY <2>1 DEF Lock
  <2>2. ASSUME NEW v \in VMs, Begin(v) \/ Cleanup(v)
        PROVE  LockHeld'
    BY <2>2 DEF Begin, Cleanup
  <2>3. ASSUME NEW v \in VMs, Succeed(v)
        PROVE  LockHeld'
    BY <2>3 DEF Succeed
  <2>4. ASSUME NEW v \in VMs, Fail(v)
        PROVE  LockHeld'
    BY <2>4 DEF Fail, Retry
  <2>5. CASE Kill
    BY <2>5 DEF Kill
  <2>6. CASE UNCHANGED vars
    BY <2>6 DEF vars
  <2> QED
    BY <2>1, <2>2, <2>3, <2>4, <2>5, <2>6 DEF Next, Create
<1> QED
  BY <1>1, <1>2, TypeCorrect, PTL DEF Spec

(* importOpMutex lets in one import at a time, its retries, its backoff and*)
(* the removal of leftovers included, across kills of the provider.        *)
THEOREM Serialised == Spec => []OneAtATime
<1>1. LockHeld => OneAtATime
  BY DEF LockHeld, OneAtATime, Inside
<1> QED
  BY <1>1, MutexIsHeld, PTL

-----------------------------------------------------------------------------
(* No two of the configured VMs have the same name.                        *)
NamesAreOwn == \A v, w \in VMs : Name[v] = Name[w] => v = w

(* With names of their own, a create that went on after the import has its *)
(* machine for good: no retry of another one, and no run after a kill,     *)
(* unregisters it.                                                         *)
THEOREM ImportsStay ==
  ASSUME NamesAreOwn
  PROVE  Spec => []DoneMeansImported
<1>1. Init => DoneMeansImported
  BY DEF Init, DoneMeansImported
<1>2. TypeOK /\ DoneMeansImported /\ [Next]_vars => DoneMeansImported'
  <2> SUFFICES ASSUME TypeOK, DoneMeansImported, [Next]_vars,
                      NEW v \in VMs, pc'[v] = "done"
               PROVE  host'[Name[v]] = [kind |-> "imported", for |-> v]
    BY DEF DoneMeansImported
  <2> USE NamesAreOwn, ConstantsAssumption
      DEF NamesAreOwn, TypeOK, DoneMeansImported, Goto
  <2>1. ASSUME NEW w \in VMs, Lock(w) \/ Begin(w)
        PROVE  host'[Name[v]] = [kind |-> "imported", for |-> v]
    BY <2>1 DEF Lock, Begin
  <2>2. ASSUME NEW w \in VMs, Succeed(w)
        PROVE  host'[Name[v]] = [kind |-> "imported", for |-> v]
    BY <2>2 DEF Succeed
  <2>3. ASSUME NEW w \in VMs, Fail(w)
        PROVE  host'[Name[v]] = [kind |-> "imported", for |-> v]
    BY <2>3 DEF Fail, Retry
  <2>4. ASSUME NEW w \in VMs, Cleanup(w)
        PROVE  host'[Name[v]] = [kind |-> "imported", for |-> v]
    BY <2>4 DEF Cleanup
  <2>5. CASE Kill
    <3>1. pc[v] = "done"
      BY <2>5 DEF Kill
    <3>2. host[Name[v]] # Absent /\ Name[v] \in Names
      BY <3>1, Kinds
    <3> QED
      BY <2>5, <3>1, <3>2, KillLeaves
  <2>6. CASE UNCHANGED vars
    BY <2>6 DEF vars
  <2> QED
    BY <2>1, <2>2, <2>3, <2>4, <2>5, <2>6 DEF Next, Create
<1> QED
  BY <1>1, <1>2, TypeCorrect, PTL DEF Spec

-----------------------------------------------------------------------------
(* Every attempt that v has used up, and a machine that is in its way, is  *)
(* paid for by a failed command or a kill: an attempt that fails without   *)
(* one meets what an earlier failure has left, and the clean-up after it   *)
(* removes that unless it fails itself.                                    *)
InTheWay(v) == IF host[Name[v]] = Absent THEN 0 ELSE 1

Paid(v) == /\ pc[v] = "start" => attempt[v] = 1 /\ faults >= InTheWay(v)
           /\ pc[v] \in {"import", "importing"} => faults + 1 >= attempt[v] + InTheWay(v)
           /\ pc[v] = "cleanup" => faults + 1 >= attempt[v]
           /\ pc[v] = "failed"  => faults >= Attempts

NoStrangers == \A n \in Names : host[n].kind # "stranger"

FailuresArePaid == NoStrangers /\ \A v \in VMs : Paid(v)

(* As long as no import has failed as often as there are attempts, none    *)
(* ends in an error: neither leftovers nor the other imports of the run    *)
(* use up attempts for good. The names must be the VMs' own.               *)
THEOREM FailuresCount ==
  ASSUME NamesAreOwn, Strangers = {}
  PROVE  Spec => []FailuresAreCounted
<1>1. Init => FailuresArePaid
  BY ConstantsAssumption
     DEF Init, FailuresArePaid, NoStrangers, Paid, InTheWay, Absent
<1>2. TypeOK /\ TypeOK' /\ LockHeld /\ FailuresArePaid /\ [Next]_vars => FailuresArePaid'
  <2> SUFFICES ASSUME TypeOK, TypeOK', LockHeld, FailuresArePaid, [Next]_vars
               PROVE  FailuresArePaid'
    OBVIOUS
  <2> USE ConstantsAssumption, NamesAreOwn
      DEF NamesAreOwn, TypeOK, FailuresArePaid, NoStrangers, Paid, InTheWay, Goto
  <2>1. ASSUME NEW v \in VMs, Lock(v) \/ Begin(v)
        PROVE  FailuresArePaid'
    BY <2>1 DEF Lock, Begin
  <2>2. ASSUME NEW v \in VMs, Succeed(v)
        PROVE  FailuresArePaid'
    BY <2>2 DEF Succeed
  <2>3. ASSUME NEW v \in VMs, Fail(v)
        PROVE  FailuresArePaid'
    <3>1. ~Contended(v)
      BY <2>3 DEF Fail, Contended, LockHeld, Inside
    <3>2. faults' >= faults /\ faults' >= attempt[v]
      BY <2>3, <3>1 DEF Fail, Fault
    <3>3. ASSUME NEW w \in VMs \ {v}
          PROVE  Paid(w)'
      <4>1. pc'[w] = pc[w] /\ attempt'[w] = attempt[w] /\ host'[Name[w]] = host[Name[w]]
        BY <2>3 DEF Fail, Retry
      <4> QED
        BY <3>2, <4>1
    <3>4. Paid(v)'
      <4>1. CASE attempt[v] < Attempts
        BY <2>3, <3>2, <4>1 DEF Fail, Retry
      <4>2. CASE ~(attempt[v] < Attempts)
        BY <2>3, <3>2, <4>2 DEF Fail, Retry
      <4> QED
        BY <4>1, <4>2
    <3>5. NoStrangers'
      BY <2>3 DEF Fail, Partial
    <3> QED
      BY <3>3, <3>4, <3>5
  <2>4. ASSUME NEW v \in VMs, Cleanup(v)
        PROVE  FailuresArePaid'
    <3>1. ~InUse(host[Name[v]])
      BY DEF InUse
    <3>2. NoStrangers'
      BY <2>4, <3>1 DEF Cleanup, Absent
    <3>3. \A w \in VMs : Paid(w)'
      BY <2>4, <3>1 DEF Cleanup, Fault
    <3> QED
      BY <3>2, <3>3
  <2>5. CASE Kill
    <3>1. NoStrangers'
      <4> SUFFICES ASSUME NEW n \in Names
                   PROVE  host'[n].kind # "stranger"
        OBVIOUS
      <4>1. \/ host'[n] = host[n] \/ host'[n] = Partial
            \/ \E v \in VMs : host'[n] = [kind |-> "imported", for |-> v]
        BY <2>5, KillLeaves
      <4> QED
        BY <4>1, Kinds
    <3>2. \A v \in VMs : Paid(v)'
      BY <2>5 DEF Kill, Fault
    <3> QED
      BY <3>1, <3>2
  <2>6. CASE UNCHANGED vars
    BY <2>6 DEF vars
  <2> QED
    BY <2>1, <2>2, <2>3, <2>4, <2>5, <2>6 DEF Next, Create
<1>3. FailuresArePaid => FailuresAreCounted
  BY DEF FailuresArePaid, Paid, FailuresAreCounted
<1> QED
  BY <1>1, <1>2, <1>3, TypeCorrect, MutexIsHeld, PTL DEF Spec

-----------------------------------------------------------------------------
(* How many steps a create has left, at most: three for each attempt.      *)
MoreAttempts(v) == 3 * (Attempts - attempt[v])

Left(v) == CASE pc[v] \in {"done", "failed"}  -> 0
             [] pc[v] = "importing"           -> MoreAttempts(v) + 1
             [] pc[v] = "import"              -> MoreAttempts(v) + 2
             [] pc[v] \in {"start", "cleanup"} -> MoreAttempts(v) + 3

LeftIsRight == \A v \in VMs : /\ Left(v) \in 0..(3 * Attempts)
                              /\ Left(v) = 0 <=> pc[v] \in {"done", "failed"}

LEMMA LeftCounts == TypeOK => LeftIsRight
<1> SUFFICES ASSUME TypeOK, NEW v \in VMs
             PROVE  /\ Left(v) \in 0..(3 * Attempts)
                    /\ Left(v) = 0 <=> pc[v] \in {"done", "failed"}
  BY DEF LeftIsRight
<1> DEFINE m == MoreAttempts(v)
           n == Left(v)
           a == Attempts
<1>1. m \in Nat /\ m + 3 <= 3 * a /\ a \in Nat
  BY ConstantsAssumption DEF TypeOK, MoreAttempts
<1>2. /\ pc[v] \in {"done", "failed"} => n = 0
      /\ pc[v] = "importing" => n = m + 1
      /\ pc[v] = "import" => n = m + 2
      /\ pc[v] \in {"start", "cleanup"} => n = m + 3
  <2> HIDE DEF m
  <2> QED
    BY <1>1 DEF Left, m
<1>3. pc[v] \in {"start", "import", "importing", "cleanup", "done", "failed"}
  BY DEF TypeOK
<1> HIDE DEF m, n, a
<1>4. n \in 0..(3 * a) /\ (n = 0 <=> pc[v] \in {"done", "failed"})
  BY <1>1, <1>2, <1>3
<1> QED
  BY <1>4 DEF n, a

LEMMA CreateAdvances ==
  ASSUME TypeOK, TypeOK', NEW v \in VMs, Create(v)
  PROVE  Left(v)' < Left(v) /\ \A w \in VMs \ {v} : Left(w)' = Left(w)
<1> USE DEF Goto
<1>1. pc[v] \notin {"done", "failed"} /\ \E step, n : /\ pc' = [pc EXCEPT ![v] = step]
                                                      /\ attempt' = [attempt EXCEPT ![v] = n]
  BY DEF Create, Lock, Begin, Succeed, Fail, Retry, Cleanup, TypeOK
<1>2. \A w \in VMs \ {v} : pc'[w] = pc[w] /\ attempt'[w] = attempt[w]
  BY <1>1 DEF TypeOK
<1>3. \A w \in VMs \ {v} : Left(w)' = Left(w)
  BY <1>2 DEF Left, MoreAttempts
<1>4. attempt[v] \in Nat /\ attempt'[v] \in Nat /\ Attempts \in Nat
  BY ConstantsAssumption DEF TypeOK
<1>5. \/ pc[v] = "start" /\ pc'[v] = "import" /\ attempt'[v] = attempt[v]
      \/ pc[v] = "cleanup" /\ pc'[v] = "import" /\ attempt'[v] = attempt[v]
      \/ pc[v] = "import" /\ pc'[v] = "importing" /\ attempt'[v] = attempt[v]
      \/ pc[v] = "importing" /\ pc'[v] \in {"done", "failed"} /\ attempt'[v] = attempt[v]
      \/ pc[v] = "importing" /\ pc'[v] = "cleanup" /\ attempt'[v] = attempt[v] + 1
  BY DEF Create, Lock, Begin, Succeed, Fail, Retry, Cleanup, TypeOK
<1>6. Left(v) = CASE pc[v] = "importing" -> MoreAttempts(v) + 1
                  [] pc[v] = "import" -> MoreAttempts(v) + 2
                  [] pc[v] \in {"start", "cleanup"} -> MoreAttempts(v) + 3
  BY <1>5 DEF Left
<1>7. pc'[v] \in {"done", "failed"} => Left(v)' = 0
  BY DEF Left
<1>8. /\ pc'[v] = "importing" => Left(v)' = MoreAttempts(v)' + 1
      /\ pc'[v] = "import" => Left(v)' = MoreAttempts(v)' + 2
      /\ pc'[v] = "cleanup" => Left(v)' = MoreAttempts(v)' + 3
  BY DEF Left
<1>9. /\ MoreAttempts(v) \in Nat
      /\ attempt'[v] = attempt[v] => MoreAttempts(v)' = MoreAttempts(v)
      /\ attempt'[v] = attempt[v] + 1 => MoreAttempts(v)' = MoreAttempts(v) - 3
  BY <1>4, ConstantsAssumption DEF MoreAttempts, TypeOK
<1>10. Left(v)' < Left(v)
  BY <1>5, <1>6, <1>7, <1>8, <1>9
<1> QED
  BY <1>3, <1>10

(* A create comes to the end of its import within three steps for each     *)
(* attempt, whatever fails, however the imports contend and whatever       *)
(* machines are in its way: each of its steps uses up one of those it has  *)
(* left, the other creates take none away and add none, and only a killed  *)
(* provider starts over (importOVAWithRetry).                              *)
THEOREM ImportsAreBounded ==
  Spec => /\ []LeftIsRight
          /\ [][\A v \in VMs : /\ Create(v) => Left(v)' < Left(v)
                               /\ Left(v)' > Left(v) => Kill]_vars
<1>1. TypeOK' => LeftIsRight'
  BY LeftCounts, PTL
<1>2. TypeOK /\ TypeOK' /\ [Next]_vars => [\A v \in VMs : /\ Create(v) => Left(v)' < Left(v)
                                                          /\ Left(v)' > Left(v) => Kill]_vars
  <2> SUFFICES ASSUME TypeOK, TypeOK', Next, NEW v \in VMs
               PROVE  (Create(v) => Left(v)' < Left(v)) /\ (Left(v)' > Left(v) => Kill)
    OBVIOUS
  <2>1. Left(v) \in Nat /\ Left(v)' \in Nat
    <3>1. Left(v) \in 0..(3 * Attempts)
      BY LeftCounts DEF LeftIsRight
    <3>2. Left(v)' \in 0..(3 * Attempts)
      BY <1>1 DEF LeftIsRight
    <3> QED
      BY <3>1, <3>2
  <2>2. Create(v) => Left(v)' < Left(v)
    BY CreateAdvances
  <2>3. \A w \in VMs : Create(w) => Left(v)' = Left(v) \/ v = w
    BY CreateAdvances
  <2> QED
    BY <2>1, <2>2, <2>3 DEF Next
<1> QED
  BY <1>2, LeftCounts, TypeCorrect, PTL DEF Spec
=============================================================================
