---------------------------- MODULE VMDeleteProofs ----------------------------
(***************************************************************************)
(* Proofs about VMDelete, for every value of its constants.                *)
(***************************************************************************)
EXTENDS VMDelete, TLAPS

(* What an answer of getMachine that is not an error says of the machine.  *)
LEMMA AnswerIsTrue ==
  ASSUME TypeOK, NEW r \in Readings, GetMachine(r)
  PROVE  /\ r = "notExist" => vm = "gone"
         /\ r \in Off => vm = r \/ (vm = "terminating" /\ r = "aborted")
         /\ r = "paused" => vm = "paused"
         /\ r = "running" => vm \in {"running", "starting", "stopping"}
         /\ r # "error" /\ vm \in {"saved", "paused"} => r = vm
BY DEF TypeOK, GetMachine, Fault, Answer, ParseState, Readings, Off, Live, Registered

(* A fault stays within its budget.                                        *)
LEMMA FaultsBounded ==
  ASSUME TypeOK, Fault
  PROVE  faults' \in 0..MaxFaults
BY ConstantsAssumption DEF TypeOK, Fault

(* getMachine fails at most as often as the bound allows.                  *)
LEMMA GetMachineBounded ==
  ASSUME TypeOK, NEW r \in Readings, GetMachine(r)
  PROVE  faults' \in 0..MaxFaults
BY FaultsBounded DEF TypeOK, GetMachine

(* Where the switch of resourceVMDelete leads.                             *)
LEMMA AfterQueryIsStep ==
  ASSUME NEW r \in Readings
  PROVE  AfterQuery(r) \in {"ok", "failed", "finalCheck", "hard", "acpi"}
BY DEF AfterQuery

(* The state stays well typed: the loop counters are natural numbers, the  *)
(* failures stay within their bound and no step leaves resourceVMDelete's  *)
(* control points.                                                         *)
THEOREM TypeCorrect == Spec => []TypeOK
<1>1. Init => TypeOK
  BY ConstantsAssumption DEF Init, TypeOK, LastRound, Steps, Registered, Off, Live, Folders
<1>2. TypeOK /\ [Next]_vars => TypeOK'
  <2> SUFFICES ASSUME TypeOK, [Next]_vars
               PROVE  TypeOK'
    OBVIOUS
  <2> USE ConstantsAssumption DEF TypeOK, LastRound, Steps, Goto
  <2>1. CASE Query
    BY <2>1, GetMachineBounded, AfterQueryIsStep DEF Query
  <2>2. CASE PressAcpi
    BY <2>2 DEF PressAcpi
  <2>3. CASE Poll
    BY <2>3, GetMachineBounded DEF Poll, PollWith, Loop
  <2>4. CASE HardPoweroff
    BY <2>4, FaultsBounded DEF HardPoweroff, PoweringOff, Registered, Off, Live
  <2>5. CASE HardPoll
    BY <2>5, GetMachineBounded DEF HardPoll, Loop
  <2>6. CASE HardVerify
    BY <2>6, GetMachineBounded DEF HardVerify
  <2>7. CASE FinalCheck
    BY <2>7, GetMachineBounded DEF FinalCheck
  <2>8. CASE Unregister
    BY <2>8, FaultsBounded DEF Unregister, FilesDeleted, Folders
  <2>9. CASE ScanFolder
    BY <2>9, FaultsBounded DEF ScanFolder, Loop
  <2>10. CASE RemoveFolder
    BY <2>10, FaultsBounded DEF RemoveFolder, Folders
  <2>11. CASE Retry
    BY <2>11 DEF Retry
  <2>12. CASE Environment
    BY <2>12 DEF Environment, GuestStops, Settle, LateDeletion, Meddle,
                 ReuseFolder, PoweringOff, Registered, Off, Live, Folders
  <2>13. CASE UNCHANGED vars
    BY <2>13 DEF vars
  <2> QED
    BY <2>1, <2>2, <2>3, <2>4, <2>5, <2>6, <2>7, <2>8, <2>9, <2>10, <2>11, <2>12,
       <2>13 DEF Next, Delete
<1> QED
  BY <1>1, <1>2, PTL DEF Spec

-----------------------------------------------------------------------------
(* The inductive invariant. Once unregistervm succeeded only the folder is *)
(* left to do, so success is for a machine that is gone; left alone, only  *)
(* a resting machine gets as far as unregistervm, and only one that runs   *)
(* is sent the ACPI button.                                                *)
DoneMeansGone == pc \in {"ok", "cleanup", "remove"} => vm = "gone"

IInv == /\ TypeOK
        /\ DoneMeansGone
        /\ OffBeforeUnregister
        /\ IdleGuestsAreNotPolled

(* The invariant holds when resourceVMDelete is called.                    *)
LEMMA InitIInv == Init => IInv
BY TypeCorrect, ConstantsAssumption
   DEF Init, IInv, TypeOK, LastRound, Steps, Registered, Off, Live, Folders, DoneMeansGone,
       OffBeforeUnregister, IdleGuestsAreNotPolled

(* A step of the hypervisor or of the guest keeps an idle machine idle.    *)
LEMMA EnvironmentKeeps ==
  ASSUME IInv, Environment
  PROVE  (DoneMeansGone /\ OffBeforeUnregister /\ IdleGuestsAreNotPolled)'
<1>1. CASE GuestStops
  BY <1>1 DEF IInv, GuestStops, PoweringOff, DoneMeansGone, OffBeforeUnregister,
              IdleGuestsAreNotPolled, Live
<1>2. CASE Settle
  BY <1>2 DEF IInv, Settle, DoneMeansGone, OffBeforeUnregister,
              IdleGuestsAreNotPolled, Live
<1>3. CASE LateDeletion \/ ReuseFolder
  BY <1>3 DEF IInv, LateDeletion, ReuseFolder, DoneMeansGone, OffBeforeUnregister,
              IdleGuestsAreNotPolled
<1>4. CASE Meddle
  BY <1>4 DEF IInv, Meddle, DoneMeansGone, OffBeforeUnregister,
              IdleGuestsAreNotPolled, Off
<1> QED
  BY <1>1, <1>2, <1>3, <1>4 DEF Environment

(* Every command of the delete, and everything around it, preserves it.    *)
LEMMA NextIInv ==
  ASSUME IInv, TypeOK', [Next]_vars
  PROVE  IInv'
<1> USE DEF IInv, DoneMeansGone, OffBeforeUnregister, IdleGuestsAreNotPolled, Goto
<1>1. CASE Query
  BY <1>1, AnswerIsTrue DEF Query, AfterQuery, Off, Readings
<1>2. CASE PressAcpi
  BY <1>2 DEF PressAcpi
<1>3. CASE Poll
  BY <1>3, AnswerIsTrue DEF Poll, PollWith, Loop
<1>4. CASE HardPoweroff
  BY <1>4 DEF HardPoweroff, PoweringOff
<1>5. CASE HardPoll
  BY <1>5, AnswerIsTrue DEF HardPoll, Loop
<1>6. CASE HardVerify
  BY <1>6, AnswerIsTrue DEF HardVerify
<1>7. CASE FinalCheck
  <2>1. PICK r \in Readings : GetMachine(r) /\ pc' = IF r \in Refused THEN "failed" ELSE "unregister"
    BY <1>7 DEF FinalCheck
  <2>2. r \notin Refused => vm \notin Live \ {"terminating"}
    BY <2>1, AnswerIsTrue DEF Refused, Readings, Live, Off
  <2> QED
    BY <1>7, <2>1, <2>2 DEF FinalCheck
<1>8. CASE Unregister
  BY <1>8 DEF Unregister
<1>9. CASE ScanFolder
  BY <1>9 DEF ScanFolder, Loop
<1>10. CASE RemoveFolder
  BY <1>10 DEF RemoveFolder
<1>11. CASE Retry
  BY <1>11 DEF Retry
<1>12. CASE Environment
  BY <1>12, EnvironmentKeeps
<1>13. CASE UNCHANGED vars
  BY <1>13 DEF vars, TypeOK
<1> QED
  BY <1>1, <1>2, <1>3, <1>4, <1>5, <1>6, <1>7, <1>8, <1>9, <1>10, <1>11, <1>12,
     <1>13 DEF Next, Delete

(* The invariant holds throughout the delete of a VM.                     *)
THEOREM Inductive == Spec => []IInv
<1>1. TypeOK /\ TypeOK' /\ IInv /\ [Next]_vars => IInv'
  BY NextIInv
<1> QED
  BY InitIInv, TypeCorrect, <1>1, PTL DEF Spec

(* Delete returns nil only for a VM that VirtualBox no longer has, for any *)
(* number of polls, failures and other users.                              *)
THEOREM SuccessIsReal == Spec => []SuccessMeansGone
<1>1. IInv => SuccessMeansGone
  BY DEF IInv, DoneMeansGone, SuccessMeansGone
<1> QED
  BY <1>1, Inductive, PTL

(* Left alone by other users, no live VM is unregistered.                  *)
THEOREM NoLiveUnregister == Spec => []OffBeforeUnregister
<1>1. IInv => OffBeforeUnregister
  BY DEF IInv
<1> QED
  BY <1>1, Inductive, PTL

(* Left alone by other users, no paused or saved guest is polled for.      *)
THEOREM NoWastedPolls == Spec => []IdleGuestsAreNotPolled
<1>1. IInv => IdleGuestsAreNotPolled
  BY DEF IInv
<1> QED
  BY <1>1, Inductive, PTL

-----------------------------------------------------------------------------
(* The clean-up gets to RemoveAll only past a scan that found no config.   *)
ScannedClean == TypeOK /\ (pc = "remove" => ~HoldsConfig)

(* Where no folder is unreadable and nobody else creates machines, the     *)
(* clean-up removes no folder that holds a machine config.                 *)
THEOREM CleanupKeepsConfigs ==
  ASSUME ~ReadDirFails, ~Interference
  PROVE  Spec => FolderWithConfigKept
<1>1. Init => pc # "remove"
  BY DEF Init
<1>2. ScannedClean /\ [Next]_vars =>
        /\ (pc = "remove" => ~HoldsConfig)'
        /\ [HoldsConfig /\ folder' # folder => pc = "unregister"]_vars
  <2> SUFFICES ASSUME ScannedClean, [Next]_vars
               PROVE  /\ (pc = "remove" => ~HoldsConfig)'
                      /\ HoldsConfig /\ folder' # folder => pc = "unregister"
    BY DEF vars
  <2> USE DEF ScannedClean, Goto
  <2>1. CASE Query
    BY <2>1, AfterQueryIsStep DEF Query, HoldsConfig
  <2>2. CASE PressAcpi \/ HardPoweroff \/ HardPoll \/ HardVerify \/ FinalCheck \/ Retry
    BY <2>2 DEF PressAcpi, HardPoweroff, HardPoll, HardVerify, FinalCheck, Retry,
                Loop, HoldsConfig
  <2>3. CASE Poll
    BY <2>3 DEF Poll, PollWith, Loop, HoldsConfig
  <2>4. CASE Unregister
    BY <2>4 DEF Unregister
  <2>5. CASE ScanFolder
    BY <2>5 DEF ScanFolder, Loop, HoldsConfig
  <2>6. CASE RemoveFolder
    BY <2>6 DEF RemoveFolder, HoldsConfig
  <2>7. CASE Environment
    BY <2>7 DEF Environment, GuestStops, Settle, LateDeletion, Meddle, ReuseFolder,
                HoldsConfig
  <2>8. CASE UNCHANGED vars
    BY <2>8 DEF vars, HoldsConfig
  <2> QED
    BY <2>1, <2>2, <2>3, <2>4, <2>5, <2>6, <2>7, <2>8 DEF Next, Delete
<1>3. TypeOK /\ (pc = "remove" => ~HoldsConfig) => ScannedClean
  BY DEF ScannedClean
<1>4. pc # "remove" => (pc = "remove" => ~HoldsConfig)
  OBVIOUS
<1> QED
  BY <1>1, <1>2, <1>3, <1>4, TypeCorrect, PTL DEF Spec, FolderWithConfigKept

-----------------------------------------------------------------------------
(* Left alone, and as long as nothing has failed: a machine that is gone   *)
(* is found so by the first query or was taken off by this delete, and the *)
(* leftovers of a folder are in the hands of the clean-up.                 *)
GoneIsCalm      == faults = 0 /\ ~Interference /\ vm = "gone"
                     => pc \in {"query", "ok", "cleanup", "remove"}
LeftoversInHand == faults = 0 /\ folder = "leftover" => pc \in {"cleanup", "remove"}

(* Where VBoxManage names its error code on stdout, a destroy of a machine *)
(* that is gone is no error. On stderr getMachine does not see it: there   *)
(* the property is false, since the first query fails the destroy.         *)
THEOREM GoneSucceeds ==
  ASSUME Diagnostic = "stdout"
  PROVE  Spec => []GoneIsSuccess
<1>1. Init => GoneIsCalm
  BY DEF Init, GoneIsCalm
<1>2. TypeOK /\ GoneIsCalm /\ [Next]_vars => GoneIsCalm'
  <2> SUFFICES ASSUME TypeOK, GoneIsCalm, [Next]_vars,
                      faults' = 0, ~Interference, vm' = "gone"
               PROVE  pc' \in {"query", "ok", "cleanup", "remove"}
    BY DEF GoneIsCalm
  <2>1. \A r \in Readings : GetMachine(r) /\ vm = "gone" => r = "notExist" /\ faults = 0
    BY DEF GetMachine, Answer, Fault, TypeOK
  <2>2. Fault => FALSE
    BY DEF Fault, TypeOK
  <2> USE <2>1, <2>2 DEF GoneIsCalm, Goto, TypeOK
  <2>3. CASE Query
    <3>1. PICK r \in Readings : GetMachine(r) /\ pc' = AfterQuery(r) /\ vm = "gone"
      BY <2>3 DEF Query
    <3>2. r = "notExist"
      BY <3>1
    <3> QED
      BY <3>1, <3>2 DEF AfterQuery, Off
  <2>4. CASE PressAcpi \/ Poll \/ HardPoweroff \/ HardPoll \/ HardVerify \/ FinalCheck
    BY <2>4, AnswerIsTrue DEF PressAcpi, Poll, PollWith, HardPoweroff, PoweringOff, HardPoll,
                              HardVerify, FinalCheck
  <2>5. CASE Unregister
    BY <2>5 DEF Unregister, Off
  <2>6. CASE ScanFolder
    BY <2>6 DEF ScanFolder, Loop
  <2>7. CASE RemoveFolder \/ Retry
    BY <2>7 DEF RemoveFolder, Retry
  <2>8. CASE Environment
    BY <2>8 DEF Environment, GuestStops, PoweringOff, Settle, LateDeletion, Meddle, ReuseFolder
  <2>9. CASE UNCHANGED vars
    BY <2>9 DEF vars
  <2> QED
    BY <2>3, <2>4, <2>5, <2>6, <2>7, <2>8, <2>9 DEF Next, Delete
<1>3. GoneIsCalm => GoneIsSuccess
  BY DEF GoneIsCalm, GoneIsSuccess
<1> QED
  BY <1>1, <1>2, <1>3, TypeCorrect, PTL DEF Spec

(* However long VirtualBox takes to delete the files, and whoever uses the *)
(* folder next: where nothing fails, no orphaned folder is left behind.    *)
THEOREM NothingIsLeft == Spec => []NoLeftovers
<1>1. Init => LeftoversInHand
  BY DEF Init, LeftoversInHand
<1>2. TypeOK /\ LeftoversInHand /\ [Next]_vars => LeftoversInHand'
  <2> SUFFICES ASSUME TypeOK, LeftoversInHand, [Next]_vars, faults' = 0, folder' = "leftover"
               PROVE  pc' \in {"cleanup", "remove"}
    BY DEF LeftoversInHand
  <2>1. (\E r \in Readings : GetMachine(r)) => faults = 0
    BY DEF GetMachine, Fault, TypeOK
  <2>2. Fault => FALSE
    BY DEF Fault, TypeOK
  <2> USE <2>1, <2>2 DEF LeftoversInHand, Goto, TypeOK
  <2>3. CASE Query \/ PressAcpi \/ Poll \/ HardPoweroff \/ HardPoll \/ HardVerify \/ FinalCheck
    BY <2>3 DEF Query, PressAcpi, Poll, PollWith, HardPoweroff, HardPoll, HardVerify, FinalCheck
  <2>4. CASE Unregister
    BY <2>4 DEF Unregister
  <2>5. CASE ScanFolder
    BY <2>5 DEF ScanFolder, Loop, HoldsConfig
  <2>6. CASE RemoveFolder \/ Retry
    BY <2>6 DEF RemoveFolder, Retry
  <2>7. CASE Environment
    BY <2>7 DEF Environment, GuestStops, Settle, LateDeletion, Meddle, ReuseFolder
  <2>8. CASE UNCHANGED vars
    BY <2>8 DEF vars
  <2> QED
    BY <2>3, <2>4, <2>5, <2>6, <2>7, <2>8 DEF Next, Delete
<1>3. LeftoversInHand => NoLeftovers
  BY DEF LeftoversInHand, NoLeftovers
<1> QED
  BY <1>1, <1>2, <1>3, TypeCorrect, PTL DEF Spec

-----------------------------------------------------------------------------
verdictBar == IF pc = "ok" THEN "ok" ELSE IF pc = "failed" THEN "error" ELSE "pending"

(* Every step of the environment is a step, or a stutter, of the abstract  *)
(* destroy's own.                                                          *)
LEMMA EnvironmentRefines ==
  ASSUME TypeOK, Environment
  PROVE  [Destroy!Next]_<<vm, verdictBar>>
<1> USE DEF Destroy!Next, Destroy!Evolve, Destroy!Off, Destroy!Live,
            Destroy!Registered, verdictBar
<1>1. CASE GuestStops
  BY <1>1 DEF GuestStops, PoweringOff
<1>2. CASE Settle
  BY <1>2 DEF Settle
<1>3. CASE LateDeletion \/ ReuseFolder
  BY <1>3 DEF LateDeletion, ReuseFolder
<1>4. CASE Meddle
  BY <1>4 DEF Meddle, Off
<1> QED
  BY <1>1, <1>2, <1>3, <1>4 DEF Environment

(* Every behaviour of the detailed delete, failures, retries and other     *)
(* users included, is one of the abstract destroy: it takes a machine off  *)
(* the registry only from rest and says so only when it is off.            *)
THEOREM DeleteImplementsDestroy == Spec => ImplementsDestroy
<1>1. Init => Destroy!Init
  BY ConstantsAssumption
     DEF Init, Destroy!Init, Destroy!Registered, Destroy!Off, Destroy!Live,
         Registered, Off, Live
<1>2. IInv /\ [Next]_vars => [Destroy!Next]_<<vm, verdictBar>>
  <2> SUFFICES ASSUME IInv, [Next]_vars
               PROVE  [Destroy!Next]_<<vm, verdictBar>>
    OBVIOUS
  <2> USE DEF IInv, Goto, verdictBar, Destroy!Next, Destroy!Removed, Destroy!Remove,
              Destroy!Succeed, Destroy!Fail, Destroy!Again, Destroy!Off
  <2>1. CASE Query
    BY <2>1, AnswerIsTrue DEF Query, AfterQuery
  <2>2. CASE PressAcpi
    BY <2>2 DEF PressAcpi
  <2>3. CASE Poll
    BY <2>3, AnswerIsTrue DEF Poll, PollWith, Loop
  <2>4. CASE HardPoweroff
    BY <2>4 DEF HardPoweroff, PoweringOff, Live, Destroy!Evolve, Destroy!Live,
                Destroy!Registered
  <2>5. CASE HardPoll \/ HardVerify \/ FinalCheck
    BY <2>5 DEF HardPoll, HardVerify, FinalCheck, Loop
  <2>6. CASE Unregister
    BY <2>6 DEF Unregister, Off
  <2>7. CASE ScanFolder
    BY <2>7 DEF ScanFolder, Loop, DoneMeansGone
  <2>8. CASE RemoveFolder
    BY <2>8 DEF RemoveFolder, DoneMeansGone
  <2>9. CASE Retry
    BY <2>9 DEF Retry
  <2>10. CASE Environment
    BY <2>10, EnvironmentRefines
  <2>11. CASE UNCHANGED vars
    BY <2>11 DEF vars
  <2> QED
    BY <2>1, <2>2, <2>3, <2>4, <2>5, <2>6, <2>7, <2>8, <2>9, <2>10, <2>11
       DEF Next, Delete
<1> QED
  BY <1>1, <1>2, Inductive, PTL DEF Spec, ImplementsDestroy, Destroy!Spec, verdictBar

-----------------------------------------------------------------------------
(* How many commands and file accesses are still to come, at most.         *)
AfterUnregister == CleanupScans + 1
AfterHard       == AfterUnregister + HardPolls + 3

StepsLeft == CASE pc \in {"ok", "failed"} -> 0
               [] pc = "remove"     -> 1
               [] pc = "cleanup"    -> AfterUnregister - tries
               [] pc = "unregister" -> AfterUnregister + 1
               [] pc = "finalCheck" -> AfterUnregister + 2
               [] pc = "hardVerify" -> AfterUnregister + 3
               [] pc = "hardPoll"   -> AfterHard - tries
               [] pc = "hard"       -> AfterHard + 1
               [] pc = "poll"       -> AfterHard + AcpiPolls + 1 - tries
               [] pc = "acpi"       -> AfterHard + AcpiPolls + 2
               [] pc = "query"      -> AfterHard + AcpiPolls + 3

LEMMA SomeRounds == AcpiPolls \in Nat \ {0} /\ HardPolls \in Nat \ {0} /\ CleanupScans \in Nat \ {0}
BY ConstantsAssumption

LEMMA DeleteAdvances ==
  ASSUME TypeOK, Delete
  PROVE  StepsLeft' < StepsLeft
<1> USE SomeRounds DEF StepsLeft, AfterUnregister, AfterHard, Goto
<1>0. tries \in 0..LastRound
  BY DEF TypeOK
<1>1. CASE Query
  BY <1>1, AfterQueryIsStep DEF Query
<1>2. CASE PressAcpi
  BY <1>2 DEF PressAcpi
<1>3. CASE Poll
  BY <1>0, <1>3 DEF Poll, PollWith, Loop, LastRound
<1>4. CASE HardPoweroff
  BY <1>4 DEF HardPoweroff
<1>5. CASE HardPoll
  BY <1>0, <1>5 DEF HardPoll, Loop, LastRound
<1>6. CASE HardVerify \/ FinalCheck
  BY <1>6 DEF HardVerify, FinalCheck
<1>7. CASE Unregister
  BY <1>7 DEF Unregister
<1>8. CASE ScanFolder
  BY <1>0, <1>8 DEF ScanFolder, Loop, LastRound
<1>9. CASE RemoveFolder
  BY <1>9 DEF RemoveFolder
<1> QED
  BY <1>1, <1>2, <1>3, <1>4, <1>5, <1>6, <1>7, <1>8, <1>9 DEF Delete

(* The number is right for each step, in its last round too.               *)
LEMMA StepsCount ==
  TypeOK => /\ StepsLeft \in 0..(AcpiPolls + HardPolls + CleanupScans + 7)
            /\ StepsLeft = 0 <=> pc \in {"ok", "failed"}
<1> SUFFICES ASSUME TypeOK
             PROVE  /\ StepsLeft \in 0..(AcpiPolls + HardPolls + CleanupScans + 7)
                    /\ StepsLeft = 0 <=> pc \in {"ok", "failed"}
  OBVIOUS
<1>0. tries \in 0..LastRound
  BY DEF TypeOK
<1>1. /\ pc = "poll" => tries \in 0..(AcpiPolls - 1)
      /\ pc = "hardPoll" => tries \in 0..(HardPolls - 1)
      /\ pc = "cleanup" => tries \in 0..(CleanupScans - 1)
  BY <1>0 DEF LastRound
<1> DEFINE n == StepsLeft
<1>2. /\ pc \in {"ok", "failed"} => n = 0
      /\ pc = "remove" => n = 1
      /\ pc = "cleanup" => n = CleanupScans + 1 - tries
      /\ pc = "unregister" => n = CleanupScans + 2
      /\ pc = "finalCheck" => n = CleanupScans + 3
      /\ pc = "hardVerify" => n = CleanupScans + 4
  BY <1>1, SomeRounds DEF StepsLeft, AfterUnregister
<1>3. /\ pc = "hardPoll" => n = CleanupScans + HardPolls + 4 - tries
      /\ pc = "hard" => n = CleanupScans + HardPolls + 5
      /\ pc = "poll" => n = CleanupScans + HardPolls + AcpiPolls + 5 - tries
      /\ pc = "acpi" => n = CleanupScans + HardPolls + AcpiPolls + 6
      /\ pc = "query" => n = CleanupScans + HardPolls + AcpiPolls + 7
  <2>1. AfterHard = CleanupScans + HardPolls + 4
    BY SomeRounds DEF AfterHard, AfterUnregister
  <2>2. AfterHard \in Nat
    BY <2>1, SomeRounds
  <2> QED
    BY <1>1, <2>1, <2>2, SomeRounds DEF StepsLeft
<1> HIDE DEF n
<1>4. pc \in Steps
  BY DEF TypeOK
<1>5. n \in 0..(AcpiPolls + HardPolls + CleanupScans + 7) /\ (n = 0 <=> pc \in {"ok", "failed"})
  BY <1>1, <1>2, <1>3, <1>4, SomeRounds DEF Steps
<1> QED
  BY <1>5 DEF n

(* A destroy ends after a bounded number of commands, whatever they answer *)
(* and whatever the guest and other users do meanwhile: each command uses  *)
(* up a step of those that are left, nobody else adds one, and only the    *)
(* user who repeats a failed destroy starts over (the loops of             *)
(* resourceVMDelete, hardPoweroff and cleanupVMFolder).                    *)
THEOREM DestroyIsBounded ==
  Spec => /\ [](StepsLeft \in 0..(AcpiPolls + HardPolls + CleanupScans + 7))
          /\ [](StepsLeft = 0 <=> pc \in {"ok", "failed"})
          /\ [][/\ Delete => StepsLeft' < StepsLeft
                /\ StepsLeft' > StepsLeft => Retry]_vars
<1>0. TypeOK' => (StepsLeft \in 0..(AcpiPolls + HardPolls + CleanupScans + 7))'
  BY StepsCount, PTL
<1>1. TypeOK /\ TypeOK' /\ [Next]_vars => [/\ Delete => StepsLeft' < StepsLeft
                                           /\ StepsLeft' > StepsLeft => Retry]_vars
  <2> SUFFICES ASSUME TypeOK, TypeOK', Next
               PROVE  (Delete => StepsLeft' < StepsLeft) /\ (StepsLeft' > StepsLeft => Retry)
    OBVIOUS
  <2>1. StepsLeft \in Nat /\ StepsLeft' \in Nat
    BY <1>0, StepsCount, SomeRounds
  <2>2. Delete => StepsLeft' < StepsLeft
    BY DeleteAdvances
  <2>3. Environment => StepsLeft' = StepsLeft
    BY DEF Environment, GuestStops, Settle, LateDeletion, Meddle, ReuseFolder, StepsLeft
  <2> QED
    BY <2>1, <2>2, <2>3 DEF Next
<1> QED
  BY <1>1, StepsCount, TypeCorrect, PTL DEF Spec
=============================================================================
