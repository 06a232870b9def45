--------------------------- MODULE VMSettingsProofs ---------------------------
(***************************************************************************)
(* Proofs about the settings and the storage of a VM, for every set of     *)
(* origins and of requests, and any number of edits and failing commands.  *)
(* The parts of VMParts leave each other alone.                            *)
(***************************************************************************)
EXTENDS VMParts, TLAPS

StepNames == {"modify", "firmware", "graphics", "nics", "rmFolders", "addFolders", "cap",
              "nested", "userData", "usb", "clipboard", "chipset", "serial"}
Operations == {"image", "clone", "ova", "update"}

-----------------------------------------------------------------------------
(* The steps of each operation, one by one.                                *)
CommonAre(s) == /\ s[1] = "modify" /\ s[2] = "firmware" /\ s[3] = "graphics" /\ s[4] = "nics"
                /\ s[5] = "addFolders" /\ s[6] = "cap" /\ s[7] = "nested"

LEMMA CommonSteps == Len(Settings!Common) = 7 /\ CommonAre(Settings!Common)
BY DEF Settings!Common, CommonAre

LEMMA ImageSteps ==
  LET s == Settings!Steps("image") IN
  /\ Len(s) = 12 /\ CommonAre(s)
  /\ s[8] = "userData" /\ s[9] = "usb" /\ s[10] = "clipboard"
  /\ s[11] = "chipset" /\ s[12] = "serial"
BY DEF Settings!Steps, Settings!Common, Settings!Rest, CommonAre

LEMMA OvaSteps ==
  LET s == Settings!Steps("ova") IN Len(s) = 8 /\ CommonAre(s) /\ s[8] = "userData"
BY DEF Settings!Steps, Settings!Common, CommonAre

LEMMA CloneSteps == LET s == Settings!Steps("clone") IN Len(s) = 7 /\ CommonAre(s)
BY CommonSteps DEF Settings!Steps

LEMMA UpdateSteps ==
  LET s == Settings!Steps("update") IN
  /\ Len(s) = 13
  /\ s[1] = "modify" /\ s[2] = "firmware" /\ s[3] = "graphics" /\ s[4] = "nics"
  /\ s[5] = "rmFolders" /\ s[6] = "addFolders" /\ s[7] = "cap" /\ s[8] = "nested"
  /\ s[9] = "userData" /\ s[10] = "usb" /\ s[11] = "clipboard"
  /\ s[12] = "chipset" /\ s[13] = "serial"
BY DEF Settings!Steps, Settings!Update, Settings!Rest

LEMMA Positions ==
  ASSUME NEW i \in 1..13
  PROVE  \/ i = 1 \/ i = 2 \/ i = 3 \/ i = 4 \/ i = 5 \/ i = 6 \/ i = 7
         \/ i = 8 \/ i = 9 \/ i = 10 \/ i = 11 \/ i = 12 \/ i = 13
OBVIOUS

LEMMA StepsAreNamed ==
  ASSUME NEW o \in Operations
  PROVE  /\ Len(Settings!Steps(o)) \in 1..13
         /\ \A i \in 1..Len(Settings!Steps(o)) : Settings!Steps(o)[i] \in StepNames
<1> USE DEF StepNames, CommonAre
<1>1. Len(Settings!Steps(o)) \in 1..13
  BY ImageSteps, OvaSteps, CloneSteps, UpdateSteps DEF Operations
<1>2. ASSUME NEW i \in 1..Len(Settings!Steps(o))
      PROVE  Settings!Steps(o)[i] \in StepNames
  <2>1. i \in 1..13
    <3>1. ASSUME NEW n \in 1..13, NEW m \in 1..n
          PROVE  m \in 1..13
      OBVIOUS
    <3> QED
      BY <1>1, <3>1
  <2>2. CASE o = "image"
    BY <2>1, <2>2, Positions, ImageSteps
  <2>3. CASE o = "ova"
    BY <2>1, <2>3, Positions, OvaSteps
  <2>4. CASE o = "clone"
    BY <2>1, <2>4, Positions, CloneSteps
  <2>5. CASE o = "update"
    BY <2>1, <2>5, Positions, UpdateSteps
  <2> QED
    BY <2>2, <2>3, <2>4, <2>5 DEF Operations
<1> QED
  BY <1>1, <1>2

(* Nothing that is removed has been added by an earlier step.              *)
LEMMA RemovesFirst ==
  ASSUME NEW o \in Operations, NEW j \in 1..Len(Settings!Steps(o)),
         Settings!Steps(o)[j] = "rmFolders", NEW i \in 1..(j - 1)
  PROVE  Settings!Steps(o)[i] \in {"modify", "firmware", "graphics", "nics"}
<1>1. o = "update" /\ j = 5
  <2> USE DEF CommonAre
  <2>1. j \in 1..13
    BY StepsAreNamed
  <2>2. CASE o = "image"
    BY <2>1, <2>2, Positions, ImageSteps
  <2>3. CASE o = "ova"
    BY <2>1, <2>3, Positions, OvaSteps
  <2>4. CASE o = "clone"
    BY <2>1, <2>4, Positions, CloneSteps
  <2>5. CASE o = "update"
    BY <2>1, <2>5, Positions, UpdateSteps
  <2> QED
    BY <2>2, <2>3, <2>4, <2>5 DEF Operations
<1>2. i = 1 \/ i = 2 \/ i = 3 \/ i = 4
  BY <1>1
<1> QED
  BY <1>1, <1>2, UpdateSteps

(* The step that sets a key.                                               *)
Setter(k) == CASE k \in {"base", "nic1", "nic2"}          -> "modify"
               [] k \in {"promisc", "cable", "forward"}   -> "nics"
               [] k \in {"folderA", "folderB"}            -> "addFolders"
               [] k \in {"ohci", "xhci"}                  -> "usb"
               [] k = "serial0"                           -> "serial"
               [] OTHER                                   -> k

KeyNames == {"base", "nic1", "nic2", "firmware", "graphics", "promisc", "cable", "forward",
             "folderA", "folderB", "cap", "nested", "userData", "ohci", "xhci", "clipboard",
             "chipset", "serial0"}

LEMMA KeysAreNamed == Settings!Keys = KeyNames
<1>1. DOMAIN Settings!KeysOf = StepNames
  BY DEF Settings!KeysOf, StepNames
<1>2. \A s \in StepNames : Settings!KeysOf[s] \subseteq KeyNames
  BY DEF Settings!KeysOf, StepNames, KeyNames
<1>3. \A k \in KeyNames : Setter(k) \in StepNames /\ k \in Settings!KeysOf[Setter(k)]
  BY DEF Settings!KeysOf, StepNames, KeyNames, Setter
<1> QED
  BY <1>1, <1>2, <1>3 DEF Settings!Keys

-----------------------------------------------------------------------------
(* What an operation does not leave out is set by one of its steps.        *)
LEMMA KeysAreSet ==
  ASSUME NEW o \in Operations, NEW k \in Settings!Keys \ Settings!LeftOut(o)
  PROVE  \E i \in 1..Len(Settings!Steps(o)) :
           Settings!Steps(o)[i] = Setter(k) /\ k \in Settings!KeysOf[Setter(k)]
<1>1. k \in KeyNames /\ k \in Settings!KeysOf[Setter(k)] /\ Setter(k) \in StepNames \ {"rmFolders"}
  BY KeysAreNamed DEF Settings!KeysOf, KeyNames, Setter, StepNames
<1>2. \E i \in 1..Len(Settings!Steps(o)) : Settings!Steps(o)[i] = Setter(k)
  <2> USE DEF CommonAre
  <2>1. CASE o = "image"
    <3> DEFINE s == Settings!Steps("image")
    <3>1. Setter(k) \in {s[1], s[2], s[3], s[4], s[5], s[6], s[7], s[8], s[9], s[10], s[11], s[12]}
      BY <1>1, ImageSteps DEF StepNames
    <3> HIDE DEF s
    <3>2. \E i \in 1..12 : s[i] = Setter(k)
      BY <3>1
    <3> QED
      BY <2>1, <3>2, ImageSteps DEF s
  <2>2. CASE o = "ova"
    <3>1. Setter(k) \notin {"usb", "clipboard", "chipset", "serial"}
      BY <1>1, <2>2 DEF Settings!LeftOut, Settings!KeysOf, KeyNames, Setter
    <3> QED
      BY <1>1, <2>2, <3>1, OvaSteps DEF StepNames
  <2>3. CASE o = "clone"
    <3>1. Setter(k) \notin {"userData", "usb", "clipboard", "chipset", "serial"}
      BY <1>1, <2>3 DEF Settings!LeftOut, Settings!KeysOf, KeyNames, Setter
    <3> QED
      BY <1>1, <2>3, <3>1, CloneSteps DEF StepNames
  <2>4. CASE o = "update"
    <3> DEFINE s == Settings!Steps("update")
    <3>1. Setter(k) \in {s[1], s[2], s[3], s[4], s[6], s[7], s[8], s[9], s[10], s[11], s[12], s[13]}
      BY <1>1, UpdateSteps DEF StepNames
    <3> HIDE DEF s
    <3>2. \E i \in 1..13 : s[i] = Setter(k)
      BY <3>1
    <3> QED
      BY <2>4, <3>2, UpdateSteps DEF s
  <2> QED
    BY <2>1, <2>2, <2>3, <2>4 DEF Operations
<1> QED
  BY <1>1, <1>2

-----------------------------------------------------------------------------
(* The types, as far as the proof needs them. Values of the keys: what is  *)
(* configured, and what the machine has, are in the range of each key.     *)
SettingsTyped ==
  /\ \A k \in KeyNames : cfg[k] \in Settings!Values(k) /\ vm[k] \in Settings!Values(k)
  /\ op \in Operations
  /\ step \in 1..(Len(Settings!Steps(op)) + 1)
  /\ failed \in BOOLEAN

LEMMA SparseIsTyped ==
  ASSUME NEW c \in Settings!Sparse
  PROVE  \A k \in KeyNames : c[k] \in Settings!Values(k)
<1>1. PICK ks \in Settings!Interacting :
        c \in {[k \in Settings!Keys |-> IF k \in ks THEN f[k] ELSE 0] : f \in Settings!Only(ks)}
  BY DEF Settings!Sparse
<1>2. PICK f \in Settings!Only(ks) : c = [k \in Settings!Keys |-> IF k \in ks THEN f[k] ELSE 0]
  BY <1>1
<1>3. \A k \in ks : f[k] \in Settings!Values(k)
  BY DEF Settings!Only
<1> QED
  BY <1>2, <1>3, KeysAreNamed DEF Settings!Values

(* Whatever a step passes, partly or all, stays within the range.          *)
LEMMA AfterIsTyped ==
  ASSUME SettingsTyped, NEW s, NEW ks
  PROVE  \A k \in KeyNames : Settings!After(s, ks)[k] \in Settings!Values(k)
BY KeysAreNamed DEF SettingsTyped, Settings!After, Settings!Values

LEMMA SettingsNextTyped ==
  ASSUME SettingsTyped, Settings!Next
  PROVE  SettingsTyped'
<1>1. CASE Settings!RunStep
  <2> DEFINE s == Settings!Steps(op)[step]
  <2>1. PICK ks : vm' = Settings!After(s, ks)
    BY <1>1 DEF Settings!RunStep
  <2>2. /\ cfg' = cfg /\ op' = op /\ step <= Len(Settings!Steps(op))
        /\ step' \in {step, step + 1} /\ failed' \in BOOLEAN
    BY <1>1 DEF Settings!RunStep, Settings!Running, SettingsTyped
  <2>3. Len(Settings!Steps(op)) \in Nat
    BY StepsAreNamed DEF SettingsTyped
  <2>4. step' \in 1..(Len(Settings!Steps(op)) + 1)
    BY <2>2, <2>3 DEF SettingsTyped
  <2> QED
    BY <2>1, <2>2, <2>4, AfterIsTyped DEF SettingsTyped
<1>2. CASE Settings!Apply
  <2>1. 1 \in 1..(Len(Settings!Steps("update")) + 1)
    BY UpdateSteps
  <2>2. cfg' = cfg \/ cfg' \in Settings!Sparse
    BY <1>2 DEF Settings!Apply
  <2> QED
    BY <1>2, <2>1, <2>2, SparseIsTyped DEF Settings!Apply, SettingsTyped, Operations
<1> QED
  BY <1>1, <1>2 DEF Settings!Next

LEMMA SettingsInitTyped ==
  ASSUME Settings!Init
  PROVE  SettingsTyped
<1>1. op \in Operations /\ cfg \in Settings!Sparse /\ step = 1 /\ failed = FALSE
  BY ConstantsAssumption DEF Settings!Init, Operations
<1>2. vm \in Settings!Sparse \/ vm = [k \in Settings!Keys |-> 0]
  BY DEF Settings!Init, Settings!Defaults
<1>3. \A k \in KeyNames : 0 \in Settings!Values(k)
  BY DEF Settings!Values
<1>4. Len(Settings!Steps(op)) \in Nat
  BY <1>1, StepsAreNamed
<1>5. \A k \in KeyNames : vm[k] \in Settings!Values(k)
  BY <1>2, <1>3, SparseIsTyped, KeysAreNamed
<1>6. step \in 1..(Len(Settings!Steps(op)) + 1)
  BY <1>1, <1>4
<1> QED
  BY <1>1, <1>5, <1>6, SparseIsTyped DEF SettingsTyped

-----------------------------------------------------------------------------
(* The inductive invariant: of an operation that has not failed, all steps *)
(* that are behind it have had their effect, and no later step has undone  *)
(* it. A failed step may leave anything; the next apply begins from there. *)
Applied == ~failed => \A i \in 1..(step - 1) :
  \A k \in Settings!KeysOf[Settings!Steps(op)[i]] :
    Settings!Steps(op)[i] # "rmFolders" /\ Settings!Passed(op, k) => vm[k] = cfg[k]

(* A machine of an image starts with the defaults and gets only what is    *)
(* configured.                                                             *)
OnlyAsked == op = "image" => \A k \in KeyNames : vm[k] \in {0, cfg[k]}

SettingsInv == SettingsTyped /\ Applied /\ OnlyAsked

LEMMA StepsBehind ==
  ASSUME NEW n \in Nat, NEW m, m = n \/ m = n + 1, NEW i \in 1..(m - 1)
  PROVE  i \in 1..(n - 1) \/ (i = n /\ m = n + 1)
OBVIOUS

LEMMA RunStepApplied ==
  ASSUME SettingsTyped, Applied, Settings!RunStep
  PROVE  Applied'
<1> DEFINE S == Settings!Steps(op)
<1>1. /\ cfg' = cfg /\ op' = op /\ ~failed /\ step <= Len(S)
      /\ step \in Nat /\ step' \in {step, step + 1}
  BY StepsAreNamed DEF Settings!RunStep, Settings!Running, SettingsTyped
<1>2. PICK ks \in SUBSET Settings!KeysOf[S[step]] : vm' = Settings!After(S[step], ks)
  BY DEF Settings!RunStep
<1>3. \A k : Settings!Passed(op, k)' <=> Settings!Passed(op, k)
  BY <1>1 DEF Settings!Passed
<1>4. SUFFICES ASSUME ~failed', NEW i \in 1..(step' - 1), NEW k \in Settings!KeysOf[S[i]],
                      S[i] # "rmFolders", Settings!Passed(op, k)
               PROVE  vm'[k] = cfg[k]
  BY <1>1, <1>3 DEF Applied
<1>5. op \in Operations /\ step \in 1..Len(S) /\ i \in 1..Len(S)
  BY <1>1, StepsAreNamed DEF SettingsTyped
<1>6. k \in Settings!Keys
  <2>1. S[i] \in StepNames
    BY <1>5, StepsAreNamed
  <2> QED
    BY <2>1 DEF Settings!Keys, Settings!KeysOf, StepNames
<1>7. CASE i \in 1..(step - 1)
  <2>1. vm[k] = cfg[k]
    BY <1>1, <1>4, <1>7 DEF Applied
  <2>2. CASE S[step] = "rmFolders"
    <3>1. S[i] \in {"modify", "firmware", "graphics", "nics"}
      BY <1>5, <1>7, <2>2, RemovesFirst
    <3>2. k \notin Settings!KeysOf["rmFolders"]
      BY <3>1 DEF Settings!KeysOf
    <3> QED
      BY <1>2, <1>6, <2>1, <2>2, <3>2 DEF Settings!After
  <2>3. CASE S[step] # "rmFolders"
    BY <1>2, <1>6, <2>1, <2>3 DEF Settings!After
  <2> QED
    BY <2>2, <2>3
<1>8. i \in 1..(step - 1) \/ (i = step /\ step' = step + 1)
  <2> DEFINE m == step'
  <2>1. step \in Nat /\ (m = step \/ m = step + 1) /\ i \in 1..(m - 1)
    BY <1>1
  <2> HIDE DEF m, S
  <2>2. i \in 1..(step - 1) \/ (i = step /\ m = step + 1)
    BY <2>1, StepsBehind
  <2> QED
    BY <2>2 DEF m
<1>9. CASE i = step /\ step' = step + 1
  <2>1. vm' = Settings!After(S[step], Settings!KeysOf[S[step]])
    BY <1>4, <1>9 DEF Settings!RunStep
  <2> QED
    BY <1>4, <1>6, <1>9, <2>1 DEF Settings!After
<1> QED
  BY <1>7, <1>8, <1>9

LEMMA SettingsNextInv ==
  ASSUME SettingsInv, Settings!Next
  PROVE  SettingsInv'
<1>1. SettingsTyped'
  BY SettingsNextTyped DEF SettingsInv
<1>2. CASE Settings!RunStep
  <2>1. Applied'
    BY <1>2, RunStepApplied DEF SettingsInv
  <2>2. PICK s, ks : vm' = Settings!After(s, ks)
    BY <1>2 DEF Settings!RunStep
  <2>3. OnlyAsked'
    BY <1>2, <2>2, KeysAreNamed DEF Settings!RunStep, Settings!After, SettingsInv, OnlyAsked
  <2> QED
    BY <1>1, <2>1, <2>3 DEF SettingsInv
<1>3. CASE Settings!Apply
  BY <1>1, <1>3 DEF Settings!Apply, SettingsInv, Applied, OnlyAsked
<1> QED
  BY <1>2, <1>3 DEF Settings!Next

(* What becomes of the settings whichever part a behaviour is about.       *)
SettingsKept == part = "settings" => SettingsInv

LEMMA SettingsKeptHolds == Spec => []SettingsKept
<1>1. Init => SettingsKept
  <2> SUFFICES ASSUME Init, part = "settings" PROVE SettingsInv
    BY DEF SettingsKept
  <2>1. Settings!Init
    BY DEF Init
  <2>2. Applied
    BY <2>1 DEF Settings!Init, Applied
  <2>3. OnlyAsked
    BY <2>1, KeysAreNamed DEF Settings!Init, Settings!Defaults, OnlyAsked
  <2> QED
    BY <2>1, <2>2, <2>3, SettingsInitTyped DEF SettingsInv
<1>2. SettingsKept /\ [Next]_vars => SettingsKept'
  <2> SUFFICES ASSUME SettingsKept, [Next]_vars PROVE SettingsKept'
    OBVIOUS
  <2>1. CASE IsSettings /\ Settings!Next
    BY <2>1, SettingsNextInv DEF SettingsKept, IsSettings
  <2>2. CASE IsAdapters \/ IsStorage
    BY <2>2 DEF SettingsKept, IsAdapters, IsStorage
  <2>3. CASE UNCHANGED vars
    <3>1. UNCHANGED <<part, cfg, vm, op, step, failed>>
      BY <2>3 DEF vars, settingsVars
    <3>2. SettingsInv => SettingsInv'
      BY <3>1 DEF SettingsInv, SettingsTyped, Applied, OnlyAsked, Settings!Passed
    <3> QED
      BY <3>1, <3>2 DEF SettingsKept
  <2> QED
    BY <2>1, <2>2, <2>3 DEF Next
<1> QED
  BY <1>1, <1>2, PTL DEF Spec

(* The setter of a key has run when an operation is done.                  *)
LEMMA DoneMeansSet ==
  ASSUME SettingsInv, Settings!Done, NEW k \in Settings!Keys \ Settings!LeftOut(op),
         Settings!Passed(op, k)
  PROVE  vm[k] = cfg[k]
<1>1. PICK i \in 1..Len(Settings!Steps(op)) :
        Settings!Steps(op)[i] = Setter(k) /\ k \in Settings!KeysOf[Setter(k)]
  BY KeysAreSet DEF SettingsInv, SettingsTyped
<1>2. i \in 1..(step - 1)
  BY StepsAreNamed DEF Settings!Done, SettingsInv, SettingsTyped
<1>3. Setter(k) # "rmFolders"
  BY KeysAreNamed DEF Setter, KeyNames
<1> QED
  BY <1>1, <1>2, <1>3 DEF SettingsInv, Applied, Settings!Done

(* A create or an update that succeeds leaves every setting on the machine *)
(* that its branch handles, whatever earlier ones left half done; and an   *)
(* update puts back what the code always passes.                           *)
THEOREM SuccessConfigures == Spec => []SuccessMeansConfigured
<1>1. ASSUME SettingsInv
      PROVE  Settings!SuccessMeansConfigured
  <2> SUFFICES ASSUME Settings!Done, NEW k \in Settings!Effective
               PROVE  vm[k] = cfg[k]
    BY DEF Settings!SuccessMeansConfigured
  <2>1. k \in Settings!Keys \ Settings!LeftOut(op)
    BY DEF Settings!Effective
  <2>2. cfg["nic1"] \in 0..2
    BY <1>1 DEF SettingsInv, SettingsTyped, KeyNames, Settings!Values
  <2>3. Settings!Passed(op, k)
    BY <2>2 DEF Settings!Effective, Settings!Passed
  <2> QED
    BY <1>1, <2>1, <2>3, DoneMeansSet
<1>2. ASSUME SettingsInv
      PROVE  Settings!UpdateReverts
  <2>1. ASSUME op = "update", NEW k \in {"base", "graphics", "nested"}
        PROVE  k \in Settings!Keys \ Settings!LeftOut(op) /\ Settings!Passed(op, k)
    BY <2>1, KeysAreNamed DEF KeyNames, Settings!LeftOut, Settings!Passed, Settings!Always
  <2>2. ASSUME Settings!Done, NEW k \in Settings!Keys \ Settings!LeftOut(op), Settings!Passed(op, k)
        PROVE  vm[k] = cfg[k]
    BY <1>2, <2>2, DoneMeansSet
  <2> QED
    BY <2>1, <2>2 DEF Settings!UpdateReverts
<1>3. SettingsKept => SuccessMeansConfigured
  BY <1>1, <1>2 DEF SettingsKept, SuccessMeansConfigured
<1> QED
  BY <1>3, SettingsKeptHolds, PTL

(* A VM that was created from an image has the configured settings, the    *)
(* default of what is not configured, and nothing else.                    *)
THEOREM FreshVMs == Spec => []FreshVMIsExact
<1>1. ASSUME SettingsInv
      PROVE  Settings!FreshVMIsExact
  <2> SUFFICES ASSUME Settings!Done, op = "image",
                      NEW k \in Settings!Keys \ {"promisc", "cable", "forward"}
               PROVE  vm[k] = cfg[k]
    BY DEF Settings!FreshVMIsExact
  <2>1. CASE Settings!Passed(op, k)
    BY <1>1, <2>1, DoneMeansSet DEF Settings!LeftOut
  <2>2. CASE ~Settings!Passed(op, k)
    <3>1. cfg[k] = 0
      BY <2>2, KeysAreNamed DEF Settings!Passed, KeyNames
    <3> QED
      BY <1>1, <3>1, KeysAreNamed DEF SettingsInv, OnlyAsked
  <2> QED
    BY <2>1, <2>2
<1>2. SettingsKept => FreshVMIsExact
  BY <1>1 DEF SettingsKept, FreshVMIsExact
<1> QED
  BY <1>2, SettingsKeptHolds, PTL

-----------------------------------------------------------------------------
(* The storage. Each step of the create has put what it has come to into   *)
(* its slot: the invariant says how far each of the loops is, and that the *)
(* controllers have the ports that they were given.                        *)

Ctls      == asked.controllers
Opts      == asked.opticals
Atts      == asked.attachments
SataAt(i) == Store!Slot("SATA", i - 1)
AttAt(j)  == Store!Slot(Atts[j].ctl, Atts[j].port)

(* d disks, o ISO files and a of the attachments are in place.             *)
Placed(d, o, a) ==
  /\ \A s : s \in DOMAIN attached <=> \/ \E i \in 1..(d + o) : s = SataAt(i)
                                      \/ \E j \in 1..a : s = AttAt(j)
  /\ ~Store!Collide => /\ \A i \in 1..d : attached[SataAt(i)] = disks[i]
                       /\ o = 1 => attached[SataAt(d + 1)] = Opts[1].base
                       /\ \A j \in 1..a : attached[AttAt(j)] = Atts[j].medium

(* The first n controllers have been added.                                *)
Roomy(n) ==
  /\ \A c : c \in DOMAIN ports <=> c = "SATA" \/ \E i \in 1..n : c = Ctls[i].name
  /\ ports["SATA"] = Len(disks) + 1
  /\ \A i \in 1..n : ports[Ctls[i].name] = Store!Room(Ctls[i])

Copied(n) == n = 1 => Opts[1].base \in DOMAIN isos /\ isos[Opts[1].base] = Opts[1]

StoreSafe ==
  /\ pc \notin {"gather", "failed"} => disks \in Store!Sorted(folder)
  /\ pc = "gather" => next = 1
  /\ pc \in {"gather", "sata"} => ports = <<>> /\ attached = <<>>
  /\ pc = "disks" => next <= Len(disks) + 1 /\ Roomy(0) /\ Placed(next - 1, 0, 0)
  /\ pc = "copy" => /\ next <= Len(Opts) + 1 /\ next <= 2
                    /\ Roomy(0) /\ Placed(Len(disks), next - 1, 0) /\ Copied(next - 1)
  /\ pc = "iso" => /\ next <= Len(Opts) /\ next <= 2
                   /\ Roomy(0) /\ Placed(Len(disks), next - 1, 0) /\ Copied(next)
  /\ pc \in {"controllers", "attachments", "done"} =>
       Len(Opts) <= 1 /\ Copied(Len(Opts))
  /\ pc = "controllers" => /\ next <= Len(Ctls) + 1
                           /\ Roomy(next - 1) /\ Placed(Len(disks), Len(Opts), 0)
  /\ pc = "attachments" => /\ next <= Len(Atts) + 1
                           /\ Roomy(Len(Ctls)) /\ Placed(Len(disks), Len(Opts), next - 1)
  /\ pc = "done" => Placed(Len(disks), Len(Opts), Len(Atts))
  /\ pc = "failed" /\ faults = 0 => Store!Impossible

(* What is asked for has the types of a request.                           *)
LEMMA AskedTyped ==
  ASSUME Store!TypeOK
  PROVE  /\ asked.image \subseteq Store!Items(Files) /\ asked.image # {}
         /\ Opts \in Seq([dir : STRING, base : STRING])
         /\ Ctls \in Seq([name : STRING, ports : Int])
         /\ Atts \in Seq([ctl : STRING, port : Int, medium : STRING \ {"none", "emptydrive"}])
         /\ folder \subseteq Store!Items(Files)
         /\ \A o \in Store!Items(Opts) : o.base \notin Store!Items(Files)
<1>1. asked \in Asked /\ asked \in Store!Requests
  BY ConstantsAssumption DEF Store!TypeOK
<1>2. /\ asked.image \in (SUBSET Store!Items(Files)) \ {{}}
      /\ Opts \in Seq([dir : STRING, base : STRING])
      /\ Ctls \in Seq([name : STRING, ports : Int])
      /\ Atts \in Seq([ctl : STRING, port : Int, medium : STRING \ {"none", "emptydrive"}])
  BY <1>1 DEF Store!Requests, Opts, Ctls, Atts
<1>3. "old" \in Store!Items(Files) /\ \A o \in Store!Items(Opts) : o.base \notin Store!Items(Files)
  BY <1>1, ConstantsAssumption DEF Opts
<1> QED
  BY <1>2, <1>3 DEF Store!TypeOK

LEMMA ElementOf ==
  ASSUME NEW S, NEW s \in Seq(S), NEW i \in 1..Len(s)
  PROVE  s[i] \in S /\ i \in DOMAIN s /\ s[i] \in Store!Items(s)
BY DEF Store!Items

(* The disks are in a sequence without repetitions, a configdrive last.    *)
LEMMA DisksInOrder ==
  ASSUME disks \in Store!Sorted(folder)
  PROVE  /\ Len(disks) \in Nat \ {0} /\ DOMAIN disks = 1..Len(disks)
         /\ Store!Items(disks) = folder /\ \A i \in 1..Len(disks) : disks[i] \in folder
         /\ \A i, j \in 1..Len(disks) : i < j => disks[i] # disks[j] /\ disks[i] # "configdrive"
<1>1. PICK n \in 1..Len(Files) : disks \in [1..n -> folder]
  BY DEF Store!Sorted
<1>2. n \in Nat \ {0} /\ DOMAIN disks = 1..n /\ Len(disks) = n /\ \A i \in 1..n : disks[i] \in folder
  <2>1. Len(Files) \in Nat
    BY ConstantsAssumption
  <2>2. n \in Nat \ {0}
    BY <2>1
  <2> QED
    BY <1>1, <2>2
<1>3. Store!Items(disks) = folder /\ \A i, j \in 1..n : i < j => Store!Sooner(disks[i], disks[j])
  BY <1>2 DEF Store!Sorted
<1>4. ASSUME NEW f, Store!Sooner(f, f) PROVE FALSE
  <2>1. PICK i \in DOMAIN Files, j \in DOMAIN Files : i > j /\ Files[i] = f /\ Files[j] = f
    BY <1>4 DEF Store!Sooner, Store!Later
  <2>2. i = j
    BY <2>1, ConstantsAssumption
  <2>3. i \in Nat /\ j \in Nat
    BY ConstantsAssumption
  <2> QED
    BY <2>1, <2>2, <2>3
<1>5. \A i, j \in 1..n : i < j => disks[i] # disks[j] /\ disks[i] # "configdrive"
  BY <1>3, <1>4 DEF Store!Sooner
<1> QED
  BY <1>2, <1>3, <1>5

LEMMA PutAt ==
  ASSUME NEW f, NEW x, NEW v
  PROVE  LET g == Store!Put(f, x, v) IN
         /\ DOMAIN g = DOMAIN f \cup {x} /\ g[x] = v
         /\ \A y \in DOMAIN f : y # x => g[y] = f[y]
BY DEF Store!Put

LEMMA SlotsDiffer ==
  ASSUME NEW c, NEW p, NEW d, NEW q
  PROVE  /\ Store!Slot(c, p) = Store!Slot(d, q) <=> c = d /\ p = q
         /\ Store!Slot(c, p)[1] = c /\ Store!Slot(c, p)[2] = p
BY DEF Store!Slot

-----------------------------------------------------------------------------
(* What the steps do to the machine: a controller is added, a slot filled, *)
(* or the create ends with an error.                                       *)
Errs == /\ pc' = "failed" /\ UNCHANGED <<asked, folder, disks, ports, attached, isos, next>>
        /\ faults' = faults \/ (faults < MaxFaults /\ faults' = faults + 1)

LEMMA AddedController ==
  ASSUME Store!TypeOK, NEW STATE c, NEW STATE n, NEW CONSTANT s, NEW STATE i, n \in Nat \ {0},
         Store!AddController(c, n, s, i)
  PROVE  /\ UNCHANGED <<asked, folder, disks, attached, isos>>
         /\ \/ /\ c \notin DOMAIN ports /\ ports' = Store!Put(ports, c, n)
               /\ pc' = s /\ next' = i /\ faults' = faults
            \/ Errs /\ (faults' = faults => c \in DOMAIN ports)
<1>1. faults \in 0..MaxFaults /\ MaxFaults \in Nat
  BY ConstantsAssumption DEF Store!TypeOK
<1> QED
  BY <1>1 DEF Store!AddController, Store!Do, Store!machine, Errs

LEMMA AttachedMedium ==
  ASSUME Store!TypeOK, NEW STATE c, NEW STATE p, NEW STATE m, NEW CONSTANT s, NEW STATE i,
         Store!Attach(c, p, m, s, i)
  PROVE  /\ UNCHANGED <<asked, folder, disks, ports, isos>>
         /\ \/ /\ c \in DOMAIN ports /\ p \in 0..(ports[c] - 1)
               /\ attached' = Store!Put(attached, Store!Slot(c, p), m)
               /\ pc' = s /\ next' = i /\ faults' = faults
            \/ Errs /\ (faults' = faults => c \notin DOMAIN ports \/ p \notin 0..(ports[c] - 1))
<1>1. faults \in 0..MaxFaults /\ MaxFaults \in Nat
  BY ConstantsAssumption DEF Store!TypeOK
<1> QED
  BY <1>1 DEF Store!Attach, Store!Do, Store!machine, Errs

LEMMA LoopEnds ==
  ASSUME NEW STATE l, NEW CONSTANT s, Store!Through(l, s)
  PROVE  /\ next > Len(l) /\ pc' = s /\ next' = 1
         /\ UNCHANGED <<asked, folder, disks, ports, attached, isos, faults>>
BY DEF Store!Through, Store!machine

(* What a step of the create comes to.                                     *)
StoreStep ==
  \/ Errs /\ faults' = faults + 1
  \/ /\ pc = "gather" /\ disks' \in Store!Sorted(folder) /\ pc' = "sata"
     /\ UNCHANGED <<asked, folder, ports, attached, isos, next, faults>>
  \/ /\ UNCHANGED <<asked, folder, disks, ports, attached, isos, faults>> /\ next' = 1
     /\ \/ pc = "disks" /\ pc' = "copy" /\ next > Len(disks)
        \/ pc = "copy" /\ pc' = "controllers" /\ next > Len(Opts)
        \/ pc = "controllers" /\ pc' = "attachments" /\ next > Len(Ctls)
        \/ pc = "attachments" /\ pc' = "done" /\ next > Len(Atts)
  \/ /\ pc = "copy" /\ next <= Len(Opts) /\ pc' = "iso"
     /\ isos' = Store!Put(isos, Opts[next].base, Opts[next])
     /\ UNCHANGED <<asked, folder, disks, ports, attached, next, faults>>

LEMMA StoreSteps ==
  ASSUME Store!TypeOK, Store!Next
  PROVE  \/ StoreStep
         \/ Store!AddSata
         \/ pc = "disks" /\ next <= Len(disks) /\ Store!Attach("SATA", next - 1, disks[next], "disks", next + 1)
         \/ Store!AttachIso
         \/ /\ pc = "controllers" /\ next <= Len(Ctls)
            /\ Store!AddController(Ctls[next].name, Store!Room(Ctls[next]), "controllers", next + 1)
         \/ /\ pc = "attachments" /\ next <= Len(Atts)
            /\ Store!Attach(Atts[next].ctl, Atts[next].port, Atts[next].medium, "attachments", next + 1)
<1>1. faults \in 0..MaxFaults /\ MaxFaults \in Nat
  BY ConstantsAssumption DEF Store!TypeOK
<1>2. CASE Store!GatherDisks
  BY <1>1, <1>2 DEF Store!GatherDisks, Store!machine, StoreStep, Errs
<1>3. CASE Store!AttachDisks
  BY <1>3, LoopEnds DEF Store!AttachDisks, StoreStep
<1>4. CASE Store!CopyIso
  <2>1. ASSUME Store!Through(Opts, "controllers"), pc = "copy" PROVE StoreStep
    BY <2>1, LoopEnds DEF StoreStep
  <2>2. ASSUME pc = "copy", next <= Len(Opts),
               Store!Do(TRUE, isos' = Store!Put(isos, Opts[next].base, Opts[next]) /\ UNCHANGED <<ports, attached>>,
                        "iso", next)
        PROVE  StoreStep
    BY <1>1, <2>2 DEF Store!Do, Store!machine, StoreStep, Errs
  <2> QED
    BY <1>4, <2>1, <2>2 DEF Store!CopyIso, Opts
<1>5. CASE Store!AddControllers
  BY <1>5, LoopEnds DEF Store!AddControllers, StoreStep, Ctls
<1>6. CASE Store!AttachMedia
  BY <1>6, LoopEnds DEF Store!AttachMedia, StoreStep, Atts
<1> QED
  BY <1>2, <1>3, <1>4, <1>5, <1>6 DEF Store!Next

(* Types.                                                                  *)
LEMMA AddedTyped ==
  ASSUME Store!TypeOK, NEW STATE c, NEW STATE n, NEW CONSTANT s, NEW STATE i, n \in Nat \ {0}, i \in Nat \ {0},
         s \in {"disks", "controllers"}, Store!AddController(c, n, s, i)
  PROVE  Store!TypeOK'
<1>1. CASE Errs
  BY <1>1, ConstantsAssumption DEF Errs, Store!TypeOK
<1>2. CASE /\ c \notin DOMAIN ports /\ ports' = Store!Put(ports, c, n)
           /\ UNCHANGED <<asked, folder, disks, attached, isos>>
           /\ pc' = s /\ next' = i /\ faults' = faults
  <2>1. /\ DOMAIN ports' = DOMAIN ports \cup {c} /\ ports'[c] = n
        /\ \A y \in DOMAIN ports : y # c => ports'[y] = ports[y]
    BY <1>2 DEF Store!Put
  <2>2. \A y \in DOMAIN ports' : ports'[y] \in Nat \ {0}
    BY <2>1 DEF Store!TypeOK
  <2>3. \A t \in DOMAIN attached' : t[1] \in DOMAIN ports' /\ t[2] \in 0..(ports'[t[1]] - 1)
    BY <1>2, <2>1 DEF Store!TypeOK
  <2> QED
    BY <1>2, <2>2, <2>3 DEF Store!TypeOK
<1> QED
  BY <1>1, <1>2, AddedController

LEMMA AttachedTyped ==
  ASSUME Store!TypeOK, NEW STATE c, NEW STATE p, NEW STATE m, NEW CONSTANT s, NEW STATE i, i \in Nat \ {0},
         s \in {"disks", "copy", "attachments"}, Store!Attach(c, p, m, s, i)
  PROVE  Store!TypeOK'
<1>1. CASE Errs
  BY <1>1, ConstantsAssumption DEF Errs, Store!TypeOK
<1>2. CASE /\ c \in DOMAIN ports /\ p \in 0..(ports[c] - 1)
           /\ attached' = Store!Put(attached, Store!Slot(c, p), m)
           /\ UNCHANGED <<asked, folder, disks, ports, isos>>
           /\ pc' = s /\ next' = i /\ faults' = faults
  <2>1. DOMAIN attached' = DOMAIN attached \cup {Store!Slot(c, p)}
    BY <1>2, PutAt
  <2>2. Store!Slot(c, p)[1] = c /\ Store!Slot(c, p)[2] = p
    BY DEF Store!Slot
  <2>3. \A t \in DOMAIN attached' : t[1] \in DOMAIN ports' /\ t[2] \in 0..(ports'[t[1]] - 1)
    BY <1>2, <2>1, <2>2 DEF Store!TypeOK
  <2> QED
    BY <1>2, <2>3 DEF Store!TypeOK
<1> QED
  BY <1>1, <1>2, AttachedMedium

LEMMA RoomIsPositive ==
  ASSUME NEW c \in [name : STRING, ports : Int]
  PROVE  Store!Room(c) \in Nat \ {0}
BY ConstantsAssumption DEF Store!Room

LEMMA StoreNextTyped ==
  ASSUME Store!TypeOK, StoreSafe, Store!Next
  PROVE  Store!TypeOK'
<1>0. next \in Nat \ {0} /\ next + 1 \in Nat \ {0}
  BY DEF Store!TypeOK
<1>1. CASE StoreStep
  <2>1. CASE Errs
    BY <2>1, ConstantsAssumption DEF Errs, Store!TypeOK
  <2>2. CASE /\ pc = "copy" /\ next <= Len(Opts) /\ pc' = "iso"
             /\ isos' = Store!Put(isos, Opts[next].base, Opts[next])
             /\ UNCHANGED <<asked, folder, disks, ports, attached, next, faults>>
    <3>1. Opts[next] \in Store!Items(Opts)
      <4>1. next \in DOMAIN Opts
        BY <1>0, <2>2, AskedTyped
      <4> QED
        BY <4>1 DEF Store!Items
    <3> DEFINE b == Opts[next].base
               o == Opts[next]
               all == Store!Items(Opts)
    <3>2. \A f \in DOMAIN isos' : isos'[f] \in Store!Items(asked.opticals)
      <4>1. isos' = Store!Put(isos, b, o) /\ (\A f \in DOMAIN isos : isos[f] \in all) /\ asked' = asked
        BY <2>2 DEF Store!TypeOK, Opts
      <4> HIDE DEF b, o, all
      <4>2. \A f \in DOMAIN isos' : isos'[f] \in all \/ isos'[f] = o
        BY <4>1 DEF Store!Put
      <4> QED
        BY <3>1, <4>2 DEF o, all, Opts
    <3> QED
      BY <2>2, <3>2 DEF Store!TypeOK
  <2>3. CASE /\ pc = "gather" /\ disks' \in Store!Sorted(folder) /\ pc' = "sata"
             /\ UNCHANGED <<asked, folder, ports, attached, isos, next, faults>>
    BY <2>3 DEF Store!TypeOK
  <2>4. CASE /\ UNCHANGED <<asked, folder, disks, ports, attached, isos, faults>> /\ next' = 1
             /\ pc' \in {"copy", "controllers", "attachments", "done"}
    BY <2>4 DEF Store!TypeOK
  <2> QED
    BY <1>1, <2>1, <2>2, <2>3, <2>4 DEF StoreStep
<1>2. CASE Store!AddSata
  <2>1. Len(disks) + 1 \in Nat \ {0}
    BY <1>2, DisksInOrder DEF Store!AddSata, StoreSafe
  <2>2. Store!AddController("SATA", Len(disks) + 1, "disks", 1)
    BY <1>2 DEF Store!AddSata
  <2> QED
    BY <2>1, <2>2, AddedTyped
<1>3. ASSUME Store!Attach("SATA", next - 1, disks[next], "disks", next + 1) PROVE Store!TypeOK'
  BY <1>0, <1>3, AttachedTyped
<1>4. CASE Store!AttachIso
  BY <1>0, <1>4, AttachedTyped DEF Store!AttachIso
<1>5. ASSUME next <= Len(Ctls), Store!AddController(Ctls[next].name, Store!Room(Ctls[next]), "controllers", next + 1)
      PROVE  Store!TypeOK'
  <2>1. Ctls[next] \in [name : STRING, ports : Int]
    <3>1. next \in 1..Len(Ctls) /\ Ctls \in Seq([name : STRING, ports : Int])
      BY <1>0, <1>5, AskedTyped
    <3> QED
      BY <3>1, ElementOf
  <2>2. Store!Room(Ctls[next]) \in Nat \ {0}
    BY <2>1, RoomIsPositive
  <2> QED
    BY <1>0, <1>5, <2>2, AddedTyped
<1>6. ASSUME Store!Attach(Atts[next].ctl, Atts[next].port, Atts[next].medium, "attachments", next + 1)
      PROVE  Store!TypeOK'
  BY <1>0, <1>6, AttachedTyped
<1> QED
  BY <1>1, <1>2, <1>3, <1>4, <1>5, <1>6, StoreSteps

-----------------------------------------------------------------------------
(* Progress.                                                               *)
LEMMA FailedSafe ==
  ASSUME Store!TypeOK, Errs, faults' = faults => Store!Impossible
  PROVE  StoreSafe'
<1>1. faults \in Nat /\ faults' \in Nat /\ (faults' = 0 => faults' = faults)
  BY ConstantsAssumption DEF Store!TypeOK, Errs
<1>2. pc' = "failed" /\ asked' = asked /\ disks' = disks
  BY DEF Errs
<1>3. Store!Impossible => Store!Impossible'
  BY <1>2 DEF Store!Impossible, Store!Claimed
<1> QED
  BY <1>1, <1>2, <1>3 DEF StoreSafe

LEMMA RoomyFrame ==
  ASSUME UNCHANGED <<asked, disks, ports>>
  PROVE  \A n : Roomy(n) => Roomy(n)'
BY DEF Roomy, Ctls

LEMMA CopiedFrame ==
  ASSUME UNCHANGED <<asked, isos>>
  PROVE  \A n : Copied(n) => Copied(n)'
BY DEF Copied, Opts

LEMMA StillPlaced ==
  ASSUME UNCHANGED <<asked, disks, attached, isos>>
  PROVE  /\ Placed(Len(disks), Len(Opts), 0) => Placed(Len(disks), Len(Opts), 0)'
         /\ Placed(Len(disks), Len(Opts), Len(Atts)) => Placed(Len(disks), Len(Opts), Len(Atts))'
         /\ \A n : Placed(Len(disks), n, 0) => Placed(Len(disks), n, 0)'
         /\ Copied(Len(Opts)) => Copied(Len(Opts))'
<1> DEFINE d == Len(disks)
           o == Len(Opts)
           a == Len(Atts)
<1>1. d' = d /\ o' = o /\ a' = a
  BY DEF Opts, Atts
<1>2. Opts' = Opts
  BY DEF Opts
<1>3. \A s : SataAt(s)' = SataAt(s) /\ AttAt(s)' = AttAt(s) /\ Atts' = Atts
  BY DEF SataAt, AttAt, Atts
<1>4. Store!Collide' <=> Store!Collide
  BY DEF Store!Collide, Store!Bases
<1> HIDE DEF d, o, a
<1>5. Placed(d, o, 0) => Placed(d, o, 0)'
  BY <1>1, <1>2, <1>3, <1>4 DEF Placed
<1>6. Placed(d, o, a) => Placed(d, o, a)'
  BY <1>1, <1>2, <1>3, <1>4 DEF Placed
<1>7. \A n : Placed(d, n, 0) => Placed(d, n, 0)'
  BY <1>1, <1>2, <1>3, <1>4 DEF Placed
<1>8. Copied(o) => Copied(o)'
  BY <1>1, <1>2 DEF Copied
<1> QED
  BY <1>5, <1>6, <1>7, <1>8 DEF d, o, a

LEMMA DiskPlaced ==
  ASSUME NEW n \in Nat \ {0}, Placed(n - 1, 0, 0), asked' = asked, disks' = disks,
         attached' = Store!Put(attached, Store!Slot("SATA", n - 1), disks[n])
  PROVE  Placed(n, 0, 0)'
<1> DEFINE x == Store!Slot("SATA", n - 1)
<1>1. /\ DOMAIN attached' = DOMAIN attached \cup {x} /\ attached'[x] = disks[n]
      /\ \A y \in DOMAIN attached : y # x => attached'[y] = attached[y]
  BY DEF Store!Put
<1>2. x = SataAt(n) /\ 1..n = 1..(n - 1) \cup {n}
  BY DEF SataAt
<1>3. \A i \in 1..(n - 1) : SataAt(i) # x
  BY DEF SataAt, Store!Slot
<1>4. \A s : s \in DOMAIN attached <=> \E i \in 1..(n - 1) : s = SataAt(i)
  BY DEF Placed
<1>5. \A s : s \in DOMAIN attached' <=> \E i \in 1..n : s = SataAt(i)
  BY <1>1, <1>2, <1>4
<1>6. Store!Collide' <=> Store!Collide
  BY DEF Store!Collide, Store!Bases
<1>7. ~Store!Collide => \A i \in 1..n : attached'[SataAt(i)] = disks[i]
  <2>1. ~Store!Collide => \A i \in 1..(n - 1) : attached[SataAt(i)] = disks[i]
    BY DEF Placed
  <2> QED
    BY <1>1, <1>2, <1>3, <1>4, <2>1
<1> QED
  BY <1>5, <1>6, <1>7 DEF Placed, SataAt

LEMMA IsoPlaced ==
  ASSUME NEW n \in Nat, Placed(n, 0, 0), asked' = asked, disks' = disks,
         attached' = Store!Put(attached, Store!Slot("SATA", n), Opts[1].base)
  PROVE  Placed(n, 1, 0)'
<1> DEFINE x == Store!Slot("SATA", n)
<1>1. /\ DOMAIN attached' = DOMAIN attached \cup {x} /\ attached'[x] = Opts[1].base
      /\ \A y \in DOMAIN attached : y # x => attached'[y] = attached[y]
  BY DEF Store!Put
<1>2. x = SataAt(n + 1) /\ 1..(n + 1) = 1..n \cup {n + 1} /\ n + 0 = n
  BY DEF SataAt
<1>3. \A i \in 1..n : SataAt(i) # x
  BY DEF SataAt, Store!Slot
<1>4. \A s : s \in DOMAIN attached <=> \E i \in 1..n : s = SataAt(i)
  BY <1>2 DEF Placed
<1>5. \A s : s \in DOMAIN attached' <=> \E i \in 1..(n + 1) : s = SataAt(i)
  BY <1>1, <1>2, <1>4
<1>6. Store!Collide' <=> Store!Collide
  BY DEF Store!Collide, Store!Bases
<1>7. ~Store!Collide => \A i \in 1..n : attached'[SataAt(i)] = disks[i]
  <2>1. ~Store!Collide => \A i \in 1..n : attached[SataAt(i)] = disks[i]
    BY DEF Placed
  <2> QED
    BY <1>1, <1>3, <1>4, <2>1
<1>8. attached'[SataAt(n + 1)] = Opts[1].base
  BY <1>1, <1>2
<1> QED
  BY <1>5, <1>6, <1>7, <1>8 DEF Placed, SataAt, Opts

(* An attachment that does not collide leaves what is there.               *)
LEMMA MediumPlaced ==
  ASSUME Store!TypeOK, NEW d \in Nat, NEW o \in Nat, NEW n \in 1..Len(Atts),
         Placed(d, o, n - 1), asked' = asked, disks' = disks,
         attached' = Store!Put(attached, AttAt(n), Atts[n].medium)
  PROVE  Placed(d, o, n)'
<1> DEFINE x == AttAt(n)
<1>1. /\ DOMAIN attached' = DOMAIN attached \cup {x} /\ attached'[x] = Atts[n].medium
      /\ \A y \in DOMAIN attached : y # x => attached'[y] = attached[y]
  BY DEF Store!Put
<1>2. Len(Atts) \in Nat /\ DOMAIN Atts = 1..Len(Atts)
  BY AskedTyped
<1>3. 1..n = 1..(n - 1) \cup {n}
  BY <1>2
<1>4. \A s : s \in DOMAIN attached <=> \/ \E i \in 1..(d + o) : s = SataAt(i)
                                       \/ \E j \in 1..(n - 1) : s = AttAt(j)
  BY DEF Placed
<1>5. \A s : s \in DOMAIN attached' <=> \/ \E i \in 1..(d + o) : s = SataAt(i)
                                        \/ \E j \in 1..n : s = AttAt(j)
  <2> HIDE DEF x
  <2> QED
    BY <1>1, <1>3, <1>4 DEF x
<1>6. Store!Collide' <=> Store!Collide
  BY DEF Store!Collide, Store!Bases
<1>7. ASSUME ~Store!Collide
      PROVE  /\ \A i \in 1..(d + o) : SataAt(i) # x
             /\ \A j \in 1..(n - 1) : AttAt(j) # x
  <2>1. n \in DOMAIN Atts /\ \A j \in 1..(n - 1) : j \in DOMAIN Atts /\ j < n
    BY <1>2
  <2>2. Atts[n].ctl # "SATA"
    BY <1>7, <2>1 DEF Store!Collide, Atts
  <2>3. \A i : SataAt(i) # x
    BY <2>2 DEF SataAt, AttAt, Store!Slot
  <2>4. \A j \in 1..(n - 1) : AttAt(j) # x
    BY <1>7, <2>1 DEF Store!Collide, Atts, AttAt
  <2> QED
    BY <2>3, <2>4
<1>8. ASSUME ~Store!Collide
      PROVE  /\ \A i \in 1..d : attached'[SataAt(i)] = disks[i]
             /\ o = 1 => attached'[SataAt(d + 1)] = Opts[1].base
             /\ \A j \in 1..n : attached'[AttAt(j)] = Atts[j].medium
  <2>1. /\ \A i \in 1..d : attached[SataAt(i)] = disks[i]
        /\ o = 1 => attached[SataAt(d + 1)] = Opts[1].base
        /\ \A j \in 1..(n - 1) : attached[AttAt(j)] = Atts[j].medium
    BY <1>8 DEF Placed
  <2>2. (\A i \in 1..d : i \in 1..(d + o)) /\ (o = 1 => d + 1 \in 1..(d + o))
    OBVIOUS
  <2>3. /\ \A i \in 1..(d + o) : SataAt(i) \in DOMAIN attached /\ SataAt(i) # x
        /\ \A j \in 1..(n - 1) : AttAt(j) \in DOMAIN attached /\ AttAt(j) # x
    BY <1>4, <1>7, <1>8
  <2> HIDE DEF x
  <2> QED
    BY <1>1, <1>3, <2>1, <2>2, <2>3 DEF x
<1> QED
  BY <1>5, <1>6, <1>8 DEF Placed, SataAt, AttAt, Atts, Opts

LEMMA ControllerAdded ==
  ASSUME NEW n \in Nat \ {0}, Roomy(n - 1), Ctls[n].name \notin DOMAIN ports, asked' = asked, disks' = disks,
         ports' = Store!Put(ports, Ctls[n].name, Store!Room(Ctls[n]))
  PROVE  Roomy(n)'
<1> DEFINE c == Ctls[n].name
           r == Store!Room(Ctls[n])
<1>1. /\ DOMAIN ports' = DOMAIN ports \cup {c} /\ ports'[c] = r
      /\ \A y \in DOMAIN ports : ports'[y] = ports[y]
  BY DEF Store!Put
<1>2. 1..n = 1..(n - 1) \cup {n}
  OBVIOUS
<1>3. /\ \A y : y \in DOMAIN ports <=> y = "SATA" \/ \E i \in 1..(n - 1) : y = Ctls[i].name
      /\ ports["SATA"] = Len(disks) + 1
      /\ \A i \in 1..(n - 1) : ports[Ctls[i].name] = Store!Room(Ctls[i])
  BY DEF Roomy
<1>4. \A y : y \in DOMAIN ports' <=> y = "SATA" \/ \E i \in 1..n : y = Ctls[i].name
  BY <1>1, <1>2, <1>3
<1>5. ports'["SATA"] = Len(disks) + 1
  BY <1>1, <1>3
<1>6. \A i \in 1..n : ports'[Ctls[i].name] = Store!Room(Ctls[i])
  BY <1>1, <1>2, <1>3
<1> QED
  BY <1>4, <1>5, <1>6 DEF Roomy, Ctls

LEMMA SataAdded ==
  ASSUME Store!TypeOK, StoreSafe, Store!AddSata
  PROVE  StoreSafe'
<1>1. /\ pc = "sata" /\ ports = <<>> /\ attached = <<>> /\ disks \in Store!Sorted(folder)
      /\ Store!AddController("SATA", Len(disks) + 1, "disks", 1)
  BY DEF Store!AddSata, StoreSafe
<1>2. Len(disks) + 1 \in Nat \ {0} /\ 1 <= Len(disks) + 1
  BY <1>1, DisksInOrder
<1>3. \/ /\ ports' = Store!Put(ports, "SATA", Len(disks) + 1) /\ pc' = "disks" /\ next' = 1
         /\ UNCHANGED <<asked, folder, disks, attached>>
      \/ Errs /\ faults' # faults
  BY <1>1, <1>2, AddedController
<1>4. CASE Errs /\ faults' # faults
  BY <1>4, FailedSafe
<1>5. CASE /\ ports' = Store!Put(ports, "SATA", Len(disks) + 1) /\ pc' = "disks" /\ next' = 1
           /\ UNCHANGED <<asked, folder, disks, attached>>
  <2>1. DOMAIN ports' = {"SATA"} /\ ports'["SATA"] = Len(disks) + 1
    BY <1>1, <1>5 DEF Store!Put
  <2>2. Roomy(0)'
    BY <1>5, <2>1 DEF Roomy
  <2>3. Placed(0, 0, 0)'
    <3>1. DOMAIN attached' = {}
      BY <1>1, <1>5
    <3> QED
      BY <3>1 DEF Placed
  <2> QED
    BY <1>1, <1>2, <1>5, <2>2, <2>3 DEF StoreSafe
<1> QED
  BY <1>3, <1>4, <1>5

LEMMA DiskAttached ==
  ASSUME Store!TypeOK, StoreSafe, pc = "disks", next <= Len(disks),
         Store!Attach("SATA", next - 1, disks[next], "disks", next + 1)
  PROVE  StoreSafe'
<1>1. disks \in Store!Sorted(folder) /\ Roomy(0) /\ Placed(next - 1, 0, 0) /\ next \in Nat \ {0}
  BY DEF StoreSafe, Store!TypeOK
<1>2. Len(disks) \in Nat
  BY <1>1, DisksInOrder
<1>3. "SATA" \in DOMAIN ports /\ next - 1 \in 0..(ports["SATA"] - 1)
  BY <1>1, <1>2 DEF Roomy
<1>4. \/ /\ attached' = Store!Put(attached, Store!Slot("SATA", next - 1), disks[next])
         /\ pc' = "disks" /\ next' = next + 1
         /\ UNCHANGED <<asked, folder, disks, ports>>
      \/ Errs /\ faults' # faults
  BY <1>3, AttachedMedium
<1>5. CASE Errs /\ faults' # faults
  BY <1>5, FailedSafe
<1>6. CASE /\ attached' = Store!Put(attached, Store!Slot("SATA", next - 1), disks[next])
           /\ pc' = "disks" /\ next' = next + 1
           /\ UNCHANGED <<asked, folder, disks, ports>>
  <2>0. PICK k \in Nat \ {0} : k = next
    BY <1>1
  <2>1. Placed(k, 0, 0)'
    BY <1>1, <1>6, <2>0, DiskPlaced
  <2>2. (next - 1)' = k /\ (next <= Len(disks) + 1)'
    BY <1>1, <1>2, <1>6, <2>0
  <2>4. Placed(next - 1, 0, 0)'
    BY <2>1, <2>2 DEF Placed
  <2>3. Roomy(0)'
    BY <1>1, <1>6, RoomyFrame
  <2> QED
    BY <1>1, <1>6, <2>2, <2>3, <2>4 DEF StoreSafe
<1> QED
  BY <1>4, <1>5, <1>6

LEMMA IsoAttached ==
  ASSUME Store!TypeOK, StoreSafe, Store!AttachIso
  PROVE  StoreSafe'
<1>1. /\ pc = "iso" /\ next <= Len(Opts) /\ next <= 2 /\ next \in Nat \ {0}
      /\ disks \in Store!Sorted(folder)
      /\ Roomy(0) /\ Placed(Len(disks), next - 1, 0) /\ Copied(next)
      /\ Store!Attach("SATA", Len(disks) + next - 1, Opts[next].base, "copy", next + 1)
  BY DEF Store!AttachIso, StoreSafe, Store!TypeOK, Opts
<1>2. PICK k \in Nat : k = Len(disks)
  BY <1>1, DisksInOrder
<1>3. "SATA" \in DOMAIN ports /\ ports["SATA"] = k + 1
  BY <1>1, <1>2 DEF Roomy
<1>4. Len(Opts) \in Nat /\ asked.opticals = Opts
  BY AskedTyped DEF Opts
<1>5. /\ UNCHANGED <<asked, folder, disks, ports, isos>>
      /\ \/ /\ k + next - 1 \in 0..k
            /\ attached' = Store!Put(attached, Store!Slot("SATA", k + next - 1), Opts[next].base)
            /\ pc' = "copy" /\ next' = next + 1
         \/ Errs /\ (faults' = faults => k + next - 1 \notin 0..k)
  BY <1>1, <1>2, <1>3, AttachedMedium
<1>6. CASE Errs /\ (faults' = faults => k + next - 1 \notin 0..k)
  <2>1. next = 1 => k + next - 1 \in 0..k
    BY <1>2
  <2>2. next # 1 => Len(Opts) > 1
    BY <1>1, <1>4
  <2>3. faults' = faults => Store!Impossible
    BY <1>4, <1>6, <2>1, <2>2 DEF Store!Impossible
  <2> QED
    BY <1>6, <2>3, FailedSafe
<1>7. CASE /\ k + next - 1 \in 0..k
           /\ attached' = Store!Put(attached, Store!Slot("SATA", k + next - 1), Opts[next].base)
           /\ pc' = "copy" /\ next' = next + 1
  <2>1. next = 1 /\ k + next - 1 = k /\ next - 1 = 0
    BY <1>1, <1>2, <1>7
  <2>2. Placed(k, 0, 0)
    BY <1>1, <1>2, <2>1 DEF Placed
  <2>3. Placed(k, 1, 0)'
    BY <1>2, <1>5, <1>7, <2>1, <2>2, IsoPlaced
  <2>4. Roomy(0)' /\ Copied(1)'
    BY <1>1, <1>5, <2>1, RoomyFrame, CopiedFrame
  <2>5. next' = 2 /\ next' - 1 = 1 /\ Len(disks)' = k /\ Opts' = Opts
    BY <1>2, <1>5, <1>7, <2>1 DEF Opts
  <2>6. Placed(Len(disks), next - 1, 0)' /\ Copied(next - 1)' /\ (next <= Len(Opts) + 1 /\ next <= 2)'
    BY <1>1, <1>4, <2>1, <2>3, <2>4, <2>5 DEF Placed, Copied
  <2> QED
    BY <1>1, <1>5, <1>7, <2>4, <2>6 DEF StoreSafe
<1> QED
  BY <1>5, <1>6, <1>7

LEMMA ControllerStep ==
  ASSUME Store!TypeOK, StoreSafe, pc = "controllers", next <= Len(Ctls),
         Store!AddController(Ctls[next].name, Store!Room(Ctls[next]), "controllers", next + 1)
  PROVE  StoreSafe'
<1>1. /\ disks \in Store!Sorted(folder) /\ Len(Opts) <= 1 /\ Copied(Len(Opts))
      /\ Roomy(next - 1) /\ Placed(Len(disks), Len(Opts), 0) /\ next \in Nat \ {0}
  BY DEF StoreSafe, Store!TypeOK
<1>2. Len(Ctls) \in Nat /\ DOMAIN Ctls = 1..Len(Ctls) /\ asked.controllers = Ctls
  BY AskedTyped DEF Ctls
<1>3. PICK k \in Nat \ {0} : k = next
  BY <1>1
<1>4. Store!Room(Ctls[next]) \in Nat \ {0}
  <2>1. next \in 1..Len(Ctls)
    BY <1>1, <1>2
  <2>2. Ctls[next] \in [name : STRING, ports : Int]
    BY <2>1, AskedTyped, ElementOf
  <2> QED
    BY <2>2, RoomIsPositive
<1>5. /\ UNCHANGED <<asked, folder, disks, attached, isos>>
      /\ \/ /\ Ctls[k].name \notin DOMAIN ports
            /\ ports' = Store!Put(ports, Ctls[k].name, Store!Room(Ctls[k]))
            /\ pc' = "controllers" /\ next' = k + 1
         \/ Errs /\ (faults' = faults => Ctls[k].name \in DOMAIN ports)
  BY <1>3, <1>4, AddedController
<1>6. CASE Errs /\ (faults' = faults => Ctls[k].name \in DOMAIN ports)
  <2>1. ASSUME Ctls[k].name \in DOMAIN ports PROVE Store!Impossible
    <3>1. Ctls[k].name = "SATA" \/ \E i \in 1..(k - 1) : Ctls[k].name = Ctls[i].name
      BY <1>1, <1>3, <2>1 DEF Roomy
    <3>2. k \in DOMAIN Ctls /\ \A i \in 1..(k - 1) : i \in DOMAIN Ctls /\ i < k
      BY <1>2, <1>3
    <3> QED
      BY <1>2, <3>1, <3>2 DEF Store!Impossible
  <2> QED
    BY <1>6, <2>1, FailedSafe
<1>7. CASE /\ Ctls[k].name \notin DOMAIN ports
           /\ ports' = Store!Put(ports, Ctls[k].name, Store!Room(Ctls[k]))
           /\ pc' = "controllers" /\ next' = k + 1
  <2>1. Roomy(k)'
    BY <1>1, <1>3, <1>5, <1>7, ControllerAdded
  <2>2. next' - 1 = k /\ Opts' = Opts /\ Ctls' = Ctls /\ disks' = disks /\ folder' = folder
    BY <1>3, <1>5, <1>7 DEF Opts, Ctls
  <2>3. Roomy(next - 1)' /\ (next <= Len(Ctls) + 1)'
    BY <1>2, <1>3, <1>7, <2>1, <2>2 DEF Roomy
  <2>4. Placed(Len(disks), Len(Opts), 0)' /\ Copied(Len(Opts))'
    BY <1>1, <1>5, <2>2, StillPlaced
  <2> QED
    BY <1>1, <1>7, <2>2, <2>3, <2>4 DEF StoreSafe
<1> QED
  BY <1>5, <1>6, <1>7

LEMMA MediumStep ==
  ASSUME Store!TypeOK, StoreSafe, pc = "attachments", next <= Len(Atts),
         Store!Attach(Atts[next].ctl, Atts[next].port, Atts[next].medium, "attachments", next + 1)
  PROVE  StoreSafe'
<1>1. /\ disks \in Store!Sorted(folder) /\ Len(Opts) <= 1 /\ Copied(Len(Opts))
      /\ Roomy(Len(Ctls)) /\ Placed(Len(disks), Len(Opts), next - 1) /\ next \in Nat \ {0}
  BY DEF StoreSafe, Store!TypeOK
<1>2. /\ Len(Atts) \in Nat /\ DOMAIN Atts = 1..Len(Atts) /\ asked.attachments = Atts
      /\ DOMAIN Ctls = 1..Len(Ctls) /\ asked.controllers = Ctls /\ Len(Opts) \in Nat
  BY AskedTyped DEF Atts, Ctls
<1>3. PICK k \in 1..Len(Atts) : k = next
  BY <1>1, <1>2
<1>4. PICK d \in Nat, o \in Nat : d = Len(disks) /\ o = Len(Opts)
  BY <1>1, <1>2, DisksInOrder
<1> DEFINE c == Atts[k].ctl
           p == Atts[k].port
<1>5. /\ UNCHANGED <<asked, folder, disks, ports, isos>>
      /\ \/ /\ attached' = Store!Put(attached, AttAt(k), Atts[k].medium)
            /\ pc' = "attachments" /\ next' = k + 1
         \/ Errs /\ (faults' = faults => c \notin DOMAIN ports \/ p \notin 0..(ports[c] - 1))
  BY <1>3, AttachedMedium DEF AttAt
<1>6. CASE Errs /\ (faults' = faults => c \notin DOMAIN ports \/ p \notin 0..(ports[c] - 1))
  <2>1. ASSUME c \notin DOMAIN ports \/ p \notin 0..(ports[c] - 1) PROVE Store!Impossible
    <3> DEFINE rooms == {<<"SATA", Len(disks) + 1>>}
                          \cup {<<x.name, Store!Room(x)>> : x \in Store!Items(asked.controllers)}
    <3>1. AttAt(k) \in Store!Claimed
      BY <1>2 DEF Store!Claimed, Store!Items, AttAt
    <3>2. AttAt(k)[1] = c /\ AttAt(k)[2] = p
      BY DEF AttAt, Store!Slot
    <3>3. \A r \in rooms : r[1] \in DOMAIN ports /\ ports[r[1]] = r[2]
      BY <1>1, <1>2 DEF Roomy, Store!Items
    <3>4. \A r \in rooms : r[1] = AttAt(k)[1] => AttAt(k)[2] \notin 0..(r[2] - 1)
      <4> HIDE DEF rooms, c, p
      <4> QED
        BY <2>1, <3>2, <3>3
    <3> QED
      BY <3>1, <3>4 DEF Store!Impossible
  <2> QED
    BY <1>6, <2>1, FailedSafe
<1>7. CASE /\ attached' = Store!Put(attached, AttAt(k), Atts[k].medium)
           /\ pc' = "attachments" /\ next' = k + 1
  <2>1. Placed(d, o, k)'
    BY <1>1, <1>3, <1>4, <1>5, <1>7, MediumPlaced
  <2>2. next' - 1 = k /\ Opts' = Opts /\ Ctls' = Ctls /\ Atts' = Atts /\ disks' = disks /\ folder' = folder
    BY <1>3, <1>5, <1>7 DEF Opts, Ctls, Atts
  <2>3. Placed(Len(disks), Len(Opts), next - 1)' /\ (next <= Len(Atts) + 1)'
    BY <1>2, <1>3, <1>4, <1>7, <2>1, <2>2 DEF Placed
  <2>4. Roomy(Len(Ctls))' /\ Copied(Len(Opts))'
    BY <1>1, <1>5, <2>2, RoomyFrame, CopiedFrame DEF Roomy, Copied
  <2> QED
    BY <1>1, <1>7, <2>2, <2>3, <2>4 DEF StoreSafe
<1> QED
  BY <1>5, <1>6, <1>7

LEMMA StoreNextSafe ==
  ASSUME Store!TypeOK, StoreSafe, Store!Next
  PROVE  StoreSafe'
<1>1. CASE StoreStep
  <2>0. next \in Nat \ {0} /\ Len(Opts) \in Nat /\ Len(Ctls) \in Nat /\ Len(Atts) \in Nat
    BY AskedTyped DEF Store!TypeOK
  <2>1. CASE Errs /\ faults' = faults + 1
    <3>1. faults' # faults
      BY <2>1, ConstantsAssumption DEF Store!TypeOK
    <3> QED
      BY <2>1, <3>1, FailedSafe
  <2>2. CASE /\ pc = "gather" /\ disks' \in Store!Sorted(folder) /\ pc' = "sata"
             /\ UNCHANGED <<asked, folder, ports, attached, isos, next, faults>>
    BY <2>2 DEF StoreSafe
  <2>3. CASE /\ pc = "copy" /\ next <= Len(Opts) /\ pc' = "iso"
             /\ isos' = Store!Put(isos, Opts[next].base, Opts[next])
             /\ UNCHANGED <<asked, folder, disks, ports, attached, next, faults>>
    <3>1. Copied(next)'
      <4>1. Opts' = Opts /\ (next = 1 => isos' = Store!Put(isos, Opts[1].base, Opts[1]))
        BY <2>3 DEF Opts
      <4> QED
        BY <2>3, <4>1 DEF Copied, Store!Put
    <3>2. Roomy(0) /\ Placed(Len(disks), next - 1, 0) /\ next <= 2 /\ disks \in Store!Sorted(folder)
      BY <2>3 DEF StoreSafe
    <3>3. Roomy(0)' /\ Opts' = Opts
      BY <2>3, <3>2, RoomyFrame DEF Opts
    <3>4. Placed(Len(disks), next - 1, 0)'
      BY <2>3, <3>2 DEF Placed, Store!Collide, Store!Bases, SataAt, AttAt, Atts, Opts
    <3> QED
      BY <2>3, <3>1, <3>2, <3>3, <3>4 DEF StoreSafe
  <2>4. CASE /\ UNCHANGED <<asked, folder, disks, ports, attached, isos, faults>> /\ next' = 1
             /\ \/ pc = "disks" /\ pc' = "copy" /\ next > Len(disks)
                \/ pc = "copy" /\ pc' = "controllers" /\ next > Len(Opts)
                \/ pc = "controllers" /\ pc' = "attachments" /\ next > Len(Ctls)
                \/ pc = "attachments" /\ pc' = "done" /\ next > Len(Atts)
    <3>0. /\ disks \in Store!Sorted(folder) /\ Opts' = Opts /\ Ctls' = Ctls /\ Atts' = Atts
          /\ disks' = disks /\ folder' = folder
      BY <2>4 DEF StoreSafe, Opts, Ctls, Atts
    <3>00. Len(disks) \in Nat
      BY <3>0, DisksInOrder
    <3>1. CASE pc = "disks" /\ pc' = "copy" /\ next > Len(disks)
      <4>1. next - 1 = Len(disks) /\ Roomy(0) /\ Placed(Len(disks), 0, 0)
        <5>1. next <= Len(disks) + 1 /\ Roomy(0) /\ Placed(next - 1, 0, 0)
          BY <3>1 DEF StoreSafe
        <5>2. next - 1 = Len(disks)
          BY <2>0, <3>00, <3>1, <5>1
        <5> QED
          BY <5>1, <5>2
      <4>2. Roomy(0)' /\ Placed(Len(disks), 0, 0)' /\ (next - 1)' = 0
        BY <2>4, <4>1, RoomyFrame, StillPlaced
      <4>4. Placed(Len(disks), next - 1, 0)' /\ Copied(next - 1)'
        BY <4>2 DEF Placed, Copied
      <4>3. 1 <= Len(Opts) + 1
        BY <2>0
      <4> QED
        BY <2>4, <3>0, <3>1, <4>2, <4>3, <4>4 DEF StoreSafe
    <3>2. CASE pc = "copy" /\ pc' = "controllers" /\ next > Len(Opts)
      <4>0. /\ next <= Len(Opts) + 1 /\ next <= 2 /\ Roomy(0)
            /\ Placed(Len(disks), next - 1, 0) /\ Copied(next - 1)
        BY <3>2 DEF StoreSafe
      <4>1. next - 1 = Len(Opts) /\ Len(Opts) <= 1
        BY <2>0, <3>2, <4>0
      <4>2. Placed(Len(disks), Len(Opts), 0) /\ Copied(Len(Opts))
        BY <4>0, <4>1
      <4>4. Placed(Len(disks), Len(Opts), 0)' /\ Copied(Len(Opts))' /\ Roomy(0)' /\ (next - 1)' = 0
        BY <2>4, <4>0, <4>2, RoomyFrame, StillPlaced
      <4>5. Roomy(next - 1)'
        BY <4>4 DEF Roomy
      <4>3. 1 <= Len(Ctls) + 1
        BY <2>0
      <4> QED
        BY <2>4, <3>0, <3>2, <4>1, <4>3, <4>4, <4>5 DEF StoreSafe
    <3>3. CASE pc = "controllers" /\ pc' = "attachments" /\ next > Len(Ctls)
      <4>0. /\ next <= Len(Ctls) + 1 /\ Len(Opts) <= 1 /\ Roomy(next - 1)
            /\ Placed(Len(disks), Len(Opts), 0) /\ Copied(Len(Opts))
        BY <3>3 DEF StoreSafe
      <4>1. next - 1 = Len(Ctls)
        BY <2>0, <3>3, <4>0
      <4>2. Placed(Len(disks), Len(Opts), 0)' /\ Copied(Len(Opts))' /\ (next - 1)' = 0
        BY <2>4, <4>0, StillPlaced
      <4>4. Placed(Len(disks), Len(Opts), next - 1)'
        BY <4>2 DEF Placed
      <4>5. Roomy(Len(Ctls))'
        <5>1. Roomy(Len(Ctls))
          BY <4>0, <4>1
        <5> QED
          BY <2>4, <3>0, <5>1 DEF Roomy
      <4>3. 1 <= Len(Atts) + 1
        BY <2>0
      <4> QED
        BY <2>4, <3>0, <3>3, <4>0, <4>2, <4>3, <4>4, <4>5 DEF StoreSafe
    <3>4. CASE pc = "attachments" /\ pc' = "done" /\ next > Len(Atts)
      <4>0. /\ next <= Len(Atts) + 1 /\ Len(Opts) <= 1 /\ Copied(Len(Opts))
            /\ Placed(Len(disks), Len(Opts), next - 1)
        BY <3>4 DEF StoreSafe
      <4>1. next - 1 = Len(Atts)
        BY <2>0, <3>4, <4>0
      <4>2. Placed(Len(disks), Len(Opts), Len(Atts)) /\ Copied(Len(Opts))
        BY <4>0, <4>1
      <4>3. Placed(Len(disks), Len(Opts), Len(Atts))' /\ Copied(Len(Opts))'
        BY <2>4, <4>2, StillPlaced
      <4> QED
        BY <2>4, <3>0, <3>4, <4>0, <4>3 DEF StoreSafe
    <3> QED
      BY <2>4, <3>1, <3>2, <3>3, <3>4
  <2> QED
    BY <1>1, <2>1, <2>2, <2>3, <2>4 DEF StoreStep
<1> QED
  BY <1>1, StoreSteps, SataAdded, DiskAttached, IsoAttached, ControllerStep, MediumStep

LEMMA StoreStarts ==
  ASSUME Store!Init
  PROVE  Store!TypeOK /\ StoreSafe
<1>1. DOMAIN ports = {} /\ DOMAIN attached = {} /\ DOMAIN isos = {}
  BY DEF Store!Init
<1>2. Store!TypeOK
  BY <1>1, ConstantsAssumption DEF Store!Init, Store!TypeOK
<1>3. StoreSafe
  BY DEF Store!Init, StoreSafe
<1> QED
  BY <1>2, <1>3

-----------------------------------------------------------------------------
(* What a create that has come to its end has attached.                    *)
LEMMA DoneInPlace ==
  ASSUME Store!TypeOK, StoreSafe
  PROVE  Store!AllInPlace
<1> SUFFICES ASSUME pc = "done", ~Store!Collide, folder = asked.image
             PROVE  /\ Store!Items(attached) = Store!Media
                    /\ \A s, t \in DOMAIN attached : attached[s] = attached[t] => s = t
                    /\ attached[Store!Slot("SATA", 0)] = "configdrive" => asked.image = {"configdrive"}
                    /\ \A o \in Store!Items(asked.opticals) : isos[o.base] = o
  BY DEF Store!AllInPlace
<1> DEFINE d == Len(disks)
           o == Len(Opts)
           a == Len(Atts)
           iso == Opts[1].base
<1>1. /\ disks \in Store!Sorted(folder) /\ o <= 1 /\ Copied(o) /\ Placed(d, o, a)
  BY DEF StoreSafe
<1>2. /\ d \in Nat \ {0} /\ Store!Items(disks) = asked.image /\ DOMAIN disks = 1..d
      /\ \A i \in 1..d : disks[i] \in asked.image
      /\ \A i, j \in 1..d : i < j => disks[i] # disks[j] /\ disks[i] # "configdrive"
  BY <1>1, DisksInOrder
<1>3. /\ o \in {0, 1} /\ a \in Nat /\ DOMAIN Atts = 1..a /\ DOMAIN Opts = 1..o
      /\ asked.opticals = Opts /\ asked.attachments = Atts
  <2>1. o \in Nat /\ a \in Nat /\ DOMAIN Atts = 1..a /\ DOMAIN Opts = 1..o
    BY AskedTyped
  <2>2. o = 0 \/ o = 1
    BY <1>1, <2>1
  <2> QED
    BY <2>1, <2>2 DEF Opts, Atts
<1>4. o = 1 => /\ Store!Items(Opts) = {Opts[1]} /\ Store!Bases = {iso} /\ iso \notin asked.image
               /\ iso \notin Store!Items(Files)
  <2> SUFFICES ASSUME o = 1 PROVE /\ Store!Items(Opts) = {Opts[1]} /\ Store!Bases = {iso} /\ iso \notin asked.image
                                  /\ iso \notin Store!Items(Files)
    OBVIOUS
  <2>1. Store!Items(Opts) = {Opts[1]}
    <3>1. DOMAIN Opts = {1}
      BY <1>3
    <3> QED
      BY <3>1 DEF Store!Items
  <2>2. Store!Bases = {iso}
    BY <1>3, <2>1 DEF Store!Bases
  <2> QED
    BY <2>1, <2>2, AskedTyped
<1>5. o = 0 => Store!Items(Opts) = {} /\ Store!Bases = {}
  BY <1>3 DEF Store!Items, Store!Bases
(* The three kinds of slots.                                               *)
<1> DEFINE IsDisk(s, i) == s = SataAt(i) /\ attached[s] = disks[i]
           IsIso(s)     == o = 1 /\ s = SataAt(d + 1) /\ attached[s] = iso
           IsMedium(s, j) == s = AttAt(j) /\ attached[s] = Atts[j].medium
<1>6. /\ \A s \in DOMAIN attached : \/ \E i \in 1..d : IsDisk(s, i)
                                    \/ IsIso(s)
                                    \/ \E j \in 1..a : IsMedium(s, j)
      /\ \A i \in 1..d : SataAt(i) \in DOMAIN attached /\ IsDisk(SataAt(i), i)
      /\ o = 1 => SataAt(d + 1) \in DOMAIN attached /\ IsIso(SataAt(d + 1))
      /\ \A j \in 1..a : AttAt(j) \in DOMAIN attached /\ IsMedium(AttAt(j), j)
  <2>1. \A s : s \in DOMAIN attached <=> \/ \E i \in 1..(d + o) : s = SataAt(i)
                                         \/ \E j \in 1..a : s = AttAt(j)
    BY <1>1 DEF Placed
  <2>2. /\ \A i \in 1..d : attached[SataAt(i)] = disks[i]
        /\ o = 1 => attached[SataAt(d + 1)] = iso
        /\ \A j \in 1..a : attached[AttAt(j)] = Atts[j].medium
    BY <1>1 DEF Placed
  <2> HIDE DEF d, o, a, iso
  <2>3. \A i \in 1..(d + o) : i \in 1..d \/ (o = 1 /\ i = d + 1)
    BY <1>2, <1>3
  <2>4. (\A i \in 1..d : i \in 1..(d + o)) /\ (o = 1 => d + 1 \in 1..(d + o))
    BY <1>2, <1>3
  <2> QED
    BY <2>1, <2>2, <2>3, <2>4
<1>7. /\ \A j \in 1..a : Atts[j].medium \notin asked.image \cup Store!Bases
      /\ \A i, j \in 1..a : Atts[i].medium = Atts[j].medium => i = j
  <2>1. \A j \in 1..a : Atts[j].medium \notin asked.image \cup Store!Bases
    BY <1>3 DEF Store!Collide
  <2>2. \A i, j \in 1..a : i < j => Atts[i].medium # Atts[j].medium
    BY <1>3 DEF Store!Collide
  <2>3. \A i, j \in 1..a : i < j \/ j < i \/ i = j
    BY <1>3
  <2> QED
    BY <2>1, <2>2, <2>3
<1>8. \A i, j \in 1..d : disks[i] = disks[j] => i = j
  <2>1. \A i, j \in 1..d : i < j \/ j < i \/ i = j
    BY <1>2
  <2> QED
    BY <1>2, <2>1
<1> HIDE DEF d, o, a, iso
<1>9. ASSUME NEW s \in DOMAIN attached, NEW t \in DOMAIN attached, attached[s] = attached[t]
      PROVE  s = t
  <2>1. ASSUME NEW i \in 1..d, IsDisk(s, i) PROVE s = t
    <3>1. attached[t] \in asked.image
      BY <1>2, <1>9, <2>1
    <3>2. ~IsIso(t) /\ \A j \in 1..a : ~IsMedium(t, j)
      BY <1>4, <1>7, <3>1
    <3> QED
      BY <1>6, <1>8, <1>9, <2>1, <3>2
  <2>2. ASSUME IsIso(s) PROVE s = t
    <3>1. attached[t] \in Store!Bases /\ attached[t] \notin asked.image
      BY <1>4, <1>9, <2>2
    <3>2. (\A i \in 1..d : ~IsDisk(t, i)) /\ \A j \in 1..a : ~IsMedium(t, j)
      BY <1>2, <1>7, <3>1
    <3> QED
      BY <1>6, <2>2, <3>2
  <2>3. ASSUME NEW j \in 1..a, IsMedium(s, j) PROVE s = t
    <3>1. attached[t] \notin asked.image \cup Store!Bases
      BY <1>7, <1>9, <2>3
    <3>2. (\A i \in 1..d : ~IsDisk(t, i)) /\ ~IsIso(t)
      BY <1>2, <1>4, <3>1
    <3> QED
      BY <1>6, <1>7, <1>9, <2>3, <3>2
  <2> QED
    BY <1>6, <1>9, <2>1, <2>2, <2>3
<1>10. Store!Items(attached) = Store!Media
  <2>1. Store!Media = {disks[i] : i \in 1..d} \cup Store!Bases \cup {Atts[j].medium : j \in 1..a}
    <3>1. asked.image = {disks[i] : i \in 1..d}
      BY <1>2 DEF Store!Items
    <3>2. {x.medium : x \in Store!Items(asked.attachments)} = {Atts[j].medium : j \in 1..a}
      BY <1>3 DEF Store!Items
    <3> QED
      BY <3>1, <3>2 DEF Store!Media
  <2>2. Store!Bases = IF o = 1 THEN {iso} ELSE {}
    BY <1>3, <1>4, <1>5
  <2>3. \A s \in DOMAIN attached : attached[s] \in Store!Media
    BY <1>6, <2>1, <2>2
  <2>4. \A m \in Store!Media : \E s \in DOMAIN attached : attached[s] = m
    BY <1>6, <2>1, <2>2
  <2> QED
    BY <2>3, <2>4 DEF Store!Items
<1>11. ASSUME attached[Store!Slot("SATA", 0)] = "configdrive" PROVE asked.image = {"configdrive"}
  <2>1. 1 \in 1..d /\ Store!Slot("SATA", 0) = SataAt(1)
    BY <1>2 DEF SataAt
  <2>2. disks[1] = "configdrive"
    BY <1>6, <1>11, <2>1
  <2>3. \A i \in 1..d : i = 1
    BY <1>2, <2>1, <2>2
  <2>4. Store!Items(disks) = {"configdrive"}
    BY <1>2, <2>1, <2>2, <2>3 DEF Store!Items
  <2> QED
    BY <1>2, <2>4
<1>12. \A x \in Store!Items(asked.opticals) : isos[x.base] = x
  <2>1. o = 1 => isos[iso] = Opts[1]
    BY <1>1 DEF Copied, iso
  <2> QED
    BY <1>3, <1>4, <1>5, <2>1 DEF iso
<1> QED
  BY <1>9, <1>10, <1>11, <1>12

(* What becomes of the storage whichever part a behaviour is about.        *)
StoreKept == part = "storage" => Store!TypeOK /\ StoreSafe

LEMMA StoreKeptHolds == Spec => []StoreKept
<1>1. Init => StoreKept
  BY StoreStarts DEF Init, StoreKept
<1>2. StoreKept /\ [Next]_vars => StoreKept'
  <2> SUFFICES ASSUME StoreKept, [Next]_vars PROVE StoreKept'
    OBVIOUS
  <2>1. CASE IsStorage /\ Store!Next
    BY <2>1, StoreNextTyped, StoreNextSafe DEF StoreKept, IsStorage
  <2>2. CASE IsAdapters \/ IsSettings
    BY <2>2 DEF StoreKept, IsAdapters, IsSettings
  <2>3. CASE UNCHANGED vars
    <3>1. UNCHANGED <<part, asked, folder, disks, ports, attached, isos, next, pc, faults>>
      BY <2>3 DEF vars, storageVars
    <3>2. Store!TypeOK => Store!TypeOK'
      BY <3>1 DEF Store!TypeOK
    <3>3. StoreSafe => StoreSafe'
      BY <3>1 DEF StoreSafe, Placed, Roomy, Copied, Ctls, Opts, Atts, SataAt, AttAt,
                  Store!Collide, Store!Bases, Store!Impossible, Store!Claimed
    <3> QED
      BY <3>1, <3>2, <3>3 DEF StoreKept
  <2> QED
    BY <2>1, <2>2, <2>3 DEF Next
<1> QED
  BY <1>1, <1>2, PTL DEF Spec

(* A create from an image that succeeds has each disk, each ISO file and   *)
(* each configured medium in a slot of its own and nothing else, the first *)
(* disk to boot from; one that fails without a failing command was asked   *)
(* for something impossible (gatherDisks and the loops of resourceVMCreate *)
(* over disks, ISO files, controllers and attachments).                    *)
THEOREM MediaAreInPlace == Spec => []MediaInPlace
<1>1. StoreKept => MediaInPlace
  BY DoneInPlace DEF StoreKept, StoreSafe, MediaInPlace, Store!MediaInPlace
<1> QED
  BY <1>1, StoreKeptHolds, PTL
=============================================================================
