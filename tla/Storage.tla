------------------------------- MODULE Storage -------------------------------
(***************************************************************************)
(* The storage of a VM that is created from an image, from the cloned      *)
(* disks in its folder to the configured attachments, command by command.  *)
(* No other operation of the provider touches it. An error of any step     *)
(* ends the create. Disks, ISO files and media are named by strings.       *)
(***************************************************************************)
EXTENDS Integers, Sequences

CONSTANTS Asked,      \* configurations
          Files,      \* the disk files there may be, in the order of a walk
          AutoPorts,  \* ports of a controller without a port_count
          MaxFaults   \* bound on failing commands and system calls

VARIABLES asked,     \* the configuration
          folder,    \* the disk files in the folder of the machine
          disks,     \* those gatherDisks has found, in its order
          ports,     \* ports[c]: how many the controller c has
          attached,  \* the medium in each slot that has one
          isos,      \* isos[f]: what the file f in the folder is a copy of
          next,      \* the element of the list that the step is at
          pc,        \* the step
          faults

vars == <<asked, folder, disks, ports, attached, isos, next, pc, faults>>
machine == <<ports, attached, isos>>

Items(l) == {l[i] : i \in DOMAIN l}

(* What may be asked for: an image has a disk (gatherDisks of its directory *)
(* fails otherwise), an attachment names a controller, a port of it and a  *)
(* medium; the words that attach none are left out.                        *)
Requests == [image       : (SUBSET Items(Files)) \ {{}},
             opticals    : Seq([dir : STRING, base : STRING]),
             controllers : Seq([name : STRING, ports : Int]),
             attachments : Seq([ctl : STRING, port : Int, medium : STRING \ {"none", "emptydrive"}])]

(* A slot is a port of a controller; all attachments are to its device 0.  *)
Slot(ctl, port) == <<ctl, port>>
Put(f, x, v)    == [y \in DOMAIN f \cup {x} |-> IF y = x THEN v ELSE f[y]]

(* A step of the create that can be refused or fail, or else has an effect. *)
Do(can, effect, step, n) ==
  /\ \/ can /\ effect /\ pc' = step /\ next' = n /\ UNCHANGED faults
     \/ ~can /\ pc' = "failed" /\ UNCHANGED <<machine, next, faults>>
     \/ /\ faults < MaxFaults /\ faults' = faults + 1
        /\ pc' = "failed" /\ UNCHANGED <<machine, next>>
  /\ UNCHANGED <<asked, folder, disks>>

(* The loop of a step over a list has come to its end.                     *)
Through(list, step) == /\ next > Len(list) /\ pc' = step /\ next' = 1
                       /\ UNCHANGED <<asked, folder, disks, machine, faults>>

-----------------------------------------------------------------------------
(* "Less" holds of every file that is no configdrive and any other, so     *)
(* that the insertion sort of Go (of up to 12 elements) moves it past all  *)
(* that come before it in the walk.                                        *)
Later(f, g)   == \E i, j \in DOMAIN Files : i > j /\ Files[i] = f /\ Files[j] = g
Sooner(f, g)  == f # "configdrive" /\ (g = "configdrive" \/ Later(f, g))
Sorted(files) == {s \in UNION {[1..n -> files] : n \in 1..Len(Files)} :
                    /\ Items(s) = files
                    /\ \A i, j \in DOMAIN s : i < j => Sooner(s[i], s[j])}

(* Every disk file in the folder of the machine, the clones and others.    *)
GatherDisks ==
  /\ pc = "gather"
  /\ \/ disks' \in Sorted(folder) /\ pc' = "sata" /\ UNCHANGED faults
     \/ faults < MaxFaults /\ faults' = faults + 1 /\ pc' = "failed" /\ UNCHANGED disks
  /\ UNCHANGED <<asked, folder, machine, next>>

(* VirtualBox refuses a second controller of a name, and a port that the   *)
(* controller does not have; a slot that is taken gets the new medium.     *)
AddController(c, n, step, i) ==
  Do(c \notin DOMAIN ports, ports' = Put(ports, c, n) /\ UNCHANGED <<attached, isos>>, step, i)

Attach(ctl, port, medium, step, i) ==
  Do(ctl \in DOMAIN ports /\ (ctl \in DOMAIN ports => port \in 0..(ports[ctl] - 1)),
     attached' = Put(attached, Slot(ctl, port), medium) /\ UNCHANGED <<ports, isos>>, step, i)

-----------------------------------------------------------------------------
AddSata == pc = "sata" /\ AddController("SATA", Len(disks) + 1, "disks", 1)

AttachDisks ==
  /\ pc = "disks"
  /\ \/ Through(disks, "copy")
     \/ next <= Len(disks) /\ Attach("SATA", next - 1, disks[next], "disks", next + 1)

(* The ISO file is copied to the folder of the machine under its base name. *)
CopyIso ==
  /\ pc = "copy"
  /\ LET o == asked.opticals IN
       \/ Through(o, "controllers")
       \/ /\ next <= Len(o)
          /\ Do(TRUE, isos' = Put(isos, o[next].base, o[next]) /\ UNCHANGED <<ports, attached>>, "iso", next)

AttachIso_LastDisk ==                                                    \* mutant
  pc = "iso" /\ Attach("SATA", Len(disks) + next - 2, asked.opticals[next].base, "copy", next + 1)

AttachIso ==
  pc = "iso" /\ Attach("SATA", Len(disks) + next - 1, asked.opticals[next].base, "copy", next + 1)

Room(c) == IF c.ports > 0 THEN c.ports ELSE AutoPorts

AddControllers ==
  /\ pc = "controllers"
  /\ LET cs == asked.controllers IN
       \/ Through(cs, "attachments")
       \/ next <= Len(cs) /\ AddController(cs[next].name, Room(cs[next]), "controllers", next + 1)

AttachMedia ==
  /\ pc = "attachments"
  /\ LET as == asked.attachments IN
       \/ Through(as, "done")
       \/ next <= Len(as) /\ Attach(as[next].ctl, as[next].port, as[next].medium, "attachments", next + 1)

(* Other files in the folder are what an earlier machine of the name left. *)
Init == /\ asked \in Asked
        /\ folder \in {asked.image, asked.image \cup {"old"}}
        /\ disks = <<>> /\ ports = <<>> /\ attached = <<>> /\ isos = <<>>
        /\ next = 1 /\ pc = "gather" /\ faults = 0

Next == GatherDisks \/ AddSata \/ AttachDisks \/ CopyIso \/ AttachIso \/ AddControllers \/ AttachMedia

Spec == Init /\ [][Next]_vars

TypeOK ==
  /\ asked \in Asked /\ folder \in {asked.image, asked.image \cup {"old"}}
  /\ disks = <<>> \/ disks \in Sorted(folder)
  /\ \A c \in DOMAIN ports : ports[c] \in Nat \ {0}
  /\ \A s \in DOMAIN attached : s[1] \in DOMAIN ports /\ s[2] \in 0..(ports[s[1]] - 1)
  /\ \A f \in DOMAIN isos : isos[f] \in Items(asked.opticals)
  /\ next \in Nat \ {0} /\ faults \in 0..MaxFaults
  /\ pc \in {"gather", "sata", "disks", "copy", "iso", "controllers", "attachments", "done", "failed"}

-----------------------------------------------------------------------------
(* Properties                                                              *)

Bases   == {o.base : o \in Items(asked.opticals)}
Claimed == {Slot(a.ctl, a.port) : a \in Items(asked.attachments)}
Media   == asked.image \cup Bases \cup {a.medium : a \in Items(asked.attachments)}

(* Configured attachments that take a slot of the disks or of the ISO, or  *)
(* one another's, or that attach a medium a second time.                   *)
Collide == LET as == asked.attachments IN
  \/ \E i \in DOMAIN as : as[i].ctl = "SATA" \/ as[i].medium \in asked.image \cup Bases
  \/ \E i, j \in DOMAIN as :
       i < j /\ (Slot(as[i].ctl, as[i].port) = Slot(as[j].ctl, as[j].port) \/ as[i].medium = as[j].medium)

(* A create that succeeds leaves the machine with each disk of the image,  *)
(* each ISO file and each configured medium in a slot of its own and with  *)
(* nothing else, the first slot with a disk to boot from; unless           *)
(* attachments collide or the folder held other disks.                     *)
AllInPlace ==
  pc = "done" /\ ~Collide /\ folder = asked.image =>
    /\ Items(attached) = Media
    /\ \A s, t \in DOMAIN attached : attached[s] = attached[t] => s = t
    /\ attached[Slot("SATA", 0)] = "configdrive" => asked.image = {"configdrive"}
    /\ \A o \in Items(asked.opticals) : isos[o.base] = o

(* A create without a failing command fails only for what is asked for:    *)
(* the SATA controller has a single port for ISO files, a name can be given *)
(* once, and an attachment needs a port that is there.                     *)
Impossible ==
  LET cs    == asked.controllers
      rooms == {<<"SATA", Len(disks) + 1>>} \cup {<<c.name, Room(c)>> : c \in Items(cs)}
  IN \/ Len(asked.opticals) > 1
     \/ \E i \in DOMAIN cs : cs[i].name = "SATA" \/ \E j \in DOMAIN cs : i < j /\ cs[i].name = cs[j].name
     \/ \E s \in Claimed : \A r \in rooms : r[1] = s[1] => s[2] \notin 0..(r[2] - 1)

MediaInPlace == AllInPlace /\ (pc = "failed" /\ faults = 0 => Impossible)
=============================================================================
