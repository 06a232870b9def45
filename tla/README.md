# A TLA+ model of the VirtualBox provider

These modules model the Terraform provider in this repository (`internal/provider`): what its
handlers do to VirtualBox and to Terraform's record of it, when VBoxManage commands fail, when
guests and other users of the host act in between, when several resources are handled at the same
time, and when the provider is killed. TLC checks the models on small instances; TLAPS proves all
invariants of the passing runs, all their action properties and the refinement of the destroy, for
every value of the constants (see "Proofs"). Liveness is left to TLC.

File names without a directory are those of `src/internal/provider/`; "crud" is
`resource_vm_crud.go`.

## The system

Terraform calls the provider's handlers over gRPC: per resource *refresh* (Exists, Read), then a
*plan* (made by Terraform's core by comparing the record with the configuration), then Create,
Update or Delete. Handlers of different resources run in concurrent goroutines of one process. All
work is done by running the external program VBoxManage (`vboxRun`), which talks to the daemon
VBoxSVC. So there are two states that must agree and that nothing updates together: Terraform's
record, which a handler changes as a whole when it returns, and VirtualBox's, which each command
changes and which guests and other users change too. There are no transactions and no roll-back.

| component | state | operations | interacts through | hard behaviour |
|---|---|---|---|---|
| VM delete (crud 783-962) | loop counters; the VM; its folder | Delete, hardPoweroff, cleanupVMFolder | VBoxManage, file system | timeouts, transient errors, a VM that changes or vanishes meanwhile |
| VM lifecycle (crud 23-744) | record; machine under the name | Exists, Read, Create (3 branches), Update | VBoxManage; record | failures half way, planned values recorded, id set last |
| VM settings (`resource_vm_customize.go`, `..._shared_folders.go`, `..._network.go`, `..._cloud_init.go`) | about 60 attributes | ~15 commands per apply | VBoxManage | conditions that skip a command; values that go back to a default |
| Storage (crud 281-407, `gatherDisks`) | disks of the folder; controllers; attachments | the last part of a create from an image | VBoxManage, file system | ports counted from what is found |
| OVA import (crud 38-55, 746-781) | `importOpMutex`; machine under the name | import with 3 attempts | lock; VBoxSVC | contention, leftovers, kills |
| Gold images (crud 201-279, `image.go`, `fetchIfRemote`) | `imageOpMutex`; archives; gold directories; disks | download, unpack, clone | lock; files that outlive the process | shared files, partial work, kills |
| Boot order (`defaultBootOrder`) | one package slice | tfToVbox, modifyVM | shared memory | data race, aliasing |
| NAT network | record; network with rules | Create, Read, Update, Delete | VBoxManage | delete-all-then-add, output that is parsed wrongly |
| Host-only network | record; interface; DHCP server | Create, Read, Update, Delete | VBoxManage, which picks the name | two objects, id set last |
| Disk | record; medium at a path | Create, Read, Update, Delete, import | VBoxManage | errors read as absence |
| Network adapters (`resource_vm_network.go`, `vbox_ops.go` 140-177, 251-269) | list of adapters; slots of the machine | netTfToVbox, modifyVM, applyNICSettings, netVboxToTf | VBoxManage; guest properties | a list against slots, settings that are written and never read, incomplete reads |
| Readiness polling (`resource_vm_helpers.go` 76-184) | none | reads until an address appears | record | what a poll read may be recorded |
| Snapshot | records; the VM's list of snapshots | Create, Read, Update, Delete | VBoxManage | found by name, deleted by UUID |
| VM export | records; files of a directory | Create, Read, Delete | VBoxManage, file system | a glob that meets other exports' files |
| Lists of interfaces (data sources, `internal/vboxmanage/list.go`, host-only network) | none | four parsers of one format | VBoxManage | what ends a block |
| `cmd/vagrant2terraform` | none | Vagrantfile to HCL | its output is a configuration | regular expressions |
| Provider wiring, the rest of `internal/vboxmanage` | none | registration, one command per function | | |

What makes each of them correct:

* delete: never unregister a live VM; report success only for a VM that is gone; end; leave no
  folder behind and remove none that holds a machine config;
* lifecycle: an empty plan means that the machine is as configured; a machine of the provider's is
  in the record unless something failed; other users' machines are left alone; applying again
  converges;
* settings: a successful apply leaves the settings asked for, whatever was there before;
* storage: each disk, ISO file and medium in a slot of its own, and no failure of its own for a
  request that can be met;
* import and images: concurrent creates do not harm each other, failures stay with the create that
  met them, a kill leaves nothing that blocks or corrupts a later run;
* networks, disks, snapshots, exports: as for the lifecycle, for their objects; nobody else's are
  touched, and an export keeps all its files;
* adapters: an empty plan means that the machine has those configured, and ports are forwarded
  after an apply without an error;
* lists: the parsers find the same interfaces in the same text.

`PROJECT.json` lists the hazards line by line with the properties that cover them.

## Modules

Every `MC*` module only gives values to the constants of the module it extends, and
every `.cfg` of the same name is one run. Every `*Proofs` module (and `SmallResourcesTypes`) extends
the module it proves about, never the MC module, so that what is proved holds for every instance. Operators marked *mutant* are plausible bugs of the code
that stand beside the definition they replace; the specifications never use them.

### VMDestroy, VMDelete, VMDeleteProofs

`VMDestroy` is what a destroy promises: a machine leaves the registry only from rest, nothing is
said before the end, and "ok" is said only of a machine that is gone. `VMDelete` is the code: one
action per command or file-system access, named by `pc`.

| action | code |
|---|---|
| `Query` | first `getMachine` and the switch on its state, crud 789-818 |
| `PressAcpi`, `Poll` | `acpipowerbutton` and the 60 polls, crud 820-852 |
| `HardPoweroff`, `HardPoll`, `HardVerify` | `hardPoweroff`, crud 926-962 |
| `FinalCheck`, `Unregister` | crud 855-868 |
| `ScanFolder`, `RemoveFolder` | `cleanupVMFolder`, crud 886-922 |
| `Retry` | the user runs destroy again |
| `GuestStops`, `Settle`, `LateDeletion`, `Meddle`, `ReuseFolder` | guest, VBoxSVC, other users |

`ParseState` is the state switch of `parseMachineInfo`: unlisted states read as running and
"terminating" as aborted. `getMachine` may fail at every call (`Fault`), and a missing VM is told
from a failure only if VirtualBox names its error on stdout (`Diagnostic`). `ImplementsDestroy` is
the refinement of `VMDestroy`, with the verdict read off `pc`.

### VMLifecycle, VMLifecycleProofs

One `virtualbox_vm` over repeated applies. `tf` is the record (a set with at most one entry), `host`
the machine registered under the resource's name, which may be another user's. The settings are three
generations: `base`, which `modifyVM` sets and `resourceVMRead` reads back (cpus, memory, adapters);
`flags`, which `modifyVM` sets and nothing reads back (os_type, vram, ioapic, pae, largepages,
vtx_vpid); and `extras`, set by later commands and never read back. `Refused` are the configurations
that `tfToVbox` cannot convert; it comes after the machine has been registered, so that a create fails
there, without a failing command, and leaves a machine (`Configure`, `Converts`). `Delete` is one step
here, whose failure may have done nothing, powered the VM off or unregistered it; its commands are in
`VMDelete`. `failed`, `wrong` and `seen` are auxiliary: the last create or update ended with an error,
a configuration was refused, and the events before the last refresh or successful command, which is
what an answer can know of. `Command` is the shape of one group of commands: done, refused because of the machine's
power state, or failed. `Failed` is what Terraform's SDK records of an operation that returns an
error: nothing for a create without an id, the planned values for an update (`d.Partial` is never
set, crud 607). A machine whose create failed after SetId is tainted and replaced (`Replace`).

### VMSettings

`Steps(op)` is the sequence of settings commands of each create branch and of the update, `Passed`
the condition under which a value reaches VBoxManage, `After` the effect. Only settings that can
influence each other are away from their defaults together (`Sparse`); settings of different steps
are independent. Assumed of VirtualBox: a new machine has the schema's defaults, and
`--natpf<N> delete all` does what the comment at `resource_vm_network.go:201` says.

### Adapters, Vagrantfile, Storage, VMParts, MCVMSettings, VMSettingsProofs, AdapterProofs

`Adapters` follows the network adapters of one VM from the create through repeated applies. `want`
is the configured list, `tf` the recorded one, `host` the slots of the machine; a slot without an
adapter has the type "none".

| definition | code |
|---|---|
| `Convert` (`Network`, `Convertible`) | `netTfToVbox`; the lost error of an unknown type included |
| `Modify` (`Modified`) | the adapter arguments of `modifyVM` |
| `NicSetting`, `AddRule`, `NextNic` (`Passed`, `After`) | `applyNICSettings`, one command at a time |
| `Attached`, `Type`, `Name`, `Reported` | `parseMachineInfo`, `netVboxToTf` |
| `Refresh`, `FinalRead` | `resourceVMRead`; `kept` marks a record that an apply wrote and whose read returned without setting the adapters, because a running guest reports only part of them |
| `SameAdapters` | the plan, with the `DiffSuppressFunc` of `device` |

`CleanPlanMeansAdapters` says of an empty plan that the adapters are there in their order, that there
are no others, and that they are in their slots. What the code does not keep is excepted by name, in
auxiliary variables: `stale`, an apply has failed or another user has changed the machine since it was
last read or written as a whole, and incomplete reads hide it; `kept`, adapters behind those
configured are hidden by a record that an apply wrote; `gap`, an adapter came behind an empty slot, of
an imported machine or when somebody detached one, and the list does not show slots. Each is
necessary: without it TLC finds a violation.

`Stuck` names the configurations that never come to an empty plan: settings that the read resets
(`Unreadable`), adapters that cannot be written (`Refused`), more adapters on the machine than
configured, and a create that failed. `net` stands for `host_interface` and `nat_network`, of which
the code uses one per type; `dns` for the two NAT DNS options.

`Vagrantfile` is what vagrant2terraform writes for the networks of a Vagrantfile.

`Storage` is the create from an image from `gatherDisks` to the last `disk_attachment`, one action
per command or file copy. `Do` is the shape of a step: done, refused by VirtualBox, or failed, and
then the create ends. `Requests` are the types of what may be asked for. `Sorted` is what
`ByDiskPriority` makes of the files of a walk (`Files` gives its order): its comparison is no order,
and the insertion sort of Go's library, used for up to 12 elements, turns the files around and
brings those with "configdrive" to the end. It is stated as an outcome, not as a loop, so that it can be
proved about. `MediaInPlace` says what a success leaves (except for attachments that take a used
slot or attach a medium twice, `Collide`, and for disks found in the folder), and that without
a failing command only an `Impossible` request fails: a port that is not there, a controller name
given twice, and, although the documentation allows them, a second ISO file and a controller called
SATA (see `findings`). Assumed of VirtualBox: a second controller of a name and a port beyond a
controller's count are refused, and a slot that is taken gets the new medium.

`VMParts` composes `VMSettings`, `Adapters` and `Storage`, one of them per behaviour, for they
write different parts of the machine. Its `ConstantsAssumption` says that a new machine has its
adapters, in any slots, under the raw names of their devices; that the names of disk files are distinct and no ISO file has one; and that a request has the types of the
schema (`Requests`). `WordsAreStrings` says that the words the models are written with are strings:
true of every instance, checked by TLC, and needed because the provers do not know it.
`MCVMSettings` gives the values and lets `Adapters` start from hand-written configurations and from
converted Vagrantfiles.

### OVAImport, OVAImportProofs, GoldImages, GoldImagesProofs, BootOrder

Concurrent creates as processes with `pc[v]`. A mutex is the set of its holders. `Kill` ends all
goroutines at once and releases the mutexes, but not files and machines, and the next run starts
over. A tar that the provider has started may outlive it: the gold directory is then "unpacking" until
`TarEnds`, creates of the next run meet it (a directory that is not empty counts as unpacked), and
they fail or clone what is there (`Refused`, `Cloned`). `halfway` are the creates that met a directory
which was neither empty nor whole. A tar that outlives the provider is taken to have written its first
file by the time Terraform runs again; one that has not is not told from one that never starts to. `GoldImages` has a file per base name and a gold directory per `image` string (the code hashes
the string; the model takes the hash to be injective). `BootOrder` splits the assignment of a Go string into its two
words, which is what an unsynchronised reader can see; its property is about whole orders, so that
the run shows the aliasing itself and not a torn string.

### NatNetwork, HostonlyNetwork, Disk, Snapshot, Export, Listing, SmallResources, MCSmallResources, SmallResourcesTypes, SmallResourcesProofs

The handlers of the smaller resources, one action per command or system call, over repeated applies
as in VMLifecycle. `NatNetwork!Found` is the recognition of rules in the list: lines are trimmed
before the indentation of a tcp rule is looked for, so only udp rules are found. `HostonlyNetwork`
creates interfaces under names that VirtualBox picks. Its range is 0 where a bound is missing: such a
configuration is legal, and a create is refused only when the interface is there (`Rangeless`); what
these creates leave is counted in `refused`. The range of a DHCP server is set and never read, and an
IPv6 address is read only where there is one, so an empty plan says less of them
(`CleanPlanMeansConfigured`), and a range left wrong under an empty plan, an IPv6 address that is
neither removed nor missed, and a configuration without a range are the dead ends of `Stuck`. `stale`,
in both networks, says that another user has acted since the last refresh. `Disk` names its medium by the path, which
another user's file may hold; any error of the read drops the record, and the file that stays is in
the way of the next create. `Stuck` of `Disk` names the three steps that cannot succeed: a create
with a file in the way, a resize of a medium that is in use or larger, a delete of one in use.

`Snapshot` and `Export` have several resources that Terraform handles at the same time. A run of
Terraform reads them all (`Start`, `Refresh`), plans (`Plan`), and then applies the plans in any
interleaving. In `Snapshot`, `host` is the VM's snapshots, told apart by their UUIDs, which grow
with their age; `Named` is the search by name with which `Find` and `Edit` pick their snapshot, and `contested` records
that somebody has had a snapshot with the name of a resource: without that, what Terraform edits and
deletes is its own (`OnlyOwnTouched`). In `Export`, `Glob` and `Sweep` are the two halves of the
delete's clean-up, between which other exports may write files; `Exposed` are the exports whose base
name begins with another's, whose files that clean-up takes.

`Listing` is about the four parsers of interface lists. A step prints a line and is a round of the
loop of each parser, whose state is a record of the blocks that have ended and the current one:
`blocks` (`ReadBlock`, `parseVBoxBlocks`), `shown` (`ReadShown`, `parseInterfaceBlocks`), `listed`
(`ReadListed`, `internal/vboxmanage`) and `split` (`ReadSplit`, the resource). What each returns if the
text ends here is `HostOnlyBlocks`, `InterfaceBlocks`, `ListedIFs` and `Interface`. The parsers read
a finished text; reading along gives the same, for none looks ahead.

`SmallResources` composes the six by `INSTANCE`, one of them per behaviour: they share no state.
`MCSmallResources` gives the values.

## Runs

| run | instance | shows |
|---|---|---|
| VMDeleteHostile | 2 polls, 3 faults, unreadable folders, other users, errors on stderr | destroy ends, success is real, refinement of VMDestroy |
| VMDeleteFaulty | 3 polls, 3 faults, retries, slow transitions | no live unregister, no leftovers, folders with configs kept, a repeated destroy succeeds |
| VMLifecycle | image and OVA, 3 generations of settings, one of them refused by `tfToVbox`, 1 edit, 2 events, 2 faults | empty plans and successes mean what they say, orphans only from failures and refusals, convergence |
| VMSettings (`MCVMSettings`) | all branches; 16 adapter lists, 4 machines of 3 slots, one with adapters in slots 1 and 3; 252 storage configurations of up to 3 disks, 2 ISO files, 2 controllers; 1 edit, 1 event, 1 fault | what a successful apply leaves on the machine; disks and media in place; empty plans of adapters, forwarded ports, convergence |
| MCOVAImport | 2 imports, 3 attempts, 3 faults or kills | serialised, ends, fails only after as many failures as attempts |
| MCGoldImages | 3 VMs, 2 images, 2 faults, 2 kills | own image unless the create met a directory that was not whole, complete gold is final, failures stay with their create |
| MCSmallResources | 2 udp rules; 4 interface names, DHCP ranges 1, 2 and none, with and without IPv6; a disk of 2 sizes and 2 forms; 2 snapshots; 2 exports, one base name beginning with the other; lists of 6 lines; 1 edit, 1 event, 2 faults (snapshots: 1) | empty plans, losses and leaks, whose snapshots are touched, whole exports, agreeing parsers, convergence |

Five runs end in a violation, each a disagreement between the code and what the repository says of
it (quoted in `findings`): `MCOVAImportStranger` (a retry removes another user's machine),
`MCBootOrder` (a VM without a boot_order gets another VM's), `VMLifecycleBootOrder` (a short boot_order never
comes to an empty plan), `MCGoldImagesBaseName` (images with one base name are mixed up), and
`MCNatNetwork` (tcp rules are not read back; a udp rule is lost for good).

### Bounds, and why they are enough

* Loop lengths (60, 10 and about 3 rounds in the code) are constants; two or three rounds are the
  first, a middle and the last one, and the proofs are for every length.
* `MaxFaults` bounds failing commands, `MaxEvents` what other users or the guest do, `MaxEdits`
  changes of the configuration, `MaxKills` kills. Two faults let a failure meet the repair of an
  earlier one; three in the import are as many as it has attempts.
* Two concurrent creates show every conflict over one lock or file; a third one in MCGoldImages is
  a bystander with its own image.
* Four interface names are one more than an edit, an event and two faults can leave behind together
  with the interface in use; the creates that are refused for want of a range use them all up.
* Two kills let a create of the second run meet the tar of the first, and be killed over it.
* Three disks (with and without a configdrive), two ISO files and two controllers are one more each than
  the port arithmetic distinguishes; the attachments are one per way of meeting a slot or a medium,
  a negative port among them.
* Three slots and lists of up to four adapters are a list that is shorter, as long and longer than
  the machine, and an adapter behind an empty slot. The configurations are chosen one per behaviour of the code (each type, a device by
  name and by raw value, rules, settings that are not read back, a missing network), not all
  combinations: the adapters of a list are independent but for their position.
* Six lines are two interfaces with a value each, a blank line between them and one beside them.
* Snapshots have one fault: with two resources in all interleavings a second one multiplies the
  states and meets no new step, for a failed step ends its resource's part of the run.

`CHECK_DEADLOCK FALSE` stands wherever the system may stop: an operation that has returned.

### Fairness

A handler's goroutine goes on and a VBoxManage command returns (weak fairness of the handlers'
actions); Go's `sync.Mutex` does not starve a waiter (strong fairness of taking it); a hypervisor
transition ends (`Settle`). The convergence properties also assume what they are about: that the
user applies again and, for the update, that a guest reacts to ACPI within the 90 s (`Prompt`).
The destroy assumes nothing of the guest. Nothing makes a guest, another user or a fault happen.

## Proofs

Every theorem holds for all values of the constants that the named assumption of the model's module
(`ConstantsAssumption`) allows, which are the types of the constants and what the code takes for
granted of them: any number of polls, attempts, VMs, images, snapshots, exports, slots, rules,
failing commands, kills and deeds of other users. Hypotheses beyond it stand in the theorem and in
the table.

| module | theorem | property | hypotheses |
|---|---|---|---|
| VMDeleteProofs | `TypeCorrect` | `TypeOK` | |
| | `SuccessIsReal` | `SuccessMeansGone` | |
| | `NoLiveUnregister`, `NoWastedPolls` | `OffBeforeUnregister`, `IdleGuestsAreNotPolled` | |
| | `CleanupKeepsConfigs` | `FolderWithConfigKept` | `~ReadDirFails`, `~Interference` |
| | `GoneSucceeds` | `GoneIsSuccess` | `Diagnostic = "stdout"` |
| | `NothingIsLeft` | `NoLeftovers` | |
| | `DeleteImplementsDestroy` | `ImplementsDestroy` | |
| | `DestroyIsBounded` | (the safety half of `Terminates`) | |
| VMLifecycleProofs | `TypeCorrect` | `TypeOK` | |
| | `CleanPlansAreTrue`, `SuccessHasTheStatus` | `CleanPlanMeansConfigured`, `SuccessMeansStatus` | |
| | `OthersMachinesStay` | `OthersMachineUntouched` | |
| | `OrphansAreFailures` | `OrphansComeFromFailures` | |
| VMSettingsProofs | `SuccessConfigures`, `FreshVMs` | `SuccessMeansConfigured`, `FreshVMIsExact` | |
| | `MediaAreInPlace` | `MediaInPlace` | |
| AdapterProofs | `CleanPlansAreTrue` | `CleanPlanMeansAdapters` | |
| | `PortsAreForwarded` | `PortsForwarded` | |
| | `TypeCorrect` | `TypeOK` of `VMParts` | |
| OVAImportProofs | `TypeCorrect`, `Serialised` | `TypeOK`, `OneAtATime` | |
| | `ImportsStay` | `DoneMeansImported` | `NamesAreOwn` |
| | `FailuresCount` | `FailuresAreCounted` | `NamesAreOwn`, `Strangers = {}` |
| | `ImportsAreBounded` | (the safety half of `AllEnd`) | |
| GoldImagesProofs | `TypeCorrect`, `CompleteGoldStays` | `TypeOK`, `CompleteGoldIsFinal` | |
| | `DisksAreOwn` | `OwnImageUnlessCutShort` | `OwnFiles` |
| | `FailuresCount` | `FailuresAreOwn` | `OwnFiles`, `IsFiniteSet(VMs)` |
| SmallResourcesTypes | `TypeCorrect` | `TypeOK` | |
| SmallResourcesProofs | `CleanPlansAreTrue` | `CleanPlanMeansConfigured` | |
| | `LossesAreFailures` | `LossesComeFromFailures` | |
| | `ExportsStayWhole` | `ExportsAreWhole` | |
| | `OthersSnapshotsStay` | `OnlyOwnTouched` | |
| | `ParsersFindTheSame` | `ParsersAgree` | |

The hypotheses are the cases in which the property is known to fail, and the runs and findings show
that: two VMs of one name or another user's machine under it (`NamesAreOwn`, `Strangers`), images
that share a file (`OwnFiles`), folders that cannot be read or are used by others, diagnostics on
stderr.

### The inductive invariants

None of the properties is inductive alone. What has to be known besides, and why:

* **VMDelete** (`IInv`): that a success means a machine that is gone must hold from the
  unregistration on, through the clean-up (`DoneMeansGone`); `AnswerIsTrue` is what an answer of
  `getMachine` says of the machine, with the exception of "terminating". `GoneIsCalm`: without
  failures and interference a machine that is gone meets only the control points that end well.
  `LeftoversInHand`: without failures a folder without its machine exists only while the clean-up
  is on its way to it. For the refinement each action is a step of `VMDestroy` or a stutter.
  `StepsLeft` counts the commands that are still to come; every command uses up one (`DeleteAdvances`)
  and nobody else adds any, so that a destroy that goes on ends after at most
  `AcpiPolls + HardPolls + CleanupScans + 7` of them.
* **VMLifecycle** (`PlanInv`): `ReadBack`, while the plan is pending, the record has what is read back
  of the machine, and its power state if nobody has acted since; `Trusted`, of what is not read back
  it is right from the end of one apply to modifyVM of the next, unless one has failed; `Progress` and
  `PowerKnown`, how far an apply has come with the settings and the power state. `Recorded`, a machine without a record is one that an undisturbed create is
  still working on, in states that depend on how far it is.
* **VMSettings**: `Applied`, as long as no command has failed, every step behind the current one has
  left its settings on the machine, and the steps ahead do not touch them again (the one that sets
  each setting is `Setter`); `OnlyAsked`, a machine made from an image has no value other than the
  default and the configured one.
* **Storage** (`StoreSafe`): `Placed`, the slots that are taken are exactly those of the disks, ISO
  files and attachments that are behind the create, each with its medium unless attachments collide;
  `Roomy`, the controllers are those added so far with their ports; `Copied`, an ISO file is in the
  folder before it is attached. It also says that the loop over the ISO files gets to the controllers
  with at most one of them, since the SATA controller has one port beyond the disks. That each medium
  is in one slot only then follows from the arithmetic of the ports (`SlotsDiffer`) and from the
  disks being distinct (`DisksInOrder`).
* **Adapters** (`AdaptersSafe`): `PlanSafe`, the devices have raw names; no adapter is behind an empty
  slot unless `gap` says so; what `modifyvm` has written is in its slots until the machine is read;
  and the record is what was read or, when kept, what was written. `AttachedPlaces` and `PlacesInOrder`
  relate the list of VirtualBox, which leaves out empty slots, to the slots in their order, and
  `GaplessPlaces` says when each adapter is at the place of its slot; `ModifiedPlaces` shows that
  `modifyvm` makes no gap where there was none, whatever the lengths.
  `PortsSafe`, the adapters before the current one have their rules, the current one those up to the
  current rule. For the types also `RecordTyped`: what a read records is a configuration, which
  needs that each place in the list of the attached adapters has its slot (`EveryPlaceIsTaken`, by
  counting).
* **OVAImport**: `LockHeld`, whoever is between the import and the clean-up is the holder of
  the lock; `FailuresArePaid`, every attempt that is used up, and every leftover in the way of one,
  is paid for by a failure of its own. `Left` counts the steps that a create has left, three for
  each attempt.
* **GoldImages**: `LockInv`, whoever unpacks or clones holds the mutex alone, nobody has got past
  `unpackImage` with a directory that a create is unpacking into, and a directory in use is not empty;
  `ContentInv`, archives, directories and disks have the image that their user means: a directory is
  whole for every create that did not meet it half way (`WholeInv`), and one is half way only after a
  failure or a kill (`HalfInv`); `FailuresArePaid`, the creates that have failed or will fail
  (`Doomed`) are no more than the failures.
* **Small resources** (`Safe`, one part per resource): `NatSafe` and `HostSafe`, the record is
  that of the network while a plan is pending, unless another user has acted since the refresh;
  `HostRanges`, while nothing has failed and nobody has acted, a DHCP server has the recorded range, and from
  the dhcpserver command on the one asked for; `HostPaid`, the interfaces and DHCP servers that
  nobody will remove and no refused create has left (`Debt`) are no more than failures and other
  users' deeds, counted with the server whose interface is about to go; `SnapOwn`, as long as names are not shared a record names
  a snapshot of its own resource; `SnapKept` and `FileSafe`, what a resource has made is what its
  record or its control point says (`Held`, `Left`), and a sweep in hand takes only files of its own
  name or of names that begin with it.

* **Listing** (`ListSafe`): the parsers agree after every line, not only at the end of the text.
  `SourcesAgree`, the list of one data source is the other's without the blocks that have no name,
  and both are at the same block (`Named` filters by counting, so `NamedAppend` says what it does to
  a list that grows); `WrapperAgrees`, as long as the text is well formed the wrapper is in the same
  state as the data source, and a block that is open has its name; `FindsSame`, without white lines
  the first block of a name is the same in the resource's list and in the data source's.

### What is only model-checked

Liveness: `Terminates`, `EventuallyDestroyed`, the `Converges` properties, `AllEnd` and
`AdaptersConverge`. Fairness and `ENABLED` are beyond the proof system. Of two of them the
half that is safety is proved: a destroy and an import can take only so many steps. That each has a
next step until it has ended (for the import, once the lock is free) is what TLC's runs add.

Every other property of the passing runs is proved. What the proofs do not cover is in the models:
`Sorted` is what Go's library does with up to 12 files, and `MediaAreInPlace` speaks of a create
with more only as far as that holds of it.

## What is not modelled

* VirtualBox and Terraform's core are external: their actions are what the code relies on. In
  particular a command that fails has done nothing or all of its work (unregistration and import
  may stop half way), and a network that is gone is noticed by `resourceNATNetworkRead`.
* Assumed of VirtualBox, because the code or its comments do: `list --machinereadable` numbers
  snapshots as the comment in `listSnapshots` says (`resource_snapshot.go:181-190`; trees have other
  suffixes), `export` refuses a path that is taken, an adapter rule of a name that is there is
  refused, and the words of `parseMachineInfo` are those that `modifyvm` takes.
* The text of commands and outputs; `customize` commands (anything the user writes);
  attachments to a second device of a port or of "none" and "emptydrive"; MAC addresses; the timing of address polling and the addresses.
* Of snapshots the `live` argument and another `vm_id`, which only force a replacement; the imports
  of disks, snapshots and exports, which only set the id before a read.
* `data_source_vm`, the list of NAT networks and the VirtualBox version: attributes copied from one
  answer. Provider wiring is declarative.
* `internal/vboxmanage` is imported by nothing, and apart from `list.go` runs one command per
  function; the rest of `cmd/vagrant2terraform` (names, folders, customize lines) is text.
* Cases known to break a property, left out of the passing runs and listed as hazards: two VMs that
  download the same URL at once, a folder that cannot be read or that is
  reused during its removal; and, within the runs, snapshots of a name that somebody else uses,
  exports whose name begins with another's, and blank lines with a carriage return.

## Plan

Done: VMDestroy and VMDelete with proofs, VMLifecycle, VMSettings, Adapters, Vagrantfile, Storage, OVAImport,
GoldImages, BootOrder, NatNetwork, HostonlyNetwork, Disk, Snapshot, Export, Listing.

Proved: the table above.

1. An abstract *managed object* (record and host agree, are being brought to agree, or are in a
   named dead end) that VMLifecycle and the small resources implement by refinement.
2. Cancelled contexts (an interrupted apply), which every command may meet.
