--------------------------- MODULE SmallResources ---------------------------
(***************************************************************************)
(* The resources that manage one kind of object other than a VM, and the   *)
(* parsers of interface lists; one of them per behaviour: they share no    *)
(* state, so that their interleavings say nothing that the behaviours of   *)
(* each do not.                                                            *)
(***************************************************************************)
EXTENDS Naturals, Sequences, FiniteSets

CONSTANTS Protocols,         \* of the rules of a NAT network
          Ids, Ranges, V6s,  \* of host-only networks: interfaces, DHCP ranges, IPv6 settings
          Names,             \* the snapshots
          Bases, Prefix,     \* the exports, and which name begins with which
          MaxEdits, MaxEvents, MaxFaults,
          MaxSnapshotFaults, \* the bound on failing commands for snapshots
          MaxLines

ASSUME ConstantsAssumption ==
  /\ Protocols \in Seq({"tcp", "udp"}) /\ Protocols # <<>>
  /\ Ids \subseteq Nat /\ 1 \in Ids /\ IsFiniteSet(Ids)
  /\ Ranges \subseteq 0..2 /\ V6s \subseteq 0..2
  /\ Names \cap {"x", "other"} = {} /\ Prefix \subseteq Bases \X Bases
  /\ {MaxEdits, MaxEvents, MaxFaults, MaxSnapshotFaults, MaxLines} \subseteq Nat

VARIABLES kind,                              \* the resource
          want, tf, pc, edits, events, faults,
          network, rule,                     \* of a NAT network
          ifaces, servers, iface, refused,   \* of a host-only network
          stale,                             \* of either network
          medium,                            \* of a disk
          snaps, taken, contested,           \* of snapshots
          files, todo,                       \* of exports
          text, blocks, shown, listed, split \* of a list

shared   == <<kind, want, tf, pc, edits, events, faults>>
natVars  == <<network, rule>>
hostVars == <<ifaces, servers, iface, refused>>
snapVars == <<snaps, taken, contested>>
fileVars == <<files, todo>>
listVars == <<text, blocks, shown, listed, split>>
vars     == <<shared, stale, natVars, hostVars, medium, snapVars, fileVars, listVars>>

NatNet   == INSTANCE NatNetwork WITH host <- network
HostOnly == INSTANCE HostonlyNetwork
Medium   == INSTANCE Disk WITH host <- medium
Snaps    == INSTANCE Snapshot WITH host <- snaps, MaxFaults <- MaxSnapshotFaults
Exports  == INSTANCE Export
Lists    == INSTANCE Listing

NoNat   == network = {} /\ rule = 1
NoHost  == ifaces = <<>> /\ servers = <<>> /\ iface = 1 /\ refused = {}
NoDisk  == medium = {}
NoSnaps == snaps = {} /\ taken = 0 /\ contested = FALSE
NoFiles == files = {} /\ todo = <<>>
NoText  == text = <<>> /\ blocks = <<>> /\ shown = <<>> /\ listed = <<>> /\ split = <<>>
NoTf    == want = {} /\ tf = {} /\ pc = "idle" /\ edits = 0 /\ events = 0 /\ faults = 0
Fresh   == stale = FALSE

Init == \/ kind = "nat" /\ NatNet!Init /\ NoHost /\ NoDisk /\ NoSnaps /\ NoFiles /\ NoText
        \/ kind = "hostonly" /\ HostOnly!Init /\ NoNat /\ NoDisk /\ NoSnaps /\ NoFiles /\ NoText
        \/ kind = "disk" /\ Medium!Init /\ Fresh /\ NoNat /\ NoHost /\ NoSnaps /\ NoFiles /\ NoText
        \/ kind = "snapshot" /\ Snaps!Init /\ Fresh /\ NoNat /\ NoHost /\ NoDisk /\ NoFiles /\ NoText
        \/ kind = "export" /\ Exports!Init /\ Fresh /\ NoNat /\ NoHost /\ NoDisk /\ NoSnaps /\ NoText
        \/ kind = "list" /\ Lists!Init /\ Fresh /\ NoNat /\ NoHost /\ NoDisk /\ NoSnaps /\ NoFiles /\ NoTf

IsNat  == kind = "nat" /\ UNCHANGED <<kind, hostVars, medium, snapVars, fileVars, listVars>>
IsHost == kind = "hostonly" /\ UNCHANGED <<kind, natVars, medium, snapVars, fileVars, listVars>>
IsDisk == kind = "disk" /\ UNCHANGED <<kind, stale, natVars, hostVars, snapVars, fileVars, listVars>>
IsSnap == kind = "snapshot" /\ UNCHANGED <<kind, stale, natVars, hostVars, medium, fileVars, listVars>>
IsFile == kind = "export" /\ UNCHANGED <<kind, stale, natVars, hostVars, medium, snapVars, listVars>>
IsList == kind = "list" /\ UNCHANGED <<shared, stale, natVars, hostVars, medium, snapVars, fileVars>>

Next == \/ IsNat /\ NatNet!Next
        \/ IsHost /\ HostOnly!Next
        \/ IsDisk /\ Medium!Next
        \/ IsSnap /\ Snaps!Next
        \/ IsFile /\ Exports!Next
        \/ IsList /\ Lists!Next

Reads == \/ IsNat /\ NatNet!Refresh
         \/ IsHost /\ HostOnly!Refresh
         \/ IsDisk /\ Medium!Refresh
         \/ IsSnap /\ Snaps!Reads
         \/ IsFile /\ Exports!Reads

Apply == \/ IsNat /\ NatNet!Apply
         \/ IsHost /\ HostOnly!Apply
         \/ IsDisk /\ Medium!Apply
         \/ IsSnap /\ Snaps!Apply
         \/ IsFile /\ Exports!Apply

Spec == Init /\ [][Next]_vars /\ WF_vars(Reads) /\ WF_vars(Apply)

(* The types of each.                                                      *)
TypeOK == CASE kind = "nat"      -> NatNet!TypeOK
            [] kind = "hostonly" -> HostOnly!TypeOK
            [] kind = "disk"     -> Medium!TypeOK
            [] kind = "snapshot" -> Snaps!TypeOK
            [] kind = "export"   -> Exports!TypeOK
            [] kind = "list"     -> Lists!TypeOK

(* A plan without changes means that a network had, when it was read, the  *)
(* settings asked for, whatever update failed half way: all that the reads *)
(* bring back (resourceNATNetworkRead, resourceHostonlyNetworkRead), but   *)
(* for an IPv6 address and rules of which they find nothing at all, and the*)
(* DHCP range as long as nothing has failed.                               *)
CleanPlanMeansConfigured ==
  CASE kind = "nat"      -> NatNet!CleanPlanMeansSettings
    [] kind = "hostonly" -> HostOnly!CleanPlanMeansConfigured
    [] OTHER             -> TRUE

(* What the provider has made and Terraform does not know of, or what      *)
(* outlives the object it belongs to, comes only from a failed command or  *)
(* from another user: networks, interfaces and their DHCP servers, disks,  *)
(* snapshots, exported files (the creates set their id last, the deletes   *)
(* take several steps); or from a create of a host-only network with DHCP  *)
(* and no range, which is refused after the interface has been made.       *)
LossesComeFromFailures ==
  CASE kind = "nat"      -> NatNet!OrphansComeFromFailures
    [] kind = "hostonly" -> HostOnly!LeaksComeFromFailures /\ HostOnly!NoStrandedServers
    [] kind = "disk"     -> Medium!LossesComeFromFailures
    [] kind = "snapshot" -> Snaps!LossesComeFromFailures
    [] kind = "export"   -> Exports!LossesComeFromFailures
    [] OTHER             -> TRUE

(* Terraform deletes and edits no snapshot that it has not taken, as long  *)
(* as names are not shared (resourceSnapshotCreate, resourceSnapshotUpdate). *)
OnlyOwnTouched ==
  [][kind = "snapshot" /\ ~contested /\ events' = events =>
       Snaps!TouchedAreOwn]_vars

(* A recorded export has all its files, whatever is exported and deleted   *)
(* beside it, unless its name begins with another's (the glob of           *)
(* resourceVMExportDelete).                                                *)
ExportsAreWhole == kind = "export" => Exports!ExportsAreWhole

(* The four parsers of interface lists find the same (parseVBoxBlocks,     *)
(* parseInterfaceBlocks, parseHostOnlyIFs, parseHostonlyInterface).        *)
ParsersAgree == kind = "list" => Lists!ParsersAgree

Settled == CASE kind = "nat"      -> NatNet!Settled
             [] kind = "hostonly" -> HostOnly!Settled
             [] kind = "disk"     -> Medium!Settled
             [] OTHER             -> TRUE

(* Repeated applies bring every resource to an empty plan, and networks    *)
(* and disks to what is configured, outside the cases that their modules   *)
(* name.                                                                   *)
Converges == /\ []<>Settled
             /\ \A n \in Names : []<>(kind = "snapshot" => Snaps!Settled(n))
             /\ \A e \in Bases : []<>(kind = "export" => Exports!Settled(e))
=============================================================================
