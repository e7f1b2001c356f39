------------------------------ MODULE LxdServer ------------------------------
(***************************************************************************)
(* The LXD/Incus server, as the adapter packages use it (external code:    *)
(* src/src/adapter/lxd and src/src/adapter/incus send these requests).     *)
(* Instances with their device table, custom storage volumes, and on which *)
(* cluster member each of them lives.  A request is a guard (what the      *)
(* server refuses) and an effect; the caller decides what an error means.  *)
(*                                                                         *)
(* Volume names are unique (the CPI makes them from a UUID) except that a  *)
(* volume being moved between two members exists on both for a while.      *)
(***************************************************************************)
CONSTANTS
    VM,         \* instance names, "vm-<uuid>"
    Disk,       \* persistent disks, "vol-p-<uuid>"
    ConfVol,    \* configuration disks, "vol-c-<uuid>"; a name is recycled once nothing refers to it
    Node,       \* cluster members (storage pool locations)
    None

EphOf(v) == <<"vol-e", v>>              \* the one ephemeral disk create_vm may make for v
EphVol == {EphOf(v) : v \in VM}
Vol == Disk \cup ConfVol \cup EphVol

PersistentDev == {"persistent-1", "persistent-2"}
Dev == {"config", "ephemeral"} \cup PersistentDev
\* The kind of volume behind a device; a device table maps device names to sources.
Backing(d) == CASE d = "config" -> ConfVol [] d = "ephemeral" -> EphVol [] OTHER -> Disk
DevTable == {t \in [Dev -> Vol \cup {None}] : \A d \in Dev : t[d] \in Backing(d) \cup {None}}
NoDevices == [d \in Dev |-> None]

\* The disk part of an agent.json: the slot ("/dev/sdc", "/dev/sdd") of each persistent disk.
Env == [Disk -> PersistentDev \cup {None}]

ASSUME ServerAssumption ==
    /\ Disk \cap ConfVol = {} /\ Disk \cap EphVol = {} /\ ConfVol \cap EphVol = {}
    /\ None \notin VM \cup Vol \cup Node \cup PersistentDev
    /\ None \notin DevTable /\ None \notin Env

VARIABLES
    host,       \* host[v]: the member that runs instance v, None if there is no such instance
    running,    \* the instances that are started
    devs,       \* devs[v]: the disk devices of v
    vols,       \* vols[x]: the members that hold a copy of volume x
    iso         \* iso[c]: the settings on configuration disk c

server == <<host, running, devs, vols, iso>>

ServerTypeOK ==
    /\ host \in [VM -> Node \cup {None}]
    /\ running \subseteq VM
    /\ devs \in [VM -> DevTable]
    /\ vols \in [Vol -> SUBSET Node]
    /\ iso \in [ConfVol -> Env \cup {None}]

ServerInit ==
    /\ host = [v \in VM |-> None]
    /\ running = {}
    /\ devs = [v \in VM |-> NoDevices]
    /\ vols = [x \in Vol |-> {}]
    /\ iso = [c \in ConfVol |-> None]

Exists(v) == host[v] # None
Sources(v) == {devs[v][d] : d \in Dev} \ {None}
UsedBy(x) == {v \in VM : x \in Sources(v)}      \* the volume's used_by list

-----------------------------------------------------------------------------
(* Instances *)

CreateInstance(v, n) ==
    /\ host' = [host EXCEPT ![v] = n]
    /\ UNCHANGED <<running, devs, vols, iso>>

CanDeleteInstance(v) == Exists(v) /\ v \notin running

DeleteInstance(v) ==
    /\ host' = [host EXCEPT ![v] = None]
    /\ devs' = [devs EXCEPT ![v] = NoDevices]
    /\ UNCHANGED <<running, vols, iso>>

StartInstance(v) ==
    /\ running' = running \cup {v}
    /\ UNCHANGED <<host, devs, vols, iso>>

StopInstance(v) ==
    /\ running' = running \ {v}
    /\ UNCHANGED <<host, devs, vols, iso>>

\* A device the update adds must have its volume on the instance's member, and
\* a block volume serves one instance only.
CanPutDevices(v, table) ==
    /\ Exists(v)
    /\ \A d \in Dev : table[d] \notin {None, devs[v][d]} =>
          /\ host[v] \in vols[table[d]]
          /\ UsedBy(table[d]) \subseteq {v}

PutDevices(v, table) ==
    /\ devs' = [devs EXCEPT ![v] = table]
    /\ UNCHANGED <<host, running, vols, iso>>

-----------------------------------------------------------------------------
(* Custom storage volumes *)

CreateVolume(x, n) ==
    /\ vols' = [vols EXCEPT ![x] = {n}]
    /\ UNCHANGED <<host, running, devs, iso>>

CreateISO(c, n, settings) ==
    /\ vols' = [vols EXCEPT ![c] = {n}]
    /\ iso' = [iso EXCEPT ![c] = settings]
    /\ UNCHANGED <<host, running, devs>>

\* The requests that name a volume without a member are refused when two hold it.
Located(x, n) == vols[x] = {n}

CanDeleteVolume(x) == UsedBy(x) = {} /\ \E n \in Node : Located(x, n)

DeleteVolume(x) ==
    /\ vols' = [vols EXCEPT ![x] = {}]
    /\ iso' = [c \in ConfVol |-> IF c = x THEN None ELSE iso[c]]
    /\ UNCHANGED <<host, running, devs>>

CanCopyVolume(x, from, to) == from \in vols[x] /\ to \notin vols[x]

CopyVolume(x, to) ==
    /\ vols' = [vols EXCEPT ![x] = @ \cup {to}]
    /\ UNCHANGED <<host, running, devs, iso>>

\* The copy on one member goes unless an instance of that member uses it.
CanDropCopy(x, n) == n \in vols[x] /\ \A v \in UsedBy(x) : host[v] # n

DropCopy(x, n) ==
    /\ vols' = [vols EXCEPT ![x] = @ \ {n}]
    /\ UNCHANGED <<host, running, devs, iso>>
=============================================================================
