------------------------------- MODULE Volumes -------------------------------
(***************************************************************************)
(* What is inside a volume -- its size, its snapshots -- and the calls     *)
(* that read and write back whole records: resize_disk, set_disk_metadata, *)
(* set_vm_metadata, snapshot_disk, delete_snapshot (src/src/cpi,           *)
(* src/src/adapter: volume.go, snapshot.go, instance.go), beside an        *)
(* attach_disk that moves the disk to another member and a detach_disk.    *)
(* VMLifecycle has what follows in those two calls.                        *)
(*                                                                         *)
(* One process of cmd/cpi per call, one step per request.  The etag of a   *)
(* record covers its size or its devices; the descriptions that the two    *)
(* metadata calls format are left out, but not the update they come with.  *)
(***************************************************************************)
EXTENDS Naturals

CONSTANTS
    Proc,           \* processes of cmd/cpi that run at a time
    VM, Disk, Node,
    Size,           \* sizes of a disk
    Snap,           \* snapshot names "snap-<uuid>", each generated once
    Adapters,       \* "lxd", "incus"
    WithEphemeral,  \* the VMs that have an ephemeral disk
    None,
    MaxFaults       \* bound on failed requests and killed processes

EphOf(v) == <<"ephemeral", v>>
Vol == Disk \cup {EphOf(v) : v \in VM}

Copy == [size : Size, snaps : SUBSET Snap]

\* The calls, each with its first request.
Start == [resize_disk |-> "get_volume", set_disk_metadata |-> "get_volume",
          set_vm_metadata |-> "get_instance", snapshot_disk |-> "create_snapshot",
          delete_snapshot |-> "delete_snapshot", attach_disk |-> "colocate",
          detach_disk |-> "detach_get"]
Ops == DOMAIN Start

ASSUME VolumesAssumption ==
    /\ Adapters \subseteq {"lxd", "incus"} /\ WithEphemeral \subseteq VM
    /\ MaxFaults \in Nat
    /\ None \notin VM \cup Vol \cup Node \cup Size \cup Snap \cup Ops \cup Copy
    /\ Disk \cap {EphOf(v) : v \in VM} = {}

VARIABLES
    adapter,    \* the adapter configured
    host,       \* host[v]: the member that runs v
    devices,    \* devices[v]: the volumes that are disk devices of v
    vols,       \* vols[x][n]: the copy of volume x on member n
    pc, job,    \* of process p: its next request, the locals of its call
    faults,
    owner,      \* owner[d]: the VM the director has attached d to, or is about to
    resized,    \* resized[d]: the size answered by the last resize_disk; None once one failed
    snap        \* snap[s]: what the director knows of snapshot s, and of which disk it is

server == <<host, devices, vols>>
director == <<owner, resized, snap>>
vars == <<adapter, server, pc, job, faults, director>>

PC == {"idle", "ok", "failed", "get_volume", "put_volume", "get_instance", "put_instance",
       "get_devices", "create_snapshot", "get_snapshot", "describe_snapshot", "delete_snapshot",
       "colocate", "copy_volume", "drop_source", "attach_get", "attach_put",
       "detach_get", "detach_put"}
\* read: the size or the devices that were read, and whose etag goes with the update.
Job == [op : Ops \cup {None}, vm : VM \cup {None}, vol : Vol \cup {None}, size : Size \cup {None},
        snap : Snap \cup {None}, from : Node \cup {None},
        read : Size \cup (SUBSET Vol) \cup {None}]
NoJob == [op |-> None, vm |-> None, vol |-> None, size |-> None, snap |-> None,
          from |-> None, read |-> None]

Init ==
    /\ adapter \in Adapters
    /\ host \in [VM -> Node]
    /\ devices = [v \in VM |-> IF v \in WithEphemeral THEN {EphOf(v)} ELSE {}]
    /\ \E at \in [Disk -> Node], size \in Size :
           vols = [x \in Vol |-> [n \in Node |->
                      IF (x \in Disk /\ at[x] = n)
                         \/ (\E v \in WithEphemeral : x = EphOf(v) /\ host[v] = n)
                      THEN [size |-> size, snaps |-> {}] ELSE None]]
    /\ pc = [p \in Proc |-> "idle"]
    /\ job = [p \in Proc |-> NoJob]
    /\ faults = 0
    /\ owner = [d \in Disk |-> None]
    /\ resized = [d \in Disk |-> None]
    /\ snap = [s \in Snap |-> [state |-> "free", disk |-> None]]

-----------------------------------------------------------------------------
(* The server *)

\* A request that names a volume without a member is refused when two hold it.
At(x) == {n \in Node : vols[x][n] # None}
Located(x) == \E n \in Node : At(x) = {n}
Here(x) == CHOOSE n \in At(x) : TRUE
UsedBy(x) == {v \in VM : x \in devices[v]}

PutCopy(x, n, copy) == vols' = [vols EXCEPT ![x][n] = copy] /\ UNCHANGED <<host, devices>>

PutDevices(v, new) == devices' = [devices EXCEPT ![v] = new] /\ UNCHANGED <<host, vols>>

\* A device that is added must have its volume on the instance's member, unused by others.
CanPutDevices(v, new) == \A x \in new \ devices[v] : vols[x][host[v]] # None /\ UsedBy(x) = {}

-----------------------------------------------------------------------------
(* How a request ends *)

Goto(p, next, work) ==
    /\ pc' = [pc EXCEPT ![p] = next]
    /\ job' = [job EXCEPT ![p] = work]

Fail(p) == Goto(p, "failed", job[p])
Fault == faults < MaxFaults /\ faults' = faults + 1

\* Answered, refused, or failed before or after it took effect.
Request(p, ok, Effect, next, work) ==
    /\ \/ ok /\ Effect /\ Goto(p, next, work) /\ UNCHANGED faults
       \/ ok /\ Fault /\ Effect /\ Fail(p)
       \/ ~ok /\ UNCHANGED <<server, faults>> /\ Fail(p)
       \/ Fault /\ UNCHANGED server /\ Fail(p)
    /\ UNCHANGED <<adapter, director>>

Read(p, ok, next, work) == Request(p, ok, UNCHANGED server, next, work)

-----------------------------------------------------------------------------
(* resize_disk, set_disk_metadata, and the end of set_vm_metadata *)

GetVolume(p) == pc[p] = "get_volume" /\
    LET x == job[p].vol IN
    \/ /\ Located(x)
       /\ Read(p, TRUE, "put_volume", [job[p] EXCEPT !.read = vols[x][Here(x)].size])
    \/ ~Located(x) /\ Read(p, FALSE, "put_volume", job[p])

\* (mutant) The update goes without an etag.
PutVolumeNoEtag(p) == pc[p] = "put_volume" /\
    LET x == job[p].vol
        size == IF job[p].op = "resize_disk" THEN job[p].size ELSE job[p].read
    IN  Request(p, Located(x), PutCopy(x, Here(x), [vols[x][Here(x)] EXCEPT !.size = size]),
                "ok", job[p])

\* The whole record is written, with the size that was read or the new one.
PutVolume(p) == pc[p] = "put_volume" /\
    LET x == job[p].vol
        size == IF job[p].op = "resize_disk" THEN job[p].size ELSE job[p].read
    IN  Request(p, Located(x) /\ vols[x][Here(x)].size = job[p].read,
                PutCopy(x, Here(x), [vols[x][Here(x)] EXCEPT !.size = size]), "ok", job[p])

(* set_vm_metadata: the instance, and its ephemeral disk if it has one *)

GetInstance(p) == pc[p] = "get_instance" /\
    Read(p, TRUE, "put_instance", [job[p] EXCEPT !.read = devices[job[p].vm]])

\* (mutant) The update goes without an etag.
PutInstanceNoEtag(p) == pc[p] = "put_instance" /\
    Request(p, TRUE, PutDevices(job[p].vm, job[p].read), "get_devices", job[p])

\* The whole instance is written back, its devices included.
PutInstance(p) == pc[p] = "put_instance" /\
    LET v == job[p].vm IN
    Request(p, devices[v] = job[p].read, PutDevices(v, job[p].read), "get_devices", job[p])

\* (mutant) The VM is taken to have an ephemeral disk.
GetDevicesEphemeral(p) == pc[p] = "get_devices" /\
    Read(p, TRUE, "get_volume", [job[p] EXCEPT !.read = None, !.vol =
        IF EphOf(job[p].vm) \in devices[job[p].vm] THEN EphOf(job[p].vm) ELSE None])

GetDevices(p) == pc[p] = "get_devices" /\
    LET e == EphOf(job[p].vm)
        work == [job[p] EXCEPT !.read = None]
    IN  IF e \in devices[job[p].vm]
        THEN Read(p, TRUE, "get_volume", [work EXCEPT !.vol = e])
        ELSE Read(p, TRUE, "ok", work)

(* snapshot_disk, delete_snapshot *)

\* The Incus adapter describes the snapshot by requests of their own.
CreateSnapshot(p) == pc[p] = "create_snapshot" /\
    LET x == job[p].vol IN
    Request(p, Located(x),
            PutCopy(x, Here(x), [vols[x][Here(x)] EXCEPT !.snaps = @ \cup {job[p].snap}]),
            IF adapter = "incus" THEN "get_snapshot" ELSE "ok", job[p])

HasSnapshot(p) == Located(job[p].vol) /\ job[p].snap \in vols[job[p].vol][Here(job[p].vol)].snaps

GetSnapshot(p) == pc[p] = "get_snapshot" /\ Read(p, HasSnapshot(p), "describe_snapshot", job[p])
DescribeSnapshot(p) == pc[p] = "describe_snapshot" /\ Read(p, HasSnapshot(p), "ok", job[p])

\* (mutant) A disk that is not found counts as deleted.
DeleteSnapshotGone(p) == pc[p] = "delete_snapshot" /\
    LET x == job[p].vol IN
    \/ /\ Located(x)
       /\ Request(p, TRUE,
            PutCopy(x, Here(x), [vols[x][Here(x)] EXCEPT !.snaps = @ \ {job[p].snap}]),
            "ok", job[p])
    \/ ~Located(x) /\ Read(p, TRUE, "ok", job[p])

\* The id names the disk and the snapshot.
DeleteSnapshot(p) == pc[p] = "delete_snapshot" /\
    LET x == job[p].vol IN
    Request(p, HasSnapshot(p),
            PutCopy(x, Here(x), [vols[x][Here(x)] EXCEPT !.snaps = @ \ {job[p].snap}]),
            "ok", job[p])

(* attach_disk and detach_disk, as far as the volume and the device table *)

\* Where the instance is, and where the disk is.
Colocate(p) == pc[p] = "colocate" /\
    LET x == job[p].vol IN
    \/ /\ Located(x)
       /\ LET n == Here(x) IN
          IF n = host[job[p].vm] THEN Read(p, TRUE, "attach_get", job[p])
          ELSE Read(p, TRUE, "copy_volume", [job[p] EXCEPT !.from = n])
    \/ ~Located(x) /\ Read(p, FALSE, "attach_get", job[p])

\* (mutant) VolumeOnly: TRUE.
CopyVolumeOnly(p) == pc[p] = "copy_volume" /\
    LET x == job[p].vol  n == job[p].from  to == host[job[p].vm] IN
    Request(p, vols[x][n] # None /\ vols[x][to] = None,
            PutCopy(x, to, [vols[x][n] EXCEPT !.snaps = {}]), "drop_source", job[p])

CopyVolume(p) == pc[p] = "copy_volume" /\
    LET x == job[p].vol  n == job[p].from  to == host[job[p].vm] IN
    Request(p, vols[x][n] # None /\ vols[x][to] = None, PutCopy(x, to, vols[x][n]),
            "drop_source", job[p])

DropSource(p) == pc[p] = "drop_source" /\
    LET x == job[p].vol  n == job[p].from IN
    Request(p, vols[x][n] # None /\ \A v \in UsedBy(x) : host[v] # n, PutCopy(x, n, None),
            "attach_get", job[p])

\* A disk that is attached already is refused, its device being there; a repeated attach_disk
\* that takes another device for it is left to VMLifecycle.
AttachGet(p) == pc[p] = "attach_get" /\
    LET v == job[p].vm IN
    Read(p, job[p].vol \notin devices[v], "attach_put",
         [job[p] EXCEPT !.from = None, !.read = devices[v]])

AttachPut(p) == pc[p] = "attach_put" /\
    LET v == job[p].vm
        new == job[p].read \cup {job[p].vol}
    IN  Request(p, devices[v] = job[p].read /\ CanPutDevices(v, new), PutDevices(v, new),
                "ok", job[p])

\* A disk that is not attached is a warning.
DetachGet(p) == pc[p] = "detach_get" /\
    LET v == job[p].vm IN
    Read(p, TRUE, IF job[p].vol \in devices[v] THEN "detach_put" ELSE "ok",
         [job[p] EXCEPT !.read = devices[v]])

\* No etag.
DetachPut(p) == pc[p] = "detach_put" /\
    LET v == job[p].vm
        new == job[p].read \ {job[p].vol}
    IN  Request(p, CanPutDevices(v, new), PutDevices(v, new), "ok", job[p])

-----------------------------------------------------------------------------
(* The director.  It attaches and detaches one disk of a VM at a time, and has one      *)
(* resize_disk of a disk and one call on a snapshot at a time; everything else overlaps. *)

Calling(ops, fits(_)) == \E q \in Proc : job[q].op \in ops /\ fits(job[q])

Call(p, op, v, x, size, s) ==
    /\ pc[p] = "idle"
    /\ Goto(p, Start[op], [NoJob EXCEPT !.op = op, !.vm = v, !.vol = x, !.size = size, !.snap = s])
    /\ UNCHANGED <<adapter, server, faults>>

CallResizeDisk(p, d, size) ==
    /\ ~Calling({"resize_disk"}, LAMBDA j : j.vol = d)
    /\ Call(p, "resize_disk", None, d, size, None)
    /\ resized' = [resized EXCEPT ![d] = None] /\ UNCHANGED <<owner, snap>>

CallSetMetadata(p) ==
    /\ \/ \E d \in Disk : Call(p, "set_disk_metadata", None, d, None, None)
       \/ \E v \in VM : Call(p, "set_vm_metadata", v, None, None, None)
    /\ UNCHANGED director

CallSnapshotDisk(p, d, s) ==
    /\ snap[s].state = "free"
    /\ Call(p, "snapshot_disk", None, d, None, s)
    /\ snap' = [snap EXCEPT ![s] = [state |-> "pending", disk |-> d]]
    /\ UNCHANGED <<owner, resized>>

CallDeleteSnapshot(p, s) ==
    /\ snap[s].state = "known"
    /\ Call(p, "delete_snapshot", None, snap[s].disk, None, s)
    /\ snap' = [snap EXCEPT ![s].state = "pending"]
    /\ UNCHANGED <<owner, resized>>

CallDisk(p, d, v) ==
    /\ ~Calling({"attach_disk", "detach_disk"}, LAMBDA j : j.vm = v \/ j.vol = d)
    /\ \/ owner[d] \in {None, v} /\ Call(p, "attach_disk", v, d, None, None)
       \/ owner[d] = v /\ Call(p, "detach_disk", v, d, None, None)
    /\ owner' = [owner EXCEPT ![d] = v] /\ UNCHANGED <<resized, snap>>

Conclude(j, good) ==
    /\ resized' = IF good /\ j.op = "resize_disk" THEN [resized EXCEPT ![j.vol] = j.size] ELSE resized
    /\ owner' = IF good /\ j.op = "detach_disk" THEN [owner EXCEPT ![j.vol] = None] ELSE owner
    /\ snap' = IF j.snap = None THEN snap
               ELSE [snap EXCEPT ![j.snap].state =
                        IF ~good THEN "failed"
                        ELSE IF j.op = "snapshot_disk" THEN "known" ELSE "deleted"]

Reply(p) ==
    /\ pc[p] \in {"ok", "failed"}
    /\ Conclude(job[p], pc[p] = "ok") /\ Goto(p, "idle", NoJob)
    /\ UNCHANGED <<adapter, server, faults>>

Crash(p) ==
    /\ pc[p] # "idle" /\ Fault
    /\ Conclude(job[p], FALSE) /\ Goto(p, "idle", NoJob)
    /\ UNCHANGED <<adapter, server>>

-----------------------------------------------------------------------------

Step(p) ==
    \/ GetVolume(p) \/ PutVolume(p) \/ GetInstance(p) \/ PutInstance(p) \/ GetDevices(p)
    \/ CreateSnapshot(p) \/ GetSnapshot(p) \/ DescribeSnapshot(p) \/ DeleteSnapshot(p)
    \/ Colocate(p) \/ CopyVolume(p) \/ DropSource(p)
    \/ AttachGet(p) \/ AttachPut(p) \/ DetachGet(p) \/ DetachPut(p)
    \/ Reply(p)

Director(p) ==
    \/ CallSetMetadata(p)
    \/ \E d \in Disk :
        \/ \E size \in Size : CallResizeDisk(p, d, size)
        \/ \E s \in Snap : CallSnapshotDisk(p, d, s)
        \/ \E v \in VM : CallDisk(p, d, v)
    \/ \E s \in Snap : CallDeleteSnapshot(p, s)

Next == \E p \in Proc : Step(p) \/ Director(p) \/ Crash(p)

Spec == Init /\ [][Next]_vars

-----------------------------------------------------------------------------
(* Properties *)

\* The locals a call has at each of its requests.
JobOK(at, j) ==
    /\ at = "idle" <=> j = NoJob
    /\ at \in {"get_volume", "put_volume", "create_snapshot", "get_snapshot", "describe_snapshot",
               "delete_snapshot", "colocate", "copy_volume", "drop_source", "attach_get",
               "attach_put", "detach_get", "detach_put"} => j.vol \in Vol
    /\ at \in {"copy_volume", "drop_source"} => j.from \in Node
    /\ at = "put_volume" => j.read \in Size
    /\ at \in {"put_instance", "attach_put", "detach_put"} => j.read \in SUBSET Vol

TypeOK ==
    /\ adapter \in Adapters
    /\ host \in [VM -> Node] /\ devices \in [VM -> SUBSET Vol]
    /\ vols \in [Vol -> [Node -> Copy \cup {None}]]
    /\ pc \in [Proc -> PC] /\ job \in [Proc -> Job] /\ faults \in 0..MaxFaults
    /\ \A p \in Proc : JobOK(pc[p], job[p])
    /\ owner \in [Disk -> VM \cup {None}] /\ resized \in [Disk -> Size \cup {None}]
    /\ snap \in [Snap -> [state : {"free", "pending", "known", "failed", "deleted"},
                          disk : Disk \cup {None}]]

\* A disk keeps the size its last resize_disk answered, on every member, whatever writes its
\* record back and moves it at the time (UpdateStoragePoolVolumeDescription,
\* ColocateStoragePoolVolumeWithInstance).
ResizeKept == \A d \in Disk : resized[d] # None =>
    \A n \in At(d) : vols[d][n].size = resized[d]

\* A snapshot that was answered is on every copy of its disk until delete_snapshot is called: no
\* move leaves it behind, also when it was taken while the disk moved.
SnapshotsKept == \A s \in Snap : snap[s].state = "known" =>
    /\ At(snap[s].disk) # {}
    /\ \A n \in At(snap[s].disk) : s \in vols[snap[s].disk][n].snaps

\* A snapshot whose deletion was answered is on no copy of its disk, also when it was deleted
\* while the disk moved.
SnapshotsGone == \A s \in Snap : snap[s].state = "deleted" =>
    \A x \in Vol : \A n \in At(x) : s \notin vols[x][n].snaps

\* set_vm_metadata, which writes whole instances back, attaches and detaches nothing, whatever
\* attach_disk and detach_disk do in between (UpdateInstanceDescription).
MetadataKeepsDevices ==
    [][\A p \in Proc : pc[p] = "put_instance" /\ pc'[p] # pc[p] => UNCHANGED devices]_vars
=============================================================================
