---------------------------- MODULE Volumes_proofs ----------------------------
(***************************************************************************)
(* Proofs about Volumes, for any number of processes, VMs, disks, members  *)
(* and snapshots: what a move and the updates of whole records keep.       *)
(***************************************************************************)
EXTENDS Volumes, TLAPS

USE VolumesAssumption

-----------------------------------------------------------------------------
(* Types *)

\* The operation and the arguments a call has at each of its requests.
Argued(at, j) ==
    /\ at # "idle" => j.op \in Ops
    /\ at \in {"get_volume", "put_volume"} =>
           j.op \in {"resize_disk", "set_disk_metadata", "set_vm_metadata"}
    /\ at \in {"get_instance", "put_instance", "get_devices"} => j.op = "set_vm_metadata"
    /\ at \in {"create_snapshot", "get_snapshot", "describe_snapshot"} => j.op = "snapshot_disk"
    /\ at = "delete_snapshot" => j.op = "delete_snapshot"
    /\ at \in {"colocate", "copy_volume", "drop_source", "attach_get", "attach_put"} => j.op = "attach_disk"
    /\ at \in {"detach_get", "detach_put"} => j.op = "detach_disk"
    /\ j.op = "resize_disk" => j.size \in Size
    /\ j.op \in {"set_vm_metadata", "attach_disk", "detach_disk"} => j.vm \in VM
    /\ j.op \notin {"set_vm_metadata", None} => j.vol \in Disk
    /\ j.op \in {"snapshot_disk", "delete_snapshot"} <=> j.snap # None

\* A snapshot that a call works on has been asked for.
Asked(p) == job[p].snap # None => snap[job[p].snap].state # "free"

SnapOK == \A s \in Snap : snap[s].state # "free" => snap[s].disk \in Disk

AllOK == TypeOK /\ SnapOK /\ \A p \in Proc : Argued(pc[p], job[p]) /\ Asked(p)

ServerOK ==
    /\ host \in [VM -> Node] /\ devices \in [VM -> SUBSET Vol]
    /\ vols \in [Vol -> [Node -> Copy \cup {None}]]

DirectorOK ==
    /\ owner \in [Disk -> VM \cup {None}] /\ resized \in [Disk -> Size \cup {None}]
    /\ snap \in [Snap -> [state : {"free", "pending", "known", "failed", "deleted"},
                          disk : Disk \cup {None}]]
    /\ SnapOK

LEMMA JobHere ==
    ASSUME AllOK, NEW p \in Proc
    PROVE  /\ job[p] \in Job /\ pc[p] \in PC
           /\ JobOK(pc[p], job[p]) /\ Argued(pc[p], job[p]) /\ Asked(p)
  BY DEF AllOK, TypeOK

LEMMA Parts == AllOK => ServerOK /\ DirectorOK
  BY DEF AllOK, TypeOK, ServerOK, DirectorOK

\* A call may end at any of its requests.
LEMMA MayEnd ==
    ASSUME AllOK, NEW p \in Proc, pc[p] # "idle"
    PROVE  /\ job[p] # NoJob
           /\ \A at \in {"ok", "failed"} : at \in PC /\ JobOK(at, job[p]) /\ Argued(at, job[p])
<1>1. job[p] # NoJob
  BY JobHere DEF JobOK
<1>. QED
  BY <1>1, JobHere DEF JobOK, Argued, PC

LEMMA StepType ==
    ASSUME AllOK, NEW p \in Proc, NEW next \in PC, NEW work \in Job,
           JobOK(next, work), Argued(next, work), Goto(p, next, work),
           ServerOK', DirectorOK', UNCHANGED adapter, UNCHANGED faults \/ Fault,
           work.snap # None => snap'[work.snap].state # "free",
           \A s \in Snap : snap[s].state # "free" => snap'[s].state # "free"
    PROVE  AllOK'
<1>1. /\ pc' \in [Proc -> PC] /\ job' \in [Proc -> Job]
      /\ \A q \in Proc : JobOK(pc'[q], job'[q]) /\ Argued(pc'[q], job'[q])
  BY DEF AllOK, TypeOK, Goto
<1>2. faults' \in 0..MaxFaults
  BY DEF AllOK, TypeOK, Fault
<1>3. \A q \in Proc : Asked(q)'
  BY DEF AllOK, TypeOK, Goto, Asked, Job
<1>. QED
  BY <1>1, <1>2, <1>3 DEF AllOK, TypeOK, ServerOK, DirectorOK

\* A request keeps the types if its effect does and what it leaves behind fits the next one.
LEMMA RequestType ==
    ASSUME AllOK, NEW p \in Proc, pc[p] # "idle", NEW next \in PC, NEW work \in Job,
           JobOK(next, work), Argued(next, work), work.snap = job[p].snap,
           Goto(p, next, work) \/ Fail(p),
           ServerOK', UNCHANGED <<adapter, director>>, UNCHANGED faults \/ Fault
    PROVE  AllOK'
<1>1. /\ DirectorOK' /\ (job[p].snap # None => snap'[job[p].snap].state # "free")
      /\ \A s \in Snap : snap[s].state # "free" => snap'[s].state # "free"
  BY Parts, JobHere DEF DirectorOK, SnapOK, director, Asked
<1>2. CASE Goto(p, next, work)
  BY <1>1, <1>2, StepType
<1>3. CASE Fail(p)
  <2>1. Goto(p, "failed", job[p]) /\ "failed" \in PC
    BY <1>3 DEF Fail, PC
  <2>. QED
    BY <1>1, <2>1, MayEnd, JobHere, StepType
<1>. QED
  BY <1>2, <1>3

LEMMA FailType ==
    ASSUME AllOK, NEW p \in Proc, pc[p] # "idle", Fail(p),
           ServerOK', UNCHANGED <<adapter, director>>, UNCHANGED faults \/ Fault
    PROVE  AllOK'
  BY MayEnd, JobHere, RequestType

LEMMA ServerUnchanged == AllOK /\ UNCHANGED server => ServerOK'
  BY Parts DEF ServerOK, server

LEMMA ReadType ==
    ASSUME AllOK, NEW p \in Proc, pc[p] # "idle", NEW ok \in BOOLEAN, NEW next \in PC, NEW work \in Job,
           JobOK(next, work), Argued(next, work), work.snap = job[p].snap, Read(p, ok, next, work)
    PROVE  AllOK'
  BY ServerUnchanged, RequestType DEF Read, Request

\* The same, when nothing of the locals changes.
LEMMA ReadOn ==
    ASSUME AllOK, NEW p \in Proc, pc[p] # "idle", NEW ok \in BOOLEAN,
           NEW next \in PC \ {"idle", "copy_volume", "drop_source", "put_volume", "put_instance",
                              "attach_put", "detach_put"},
           job[p].vol \in Vol, Argued(next, job[p]), Read(p, ok, next, job[p])
    PROVE  AllOK'
<1>1. JobOK(next, job[p])
  BY MayEnd DEF JobOK
<1>. QED
  BY <1>1, JobHere, ReadType

LEMMA SetRead ==
    ASSUME NEW j \in Job, j.op # None, NEW r \in Size \cup (SUBSET Vol) \cup {None},
           NEW w, w = [j EXCEPT !.read = r]
    PROVE  /\ w \in Job /\ w # NoJob /\ w.op = j.op /\ w.vm = j.vm /\ w.vol = j.vol /\ w.size = j.size
           /\ w.snap = j.snap /\ w.from = j.from /\ w.read = r
  BY DEF Job, NoJob

LEMMA SetFrom ==
    ASSUME NEW j \in Job, j.op # None, NEW n \in Node \cup {None}, NEW w, w = [j EXCEPT !.from = n]
    PROVE  /\ w \in Job /\ w # NoJob /\ w.op = j.op /\ w.vm = j.vm /\ w.vol = j.vol /\ w.size = j.size
           /\ w.snap = j.snap /\ w.from = n /\ w.read = j.read
  BY DEF Job, NoJob

LEMMA SetVol ==
    ASSUME NEW j \in Job, j.op # None, NEW x \in Vol, NEW w, w = [j EXCEPT !.vol = x]
    PROVE  /\ w \in Job /\ w # NoJob /\ w.op = j.op /\ w.vm = j.vm /\ w.vol = x /\ w.size = j.size
           /\ w.snap = j.snap /\ w.from = j.from /\ w.read = j.read
  BY DEF Job, NoJob

LEMMA HereOf == ASSUME NEW x, Located(x) PROVE Here(x) \in Node /\ At(x) = {Here(x)}
<1>1. PICK n \in Node : At(x) = {n}
  BY DEF Located
<1>2. Here(x) = n
  BY <1>1 DEF Here
<1>. QED
  BY <1>1, <1>2

LEMMA CopyAt ==
    ASSUME AllOK, NEW x \in Vol, NEW n \in Node
    PROVE  (n \in At(x) <=> vols[x][n] # None) /\ (n \in At(x) => vols[x][n] \in Copy)
  BY Parts DEF At, ServerOK

LEMMA DiskVol == Disk \subseteq Vol /\ \A v \in VM : EphOf(v) \in Vol
  BY DEF Vol

\* A copy that replaces another on a member.
LEMMA PutCopyType ==
    ASSUME AllOK, NEW x \in Vol, NEW n \in Node, NEW c \in Copy \cup {None}, PutCopy(x, n, c)
    PROVE  ServerOK'
<1>1. vols \in [Vol -> [Node -> Copy \cup {None}]] /\ vols' = [vols EXCEPT ![x][n] = c]
  BY Parts DEF ServerOK, PutCopy
<1>2. vols' \in [Vol -> [Node -> Copy \cup {None}]]
  BY <1>1
<1>. QED
  BY <1>2, Parts DEF ServerOK, PutCopy

LEMMA PutDevicesType ==
    ASSUME AllOK, NEW v \in VM, NEW new \in SUBSET Vol, PutDevices(v, new)
    PROVE  ServerOK'
  BY Parts DEF PutDevices, ServerOK

LEMMA GetVolumeType == ASSUME AllOK, NEW p \in Proc, GetVolume(p) PROVE AllOK'
<1>. DEFINE x == job[p].vol  z == vols[x][Here(x)].size
            work == [job[p] EXCEPT !.read = z]
<1>1. pc[p] = "get_volume" /\ job[p] \in Job /\ x \in Vol /\ job[p].op \in Ops /\ Argued(pc[p], job[p])
  BY JobHere DEF GetVolume, JobOK, Argued
<1>2. CASE ~Located(x) /\ Read(p, FALSE, "put_volume", job[p])
  BY <1>1, <1>2, FailType, ServerUnchanged DEF Read, Request
<1>3. CASE Located(x) /\ Read(p, TRUE, "put_volume", work)
  <2>1. z \in Size
    <3>1. vols[x][Here(x)] \in Copy
      BY <1>1, <1>3, HereOf, CopyAt
    <3>. QED
      BY <3>1 DEF Copy
  <2>2. job[p].op # None
    BY <1>1
  <2>3. /\ work \in Job /\ work # NoJob /\ work.op = job[p].op /\ work.vm = job[p].vm
        /\ work.vol = x /\ work.size = job[p].size /\ work.snap = job[p].snap /\ work.read = z
    BY <1>1, <2>1, <2>2, SetRead
  <2>. HIDE DEF work
  <2>4. JobOK("put_volume", work) /\ Argued("put_volume", work) /\ "put_volume" \in PC
    BY <1>1, <2>1, <2>3 DEF JobOK, Argued, PC
  <2>. QED
    BY <1>1, <1>3, <2>3, <2>4, ReadType
<1>. QED
  BY <1>2, <1>3 DEF GetVolume

LEMMA PutVolumeType == ASSUME AllOK, NEW p \in Proc, PutVolume(p) PROVE AllOK'
<1>. DEFINE x == job[p].vol
            size == IF job[p].op = "resize_disk" THEN job[p].size ELSE job[p].read
            c == [vols[x][Here(x)] EXCEPT !.size = size]
<1>1. pc[p] = "put_volume" /\ job[p] \in Job /\ x \in Vol /\ size \in Size
  BY JobHere DEF PutVolume, JobOK, Argued
<1>2. ServerOK'
  <2>1. CASE Located(x) /\ PutCopy(x, Here(x), c)
    <3>1. vols[x][Here(x)] \in Copy /\ Here(x) \in Node
      BY <1>1, <2>1, HereOf, CopyAt
    <3>2. c \in Copy
      BY <1>1, <3>1 DEF Copy
    <3>. HIDE DEF c
    <3>. QED
      BY <1>1, <2>1, <3>1, <3>2, PutCopyType
  <2>2. CASE UNCHANGED server
    BY <2>2, ServerUnchanged
  <2>. QED
    BY <2>1, <2>2 DEF PutVolume, Request
<1>. QED
  BY <1>1, <1>2, MayEnd, RequestType DEF PutVolume, Request

LEMMA SetVMMetadataType ==
    ASSUME AllOK, NEW p \in Proc, GetInstance(p) \/ PutInstance(p) \/ GetDevices(p)
    PROVE  AllOK'
<1>. DEFINE v == job[p].vm
<1>1. /\ pc[p] \in {"get_instance", "put_instance", "get_devices"} /\ job[p] \in Job
      /\ job[p].op = "set_vm_metadata" /\ job[p].op # None /\ v \in VM
      /\ JobOK(pc[p], job[p]) /\ Argued(pc[p], job[p])
      /\ {"put_instance", "get_devices", "get_volume", "ok"} \subseteq PC
  BY JobHere DEF GetInstance, PutInstance, GetDevices, Argued, PC
<1>2. /\ devices[v] \in SUBSET Vol
      /\ devices[v] \in Size \cup (SUBSET Vol) \cup {None} /\ None \in Size \cup (SUBSET Vol) \cup {None}
  <2>1. devices \in [VM -> SUBSET Vol] /\ v \in VM
    BY <1>1, Parts DEF ServerOK
  <2>2. devices[v] \in SUBSET Vol
    BY ONLY <2>1
  <2>. HIDE DEF v
  <2>3. devices[v] \in Size \cup (SUBSET Vol) \cup {None}
    BY ONLY <2>2
  <2>4. None \in Size \cup (SUBSET Vol) \cup {None}
    BY ONLY Zenon
  <2>. QED
    BY ONLY <2>2, <2>3, <2>4
<1>3. CASE GetInstance(p)
  <2>. DEFINE work == [job[p] EXCEPT !.read = devices[v]]
  <2>1. /\ work \in Job /\ work # NoJob /\ work.op = job[p].op /\ work.vm = v /\ work.snap = job[p].snap
        /\ work.read = devices[v] /\ work.vol = job[p].vol /\ work.size = job[p].size
    BY ONLY <1>1, <1>2, SetRead
  <2>. HIDE DEF work
  <2>2. JobOK("put_instance", work) /\ Argued("put_instance", work)
    BY <1>1, <1>2, <2>1 DEF JobOK, Argued
  <2>. QED
    BY <1>1, <1>3, <2>1, <2>2, ReadType DEF GetInstance, work
<1>4. CASE PutInstance(p)
  <2>1. job[p].read \in SUBSET Vol
    BY <1>1, <1>4 DEF PutInstance, JobOK
  <2>2. ServerOK'
    BY <1>1, <1>4, <2>1, PutDevicesType, ServerUnchanged DEF PutInstance, Request
  <2>3. JobOK("get_devices", job[p]) /\ Argued("get_devices", job[p])
    BY <1>1, <1>4, MayEnd DEF PutInstance, JobOK, Argued
  <2>. QED
    BY <1>1, <1>4, <2>2, <2>3, RequestType DEF PutInstance, Request
<1>5. CASE GetDevices(p)
  <2>. DEFINE bare == [job[p] EXCEPT !.read = None]
              work == [bare EXCEPT !.vol = EphOf(v)]
  <2>1. /\ bare \in Job /\ bare # NoJob /\ bare.op = job[p].op /\ bare.vm = v /\ bare.snap = job[p].snap
        /\ bare.vol = job[p].vol /\ bare.size = job[p].size
    BY ONLY <1>1, <1>2, SetRead
  <2>. HIDE DEF bare
  <2>2. bare.op # None /\ EphOf(v) \in Vol
    BY <1>1, <2>1, DiskVol
  <2>3. /\ work \in Job /\ work # NoJob /\ work.op = job[p].op /\ work.vm = v /\ work.snap = job[p].snap
        /\ work.vol = EphOf(v) /\ work.size = job[p].size
    BY <2>1, <2>2, SetVol
  <2>4. \/ Read(p, TRUE, "get_volume", work)
        \/ Read(p, TRUE, "ok", bare)
    BY <1>5 DEF GetDevices, bare
  <2>. HIDE DEF work
  <2>5. JobOK("get_volume", work) /\ Argued("get_volume", work) /\ JobOK("ok", bare) /\ Argued("ok", bare)
    BY <1>1, <2>1, <2>2, <2>3 DEF JobOK, Argued
  <2>. QED
    BY <1>1, <2>1, <2>3, <2>4, <2>5, ReadType
<1>. QED
  BY <1>3, <1>4, <1>5

LEMMA SnapshotType ==
    ASSUME AllOK, NEW p \in Proc,
           CreateSnapshot(p) \/ GetSnapshot(p) \/ DescribeSnapshot(p) \/ DeleteSnapshot(p)
    PROVE  AllOK'
<1>. DEFINE x == job[p].vol  s == job[p].snap
<1>1. /\ pc[p] \in {"create_snapshot", "get_snapshot", "describe_snapshot", "delete_snapshot"}
      /\ job[p] \in Job /\ job[p].op \in {"snapshot_disk", "delete_snapshot"} /\ s \in Snap /\ x \in Vol
      /\ Argued(pc[p], job[p]) /\ {"get_snapshot", "describe_snapshot", "ok"} \subseteq PC
  BY JobHere DEF CreateSnapshot, GetSnapshot, DescribeSnapshot, DeleteSnapshot, JobOK, Argued, PC, Job
<1>2. pc[p] # "delete_snapshot" =>
          \A at \in {"get_snapshot", "describe_snapshot"} : Argued(at, job[p]) /\ JobOK(at, job[p])
  BY <1>1, MayEnd DEF Argued, JobOK
<1>3. ASSUME Located(x), NEW S \in SUBSET Snap, NEW c, c = [vols[x][Here(x)] EXCEPT !.snaps = S],
             PutCopy(x, Here(x), c)
      PROVE  ServerOK'
  <2>1. vols[x][Here(x)] \in Copy /\ Here(x) \in Node
    BY <1>1, <1>3, HereOf, CopyAt
  <2>2. c \in Copy
    BY <1>3, <2>1 DEF Copy
  <2>. QED
    BY <1>1, <1>3, <2>1, <2>2, PutCopyType
<1>4. Located(x) => vols[x][Here(x)].snaps \in SUBSET Snap
  BY <1>1, HereOf, CopyAt DEF Copy
<1>5. CASE CreateSnapshot(p)
  <2>1. ServerOK'
    <3>. DEFINE S == vols[x][Here(x)].snaps \cup {s}
                c == [vols[x][Here(x)] EXCEPT !.snaps = S]
    <3>1. CASE Located(x) /\ PutCopy(x, Here(x), c)
      <4>1. S \in SUBSET Snap
        BY <1>1, <1>4, <3>1
      <4>. HIDE DEF S
      <4>. QED
        BY <1>3, <3>1, <4>1
    <3>. QED
      BY <1>5, <3>1, ServerUnchanged DEF CreateSnapshot, Request
  <2>2. PICK next \in {"get_snapshot", "ok"} : Goto(p, next, job[p]) \/ Fail(p)
    BY <1>5 DEF CreateSnapshot, Request
  <2>3. JobOK(next, job[p]) /\ Argued(next, job[p])
    BY <1>1, <1>2, <1>5, MayEnd DEF CreateSnapshot
  <2>. QED
    BY <1>1, <1>5, <2>1, <2>2, <2>3, RequestType DEF CreateSnapshot, Request
<1>6. CASE GetSnapshot(p)
  BY <1>1, <1>2, <1>6, RequestType, ServerUnchanged DEF GetSnapshot, Read, Request
<1>7. CASE DescribeSnapshot(p)
  BY <1>1, <1>7, MayEnd, RequestType, ServerUnchanged DEF DescribeSnapshot, Read, Request
<1>8. CASE DeleteSnapshot(p)
  <2>1. ServerOK'
    <3>. DEFINE S == vols[x][Here(x)].snaps \ {s}
                c == [vols[x][Here(x)] EXCEPT !.snaps = S]
    <3>1. CASE Located(x) /\ PutCopy(x, Here(x), c)
      <4>1. S \in SUBSET Snap
        BY <1>1, <1>4, <3>1
      <4>. HIDE DEF S
      <4>. QED
        BY <1>3, <3>1, <4>1
    <3>. QED
      BY <1>8, <3>1, ServerUnchanged DEF DeleteSnapshot, Request, HasSnapshot
  <2>. QED
    BY <1>1, <1>8, <2>1, MayEnd, RequestType DEF DeleteSnapshot, Request
<1>. QED
  BY <1>5, <1>6, <1>7, <1>8

LEMMA ColocateType == ASSUME AllOK, NEW p \in Proc, Colocate(p) PROVE AllOK'
<1>. DEFINE x == job[p].vol  n == Here(x)
            work == [job[p] EXCEPT !.from = n]
<1>1. /\ pc[p] = "colocate" /\ job[p] \in Job /\ job[p].op = "attach_disk" /\ job[p].op # None
      /\ x \in Vol /\ JobOK(pc[p], job[p]) /\ Argued(pc[p], job[p])
      /\ {"attach_get", "copy_volume"} \subseteq PC
  BY JobHere DEF Colocate, JobOK, Argued, PC
<1>2. CASE Read(p, TRUE, "attach_get", job[p]) \/ Read(p, FALSE, "attach_get", job[p])
  <2>1. Argued("attach_get", job[p])
    BY <1>1 DEF Argued
  <2>. QED
    BY <1>1, <1>2, <2>1, ReadOn
<1>3. CASE Located(x) /\ Read(p, TRUE, "copy_volume", work)
  <2>1. n \in Node
    BY <1>3, HereOf
  <2>2. /\ work \in Job /\ work # NoJob /\ work.op = job[p].op /\ work.vm = job[p].vm
        /\ work.vol = x /\ work.size = job[p].size /\ work.snap = job[p].snap /\ work.from = n
    BY ONLY <1>1, <2>1, SetFrom
  <2>. HIDE DEF work
  <2>3. JobOK("copy_volume", work) /\ Argued("copy_volume", work)
    BY <1>1, <2>1, <2>2 DEF JobOK, Argued
  <2>. QED
    BY <1>1, <1>3, <2>2, <2>3, ReadType
<1>. QED
  BY <1>2, <1>3 DEF Colocate

LEMMA MoveType == ASSUME AllOK, NEW p \in Proc, CopyVolume(p) \/ DropSource(p) PROVE AllOK'
<1>. DEFINE x == job[p].vol  n == job[p].from  to == host[job[p].vm]
<1>1. /\ pc[p] \in {"copy_volume", "drop_source"} /\ job[p] \in Job /\ job[p].op = "attach_disk"
      /\ x \in Vol /\ n \in Node /\ job[p].vm \in VM /\ JobOK(pc[p], job[p]) /\ Argued(pc[p], job[p])
      /\ {"drop_source", "attach_get"} \subseteq PC
  BY JobHere DEF CopyVolume, DropSource, JobOK, Argued, PC
<1>2. to \in Node /\ vols[x][n] \in Copy \cup {None}
  BY <1>1, Parts DEF ServerOK
<1>3. /\ JobOK("drop_source", job[p]) /\ Argued("drop_source", job[p])
      /\ JobOK("attach_get", job[p]) /\ Argued("attach_get", job[p])
  BY <1>1, MayEnd DEF JobOK, Argued
<1>4. ServerOK'
  BY <1>1, <1>2, PutCopyType, ServerUnchanged DEF CopyVolume, DropSource, Request
<1>. QED
  BY <1>1, <1>3, <1>4, RequestType DEF CopyVolume, DropSource, Request

LEMMA DevicesType ==
    ASSUME AllOK, NEW p \in Proc, AttachGet(p) \/ AttachPut(p) \/ DetachGet(p) \/ DetachPut(p)
    PROVE  AllOK'
<1>. DEFINE v == job[p].vm  x == job[p].vol
<1>1. /\ pc[p] \in {"attach_get", "attach_put", "detach_get", "detach_put"} /\ job[p] \in Job
      /\ job[p].op # None /\ v \in VM /\ x \in Vol /\ JobOK(pc[p], job[p]) /\ Argued(pc[p], job[p])
      /\ {"attach_put", "detach_put", "ok"} \subseteq PC
  BY JobHere DEF AttachGet, AttachPut, DetachGet, DetachPut, JobOK, Argued, PC
<1>2. devices[v] \in SUBSET Vol
  BY <1>1, Parts DEF ServerOK
<1>3. devices[v] \in Size \cup (SUBSET Vol) \cup {None} /\ None \in Node \cup {None}
  <2>. HIDE DEF v
  <2>. QED
    BY ONLY <1>2
<1>4. CASE AttachGet(p)
  <2>. DEFINE bare == [job[p] EXCEPT !.from = None]
              work == [job[p] EXCEPT !.from = None, !.read = devices[v]]
  <2>1. /\ bare \in Job /\ bare # NoJob /\ bare.op = job[p].op /\ bare.vm = v /\ bare.vol = x
        /\ bare.size = job[p].size /\ bare.snap = job[p].snap
    BY ONLY <1>1, <1>3, SetFrom
  <2>2. work = [bare EXCEPT !.read = devices[v]]
    OBVIOUS
  <2>. HIDE DEF bare, work
  <2>3. /\ work \in Job /\ work # NoJob /\ work.op = job[p].op /\ work.vm = v /\ work.vol = x
        /\ work.size = job[p].size /\ work.snap = job[p].snap /\ work.read = devices[v]
    BY ONLY <1>1, <1>3, <2>1, <2>2, SetRead
  <2>4. JobOK("attach_put", work) /\ Argued("attach_put", work)
    BY <1>1, <1>2, <1>4, <2>3 DEF AttachGet, JobOK, Argued
  <2>. QED
    BY <1>1, <1>4, <2>3, <2>4, ReadType DEF AttachGet, work
<1>5. CASE DetachGet(p)
  <2>. DEFINE work == [job[p] EXCEPT !.read = devices[v]]
  <2>1. /\ work \in Job /\ work # NoJob /\ work.op = job[p].op /\ work.vm = v /\ work.vol = x
        /\ work.size = job[p].size /\ work.snap = job[p].snap /\ work.read = devices[v]
    BY ONLY <1>1, <1>3, SetRead
  <2>. HIDE DEF work
  <2>2. \A at \in {"detach_put", "ok"} : JobOK(at, work) /\ Argued(at, work)
    BY <1>1, <1>2, <1>5, <2>1 DEF DetachGet, JobOK, Argued
  <2>3. PICK next \in {"detach_put", "ok"} : Read(p, TRUE, next, work)
    BY <1>5 DEF DetachGet, work
  <2>. QED
    BY <1>1, <2>1, <2>2, <2>3, ReadType
<1>6. CASE AttachPut(p)
  <2>1. job[p].read \cup {x} \in SUBSET Vol
    BY <1>1, <1>6 DEF AttachPut, JobOK
  <2>2. ServerOK'
    BY <1>1, <1>6, <2>1, PutDevicesType, ServerUnchanged DEF AttachPut, Request
  <2>. QED
    BY <1>1, <1>6, <2>2, MayEnd, RequestType DEF AttachPut, Request
<1>7. CASE DetachPut(p)
  <2>1. job[p].read \ {x} \in SUBSET Vol
    BY <1>1, <1>7 DEF DetachPut, JobOK
  <2>2. ServerOK'
    BY <1>1, <1>7, <2>1, PutDevicesType, ServerUnchanged DEF DetachPut, Request
  <2>. QED
    BY <1>1, <1>7, <2>2, MayEnd, RequestType DEF DetachPut, Request
<1>. QED
  BY <1>4, <1>5, <1>6, <1>7

LEMMA StepTypes == ASSUME AllOK, NEW p \in Proc, Step(p), ~Reply(p) PROVE AllOK'
  BY GetVolumeType, PutVolumeType, SetVMMetadataType, SnapshotType, ColocateType, MoveType,
     DevicesType DEF Step

LEMMA Starts == \A op \in Ops : Start[op] \in PC \ {"idle", "copy_volume", "drop_source",
                    "put_volume", "put_instance", "attach_put", "detach_put"}
  BY DEF Ops, Start, PC

LEMMA CallType ==
    ASSUME AllOK, NEW p \in Proc, NEW op \in Ops, NEW v \in VM \cup {None}, NEW x \in Disk \cup {None},
           NEW size \in Size \cup {None}, NEW s \in Snap \cup {None},
           op = "resize_disk" => size \in Size,
           op \in {"set_vm_metadata", "attach_disk", "detach_disk"} => v \in VM,
           op # "set_vm_metadata" => x \in Disk,
           op \in {"snapshot_disk", "delete_snapshot"} <=> s # None,
           Call(p, op, v, x, size, s), DirectorOK',
           s # None => snap'[s].state # "free",
           \A t \in Snap : snap[t].state # "free" => snap'[t].state # "free"
    PROVE  AllOK'
<1>0. PICK w : w = [NoJob EXCEPT !.op = op, !.vm = v, !.vol = x, !.size = size, !.snap = s]
  OBVIOUS
<1>1. /\ w \in Job /\ w # NoJob /\ w.op = op /\ w.vm = v /\ w.vol = x /\ w.size = size
      /\ w.snap = s
  <2>1. x \in Vol \cup {None}
    BY DiskVol
  <2>. QED
    BY <1>0, <2>1 DEF Job, NoJob
<1>2. Goto(p, Start[op], w) /\ UNCHANGED <<adapter, server, faults>>
  BY <1>0 DEF Call
<1>3. JobOK(Start[op], w)
  BY <1>1, Starts, DiskVol DEF JobOK, Ops, Start
<1>4. Argued(Start[op], w)
  BY <1>1, Starts DEF Argued, Ops, Start
<1>5. ServerOK'
  BY <1>2, ServerUnchanged
<1>. QED
  BY <1>1, <1>2, <1>3, <1>4, <1>5, Starts, StepType

LEMMA DirectorType == ASSUME AllOK, NEW p \in Proc, Director(p) PROVE AllOK'
<1>1. DirectorOK /\ Ops = {"resize_disk", "set_disk_metadata", "set_vm_metadata", "snapshot_disk",
          "delete_snapshot", "attach_disk", "detach_disk"}
  BY Parts DEF Ops, Start
<1>2. CASE CallSetMetadata(p)
  <2>1. DirectorOK' /\ UNCHANGED snap
    BY <1>1, <1>2 DEF CallSetMetadata, DirectorOK, SnapOK, director
  <2>. QED
    BY <1>1, <1>2, <2>1, CallType DEF CallSetMetadata
<1>3. ASSUME NEW d \in Disk, NEW size \in Size, CallResizeDisk(p, d, size) PROVE AllOK'
  <2>1. DirectorOK' /\ UNCHANGED snap
    BY <1>1, <1>3 DEF CallResizeDisk, DirectorOK, SnapOK
  <2>. QED
    BY <1>1, <1>3, <2>1, CallType DEF CallResizeDisk
<1>4. ASSUME NEW d \in Disk, NEW s \in Snap, CallSnapshotDisk(p, d, s) PROVE AllOK'
  <2>1. DirectorOK' /\ \A t \in Snap : snap[t].state # "free" \/ t = s => snap'[t].state # "free"
    BY <1>1, <1>4 DEF CallSnapshotDisk, DirectorOK, SnapOK
  <2>. QED
    BY <1>1, <1>4, <2>1, CallType DEF CallSnapshotDisk
<1>5. ASSUME NEW d \in Disk, NEW v \in VM, CallDisk(p, d, v) PROVE AllOK'
  <2>1. DirectorOK' /\ UNCHANGED snap
    BY <1>1, <1>5 DEF CallDisk, DirectorOK, SnapOK
  <2>. QED
    BY <1>1, <1>5, <2>1, CallType DEF CallDisk
<1>6. ASSUME NEW s \in Snap, CallDeleteSnapshot(p, s) PROVE AllOK'
  <2>1. snap[s].disk \in Disk
    BY <1>1, <1>6 DEF CallDeleteSnapshot, DirectorOK, SnapOK
  <2>2. DirectorOK' /\ \A t \in Snap : snap[t].state # "free" \/ t = s => snap'[t].state # "free"
    BY <1>1, <1>6 DEF CallDeleteSnapshot, DirectorOK, SnapOK
  <2>. QED
    BY <1>1, <1>6, <2>1, <2>2, CallType DEF CallDeleteSnapshot
<1>. QED
  BY <1>2, <1>3, <1>4, <1>5, <1>6 DEF Director

LEMMA EndType ==
    ASSUME AllOK, NEW p \in Proc, NEW good \in BOOLEAN, Conclude(job[p], good), Goto(p, "idle", NoJob),
           UNCHANGED <<adapter, server>>, UNCHANGED faults \/ Fault
    PROVE  AllOK'
<1>. DEFINE j == job[p]
<1>1. j \in Job /\ Asked(p) /\ (j.op = "resize_disk" => j.size \in Size) /\ DirectorOK
  BY JobHere, Parts DEF Argued
<1>2. \A s \in Snap : /\ snap[s].state # "free" => snap'[s].state # "free"
                       /\ snap'[s].disk = snap[s].disk
  BY <1>1 DEF Conclude, DirectorOK, Job, Asked
<1>3. snap' \in [Snap -> [state : {"free", "pending", "known", "failed", "deleted"},
                          disk : Disk \cup {None}]]
  BY <1>1 DEF Conclude, DirectorOK, Job
<1>4. owner' \in [Disk -> VM \cup {None}] /\ resized' \in [Disk -> Size \cup {None}]
  BY <1>1 DEF Conclude, DirectorOK
<1>5. SnapOK'
  <2>1. \A s \in Snap : snap'[s].state # "free" => snap[s].state # "free"
    BY <1>1 DEF Conclude, DirectorOK, Job, Asked
  <2>. QED
    BY <1>1, <1>2, <2>1 DEF SnapOK, DirectorOK
<1>6. "idle" \in PC /\ NoJob \in Job /\ JobOK("idle", NoJob) /\ Argued("idle", NoJob) /\ NoJob.snap = None
  BY DEF PC, Job, NoJob, JobOK, Argued, Ops, Start
<1>7. ServerOK' /\ DirectorOK'
  BY <1>3, <1>4, <1>5, ServerUnchanged DEF DirectorOK
<1>. QED
  BY <1>2, <1>6, <1>7, StepType

LEMMA NextType == AllOK /\ [Next]_vars => AllOK'
<1>. SUFFICES ASSUME AllOK, [Next]_vars PROVE AllOK'
  OBVIOUS
<1>1. CASE UNCHANGED vars
  BY <1>1 DEF vars, server, director, AllOK, TypeOK, SnapOK, Asked
<1>2. ASSUME NEW p \in Proc, Step(p) PROVE AllOK'
  BY <1>2, StepTypes, EndType DEF Reply
<1>3. ASSUME NEW p \in Proc, Crash(p) PROVE AllOK'
  BY <1>3, EndType DEF Crash
<1>. QED
  BY <1>1, <1>2, <1>3, DirectorType DEF Next

LEMMA InitType == Init => AllOK
<1>. SUFFICES ASSUME Init PROVE AllOK
  OBVIOUS
<1>1. ServerOK
  <2>1. devices \in [VM -> SUBSET Vol]
    BY DiskVol DEF Init
  <2>2. \A size \in Size : [size |-> size, snaps |-> {}] \in Copy
    BY DEF Copy
  <2>3. vols \in [Vol -> [Node -> Copy \cup {None}]]
    BY <2>2 DEF Init
  <2>. QED
    BY <2>1, <2>3 DEF Init, ServerOK
<1>2. DirectorOK /\ pc \in [Proc -> PC] /\ job \in [Proc -> Job] /\ faults \in 0..MaxFaults
  BY DEF Init, DirectorOK, SnapOK, PC, Job, NoJob
<1>3. \A p \in Proc : JobOK(pc[p], job[p]) /\ Argued(pc[p], job[p]) /\ Asked(p)
  <2>. SUFFICES ASSUME NEW p \in Proc PROVE JobOK("idle", NoJob) /\ Argued("idle", NoJob) /\ NoJob.snap = None
    BY DEF Init, Asked
  <2>. QED
    BY DEF JobOK, Argued, NoJob, Ops, Start
<1>. QED
  BY <1>1, <1>2, <1>3 DEF AllOK, TypeOK, Init, ServerOK, DirectorOK

\* Every step leaves the sizes, snapshots, device tables and calls well formed.
THEOREM TypeCorrect == Spec => []TypeOK
<1>1. AllOK => TypeOK
  BY DEF AllOK
<1>. QED
  BY <1>1, InitType, NextType, PTL DEF Spec

-----------------------------------------------------------------------------
(* What a disk holds.  Its copies are equal, also while it moves; a change needs the one  *)
(* copy it names, and no other call of the same kind works on the same disk or snapshot. *)

Sized(x, size) == \A n \in At(x) : vols[x][n].size = size
HasAll(x, s) == At(x) # {} /\ \A n \in At(x) : s \in vols[x][n].snaps
Gone(s) == \A x \in Vol : \A n \in At(x) : s \notin vols[x][n].snaps

Same == \A x \in Vol : \A n, m \in At(x) : vols[x][n] = vols[x][m]

\* A snapshot is on the disk it was taken of.
SnapOn == \A x \in Vol : \A n \in At(x) : \A s \in vols[x][n].snaps :
    snap[s].state # "free" /\ snap[s].disk = x

\* What a call has brought about.
Done(p) ==
    /\ job[p].op = "resize_disk" /\ pc[p] = "ok" => Sized(job[p].vol, job[p].size)
    /\ job[p].op = "snapshot_disk" /\ pc[p] \in {"get_snapshot", "describe_snapshot", "ok"} =>
           HasAll(job[p].vol, job[p].snap)
    /\ job[p].op = "delete_snapshot" /\ pc[p] = "ok" => Gone(job[p].snap)

\* A move goes to the VM's member, and drops its source when the copy is there.
Moves(p) ==
    /\ pc[p] \in {"copy_volume", "drop_source"} => job[p].from # host[job[p].vm]
    /\ pc[p] = "drop_source" => vols[job[p].vol][host[job[p].vm]] # None

\* The director waits for the answer about a snapshot.
Working(p) == job[p].snap # None =>
    snap[job[p].snap].state = "pending" /\ snap[job[p].snap].disk = job[p].vol

Alone(p, q) == p # q =>
    /\ job[p].op = job[q].op /\ job[p].op \in {"resize_disk", "attach_disk"} => job[p].vol # job[q].vol
    /\ job[p].snap # None => job[p].snap # job[q].snap

Resized == \A d \in Disk : resized[d] # None =>
    Sized(d, resized[d]) /\ \A p \in Proc : job[p].op = "resize_disk" => job[p].vol # d

Calls == /\ \A p \in Proc : Done(p) /\ Moves(p) /\ Working(p)
         /\ \A p, q \in Proc : Alone(p, q)

VolInv == AllOK /\ Same /\ SnapOn /\ Calls /\ Resized /\ SnapshotsKept /\ SnapshotsGone

(* What a request of p leaves as it was *)

Onward(p) ==
    /\ UNCHANGED <<adapter, host, director>>
    /\ \A q \in Proc \ {p} : pc'[q] = pc[q] /\ job'[q] = job[q]
    /\ job'[p].op = job[p].op /\ job'[p].vm = job[p].vm /\ job'[p].size = job[p].size
    /\ job'[p].snap = job[p].snap
    /\ job[p].op # "set_vm_metadata" => job'[p].vol = job[p].vol

Keeps(p) ==
    /\ \A x \in Vol, size \in Size : Sized(x, size) =>
           Sized(x, size)' \/ (job[p].op = "resize_disk" /\ job[p].vol = x)
    /\ \A x \in Vol, s \in Snap : HasAll(x, s) =>
           HasAll(x, s)' \/ (job[p].op = "delete_snapshot" /\ job[p].snap = s)
    /\ \A s \in Snap : Gone(s) => Gone(s)' \/ (job[p].op = "snapshot_disk" /\ job[p].snap = s)
    /\ \A x \in Vol, n \in Node : vols[x][n] # None =>
           vols'[x][n] # None \/ (job[p].op = "attach_disk" /\ job[p].vol = x)
    /\ Same'
    /\ \A x \in Vol : \A n \in At(x)' : \A s \in vols'[x][n].snaps :
           \/ \E m \in At(x) : s \in vols[x][m].snaps
           \/ job[p].op = "snapshot_disk" /\ job[p].snap = s /\ job[p].vol = x

\* The copies of a disk after a step are copies that it had, and one stays.
Shuffled == \A x \in Vol :
    /\ At(x) # {} => At(x)' # {}
    /\ \A n \in At(x)' : \E m \in At(x) : vols'[x][n] = vols[x][m]

LEMMA OnwardOf ==
    ASSUME AllOK, NEW p \in Proc, NEW next, NEW work, Goto(p, next, work) \/ Fail(p),
           UNCHANGED <<adapter, host, director>>,
           work.op = job[p].op, work.vm = job[p].vm, work.size = job[p].size, work.snap = job[p].snap,
           job[p].op # "set_vm_metadata" => work.vol = job[p].vol
    PROVE  Onward(p)
  BY DEF AllOK, TypeOK, Goto, Fail, Onward

LEMMA ShuffledKeeps ==
    ASSUME Same, Shuffled, NEW p \in Proc,
           \A x \in Vol, n \in Node : vols[x][n] # None =>
               vols'[x][n] # None \/ (job[p].op = "attach_disk" /\ job[p].vol = x)
    PROVE  Keeps(p)
<1>1. \A x \in Vol, size \in Size : Sized(x, size) => Sized(x, size)'
  BY DEF Shuffled, Sized
<1>2. \A x \in Vol, s \in Snap : HasAll(x, s) => HasAll(x, s)'
  BY DEF Shuffled, HasAll
<1>3. \A s \in Snap : Gone(s) => Gone(s)'
  BY DEF Shuffled, Gone
<1>4. Same'
  BY DEF Shuffled, Same
<1>5. \A x \in Vol : \A n \in At(x)' : \A s \in vols'[x][n].snaps : \E m \in At(x) : s \in vols[x][m].snaps
  BY DEF Shuffled
<1>. QED
  BY <1>1, <1>2, <1>3, <1>4, <1>5 DEF Keeps

LEMMA QuietKeeps == ASSUME Same, UNCHANGED vols, NEW p \in Proc PROVE Keeps(p)
<1>1. Shuffled
  BY DEF Shuffled, At
<1>. QED
  BY <1>1, ShuffledKeeps

\* The one copy of a volume is replaced.
LEMMA UpdateOf ==
    ASSUME AllOK, NEW x \in Vol, Located(x), NEW c \in Copy, PutCopy(x, Here(x), c)
    PROVE  /\ \A y \in Vol : At(y)' = At(y) /\ (y # x => vols'[y] = vols[y])
           /\ At(x) = {Here(x)} /\ vols'[x][Here(x)] = c
           /\ host' = host /\ Here(x) \in Node
           /\ vols[x][Here(x)] \in Copy
<1>1. Here(x) \in Node /\ At(x) = {Here(x)} /\ c # None
  BY HereOf DEF Copy
<1>2. vols \in [Vol -> [Node -> Copy \cup {None}]] /\ vols' = [vols EXCEPT ![x][Here(x)] = c] /\ host' = host
  BY Parts DEF ServerOK, PutCopy
<1>3. vols'[x][Here(x)] = c /\ \A y \in Vol : y # x => vols'[y] = vols[y]
  BY <1>1, <1>2
<1>4. \A n \in Node : n # Here(x) => vols'[x][n] = vols[x][n]
  BY <1>1, <1>2
<1>5. vols[x][Here(x)] # None /\ vols[x][Here(x)] \in Copy
  BY <1>1, CopyAt
<1>6. At(x)' = At(x)
  BY <1>1, <1>3, <1>4, <1>5 DEF At
<1>7. \A y \in Vol : y # x => At(y)' = At(y)
  BY <1>3 DEF At
<1>. QED
  BY <1>1, <1>2, <1>3, <1>5, <1>6, <1>7

(* What each request brings about *)

Advances(p) == Onward(p) /\ Keeps(p) /\ Done(p)' /\ Moves(p)'

\* Where a request leaves a call.
LEMMA LandsAt ==
    ASSUME AllOK, NEW p \in Proc, NEW next, NEW work, Goto(p, next, work) \/ Fail(p)
    PROVE  (pc'[p] = next /\ job'[p] = work) \/ (pc'[p] = "failed" /\ job'[p] = job[p])
  BY DEF AllOK, TypeOK, Goto, Fail

\* A request that changes no volume, of a call that promises nothing when it ends there.
LEMMA QuietAdvances ==
    ASSUME VolInv, NEW p \in Proc, UNCHANGED <<host, vols>>, Onward(p),
           pc'[p] \notin {"copy_volume", "drop_source"},
           \/ pc'[p] \notin {"get_snapshot", "describe_snapshot", "ok"}
           \/ job[p].op \notin {"resize_disk", "snapshot_disk", "delete_snapshot"}
    PROVE  Advances(p)
  BY QuietKeeps DEF VolInv, Onward, Advances, Done, Moves

LEMMA RecordsAdvance ==
    ASSUME VolInv, NEW p \in Proc,
           \/ GetVolume(p) \/ GetInstance(p) \/ PutInstance(p) \/ GetDevices(p)
           \/ AttachGet(p) \/ AttachPut(p) \/ DetachGet(p) \/ DetachPut(p)
    PROVE  Advances(p)
<1>1. AllOK /\ job[p] \in Job /\ Argued(pc[p], job[p])
  BY JobHere DEF VolInv
<1>2. UNCHANGED <<adapter, host, vols, director>>
  BY DEF GetVolume, GetInstance, PutInstance, GetDevices, AttachGet, AttachPut, DetachGet, DetachPut,
         Read, Request, PutDevices, server
<1>3. PICK next, work :
          /\ next \in {"put_volume", "put_instance", "get_devices", "get_volume", "attach_put",
                       "detach_put", "ok"}
          /\ Goto(p, next, work) \/ Fail(p)
          /\ next = "ok" => job[p].op \in {"set_vm_metadata", "attach_disk", "detach_disk"}
          /\ work.op = job[p].op /\ work.vm = job[p].vm /\ work.size = job[p].size
          /\ work.snap = job[p].snap /\ (job[p].op # "set_vm_metadata" => work.vol = job[p].vol)
  <2>1. CASE GetVolume(p)
    BY <1>1, <2>1 DEF GetVolume, Read, Request, Job
  <2>2. CASE GetInstance(p)
    BY <1>1, <2>2 DEF GetInstance, Read, Request, Job
  <2>3. CASE PutInstance(p)
    BY <1>1, <2>3 DEF PutInstance, Read, Request, Job
  <2>4. CASE GetDevices(p)
    <3>. DEFINE bare == [job[p] EXCEPT !.read = None]
                full == [bare EXCEPT !.vol = EphOf(job[p].vm)]
    <3>1. job[p].op = "set_vm_metadata"
      BY <1>1, <2>4 DEF GetDevices, Argued
    <3>2. \/ Goto(p, "get_volume", full) \/ Fail(p)
          \/ Goto(p, "ok", bare)
      BY <2>4 DEF GetDevices, Read, Request
    <3>3. \A w \in {bare, full} : w.op = job[p].op /\ w.vm = job[p].vm /\ w.size = job[p].size
                                 /\ w.snap = job[p].snap
      BY <1>1 DEF Job
    <3>. HIDE DEF bare, full
    <3>4. CASE Goto(p, "get_volume", full) \/ Fail(p)
      BY ONLY <3>1, <3>3, <3>4
    <3>5. CASE Goto(p, "ok", bare)
      BY ONLY <3>1, <3>3, <3>5
    <3>. QED
      BY ONLY <3>2, <3>4, <3>5
  <2>5. CASE AttachGet(p)
    <3>. DEFINE full == [job[p] EXCEPT !.from = None, !.read = devices[job[p].vm]]
    <3>1. Goto(p, "attach_put", full) \/ Fail(p)
      BY <2>5 DEF AttachGet, Read, Request
    <3>2. /\ full.op = job[p].op /\ full.vm = job[p].vm /\ full.size = job[p].size
          /\ full.snap = job[p].snap /\ full.vol = job[p].vol
      BY <1>1 DEF Job
    <3>. HIDE DEF full
    <3>. QED
      BY ONLY <3>1, <3>2
  <2>6. CASE AttachPut(p)
    BY <1>1, <2>6 DEF AttachPut, Read, Request, Argued
  <2>7. CASE DetachGet(p)
    BY <1>1, <2>7 DEF DetachGet, Read, Request, Job, Argued
  <2>8. CASE DetachPut(p)
    BY <1>1, <2>8 DEF DetachPut, Read, Request, Argued
  <2>. QED
    BY <2>1, <2>2, <2>3, <2>4, <2>5, <2>6, <2>7, <2>8
<1>4. Onward(p)
  BY <1>1, <1>2, <1>3, OnwardOf
<1>5. pc'[p] = next \/ pc'[p] = "failed"
  BY <1>1, <1>3, LandsAt
<1>. QED
  BY <1>2, <1>3, <1>4, <1>5, QuietAdvances

LEMMA ColocateAdvances == ASSUME VolInv, NEW p \in Proc, Colocate(p) PROVE Advances(p)
<1>. DEFINE n == Here(job[p].vol)
            work == [job[p] EXCEPT !.from = n]
<1>1. AllOK /\ job[p] \in Job /\ job[p].op = "attach_disk"
  BY JobHere DEF VolInv, Colocate, Argued
<1>2. UNCHANGED <<adapter, host, vols, director>>
  BY DEF Colocate, Read, Request, server
<1>3. CASE Goto(p, "attach_get", job[p]) \/ Fail(p)
  <2>1. Onward(p) /\ pc'[p] \in {"attach_get", "failed"}
    BY <1>1, <1>2, <1>3, OnwardOf, LandsAt
  <2>. QED
    BY <1>1, <1>2, <2>1, QuietAdvances
<1>4. CASE Goto(p, "copy_volume", work) /\ n # host[job[p].vm]
  <2>1. /\ work.op = job[p].op /\ work.vm = job[p].vm /\ work.size = job[p].size
        /\ work.snap = job[p].snap /\ work.vol = job[p].vol /\ work.from = n
    BY <1>1 DEF Job
  <2>. HIDE DEF work
  <2>2. Onward(p) /\ pc'[p] = "copy_volume" /\ job'[p] = work
    BY <1>1, <1>2, <1>4, <2>1, OnwardOf DEF Goto, AllOK, TypeOK
  <2>3. Done(p)' /\ Moves(p)'
    BY <1>1, <1>2, <1>4, <2>1, <2>2 DEF Done, Moves
  <2>. QED
    BY <1>2, <2>2, <2>3, QuietKeeps DEF VolInv, Advances
<1>. QED
  BY <1>3, <1>4 DEF Colocate, Read, Request

LEMMA DescribeAdvances ==
    ASSUME VolInv, NEW p \in Proc, GetSnapshot(p) \/ DescribeSnapshot(p)
    PROVE  Advances(p)
<1>1. AllOK /\ job[p] \in Job /\ job[p].op = "snapshot_disk"
  BY JobHere DEF VolInv, GetSnapshot, DescribeSnapshot, Argued
<1>2. UNCHANGED <<adapter, host, vols, director>>
  BY DEF GetSnapshot, DescribeSnapshot, Read, Request, server
<1>3. PICK next \in {"describe_snapshot", "ok"} : Goto(p, next, job[p]) \/ Fail(p)
  BY DEF GetSnapshot, DescribeSnapshot, Read, Request
<1>4. Onward(p) /\ pc'[p] \in {"describe_snapshot", "ok", "failed"} /\ job'[p] = job[p]
  BY <1>1, <1>2, <1>3, OnwardOf, LandsAt
<1>5. HasAll(job[p].vol, job[p].snap)
  BY <1>1 DEF VolInv, Calls, Done, GetSnapshot, DescribeSnapshot
<1>6. HasAll(job[p].vol, job[p].snap)'
  BY <1>2, <1>4, <1>5 DEF HasAll, At
<1>7. Done(p)' /\ Moves(p)'
  BY <1>1, <1>4, <1>6 DEF Done, Moves
<1>. QED
  BY <1>2, <1>4, <1>7, QuietKeeps DEF VolInv, Advances

\* A request that failed without effect.
LEMMA FailAdvances ==
    ASSUME VolInv, NEW p \in Proc, Fail(p), UNCHANGED <<adapter, host, vols, director>>
    PROVE  Advances(p)
<1>1. AllOK
  BY DEF VolInv
<1>2. Onward(p) /\ pc'[p] = "failed"
  BY <1>1, OnwardOf, LandsAt
<1>. QED
  BY <1>2, QuietAdvances

\* A request that replaces the one copy of the disk its call is about.
LEMMA UpdateKeeps ==
    ASSUME VolInv, NEW p \in Proc, NEW x \in Vol, Located(x), NEW c \in Copy, PutCopy(x, Here(x), c),
           c.size = vols[x][Here(x)].size \/ (job[p].op = "resize_disk" /\ job[p].vol = x),
           \A s \in vols[x][Here(x)].snaps :
               s \in c.snaps \/ (job[p].op = "delete_snapshot" /\ job[p].snap = s),
           \A s \in c.snaps : \/ s \in vols[x][Here(x)].snaps
                              \/ job[p].op = "snapshot_disk" /\ job[p].snap = s /\ job[p].vol = x
    PROVE  Keeps(p)
<1>. DEFINE n == Here(x)
<1>1. AllOK
  BY DEF VolInv
<1>2. /\ \A y \in Vol : At(y)' = At(y) /\ (y # x => vols'[y] = vols[y])
      /\ At(x) = {n} /\ vols'[x][n] = c
  BY <1>1, UpdateOf
<1>. HIDE DEF n
<1>3. \A y \in Vol, size \in Size : Sized(y, size) =>
          Sized(y, size)' \/ (job[p].op = "resize_disk" /\ job[p].vol = y)
  BY <1>2 DEF Sized, n
<1>4. \A y \in Vol, s \in Snap : HasAll(y, s) =>
          HasAll(y, s)' \/ (job[p].op = "delete_snapshot" /\ job[p].snap = s)
  BY <1>2 DEF HasAll, n
<1>5. \A y \in Vol : \A m \in At(y)' : \A s \in vols'[y][m].snaps :
          \/ m \in At(y) /\ s \in vols[y][m].snaps
          \/ job[p].op = "snapshot_disk" /\ job[p].snap = s /\ job[p].vol = y
  BY <1>2 DEF n
<1>6. \A s \in Snap : Gone(s) => Gone(s)' \/ (job[p].op = "snapshot_disk" /\ job[p].snap = s)
  BY <1>5 DEF Gone
<1>7. \A y \in Vol, m \in Node : vols[y][m] # None => vols'[y][m] # None
  <2>. SUFFICES ASSUME NEW y \in Vol, NEW m \in Node, vols[y][m] # None PROVE m \in At(y)'
    BY DEF At
  <2>. QED
    BY <1>2 DEF At
<1>8. Same'
  BY <1>2 DEF Same, VolInv
<1>. QED
  BY <1>3, <1>4, <1>5, <1>6, <1>7, <1>8 DEF Keeps

LEMMA PutVolumeAdvances == ASSUME VolInv, NEW p \in Proc, PutVolume(p) PROVE Advances(p)
<1>. DEFINE x == job[p].vol  n == Here(x)
            size == IF job[p].op = "resize_disk" THEN job[p].size ELSE job[p].read
            c == [vols[x][n] EXCEPT !.size = size]
<1>1. /\ AllOK /\ x \in Vol /\ size \in Size
      /\ job[p].op \in {"resize_disk", "set_disk_metadata", "set_vm_metadata"}
  BY JobHere DEF VolInv, PutVolume, JobOK, Argued
<1>2. CASE UNCHANGED server /\ Fail(p)
  BY <1>2, FailAdvances DEF PutVolume, Request, server
<1>3. CASE /\ Located(x) /\ vols[x][n].size = job[p].read /\ PutCopy(x, n, c)
           /\ Goto(p, "ok", job[p]) \/ Fail(p)
  <2>1. vols[x][n] \in Copy
    BY <1>1, <1>3, HereOf, CopyAt
  <2>2. c \in Copy /\ c.size = size /\ c.snaps = vols[x][n].snaps
    BY <1>1, <2>1 DEF Copy
  <2>. HIDE DEF c
  <2>3. Keeps(p)
    BY <1>1, <1>3, <2>2, UpdateKeeps
  <2>4. /\ \A y \in Vol : At(y)' = At(y)
        /\ At(x) = {n} /\ vols'[x][n] = c /\ host' = host
    BY <1>1, <1>3, <2>2, UpdateOf
  <2>5. Onward(p) /\ pc'[p] \in {"ok", "failed"} /\ job'[p] = job[p]
    BY <1>1, <1>3, <2>4, OnwardOf, LandsAt DEF PutVolume, Request
  <2>6. job[p].op = "resize_disk" => Sized(x, job[p].size)'
    BY <1>1, <2>2, <2>4, <2>5 DEF Sized
  <2>7. Done(p)' /\ Moves(p)'
    BY <1>1, <2>5, <2>6 DEF Done, Moves
  <2>. QED
    BY <2>3, <2>5, <2>7 DEF Advances
<1>. QED
  BY <1>2, <1>3 DEF PutVolume, Request

LEMMA CreateSnapshotAdvances == ASSUME VolInv, NEW p \in Proc, CreateSnapshot(p) PROVE Advances(p)
<1>. DEFINE x == job[p].vol  n == Here(x)  s == job[p].snap
            c == [vols[x][n] EXCEPT !.snaps = @ \cup {s}]
<1>1. AllOK /\ x \in Vol /\ s \in Snap /\ job[p].op = "snapshot_disk"
  BY JobHere DEF VolInv, CreateSnapshot, JobOK, Argued, Job
<1>2. CASE UNCHANGED server /\ Fail(p)
  BY <1>2, FailAdvances DEF CreateSnapshot, Request, server
<1>3. CASE /\ Located(x) /\ PutCopy(x, n, c)
           /\ \E next \in {"get_snapshot", "ok"} : Goto(p, next, job[p]) \/ Fail(p)
  <2>1. vols[x][n] \in Copy
    BY <1>1, <1>3, HereOf, CopyAt
  <2>2. c \in Copy /\ c.size = vols[x][n].size /\ c.snaps = vols[x][n].snaps \cup {s}
    BY <1>1, <2>1 DEF Copy
  <2>. HIDE DEF c
  <2>3. Keeps(p)
    BY <1>1, <1>3, <2>2, UpdateKeeps
  <2>4. /\ \A y \in Vol : At(y)' = At(y)
        /\ At(x) = {n} /\ vols'[x][n] = c /\ host' = host
    BY <1>1, <1>3, <2>2, UpdateOf
  <2>5. Onward(p) /\ pc'[p] \in {"get_snapshot", "ok", "failed"} /\ job'[p] = job[p]
    BY <1>1, <1>3, <2>4, OnwardOf, LandsAt DEF CreateSnapshot, Request
  <2>6. HasAll(x, s)'
    BY <1>1, <2>2, <2>4, <2>5 DEF HasAll
  <2>7. Done(p)' /\ Moves(p)'
    BY <1>1, <2>5, <2>6 DEF Done, Moves
  <2>. QED
    BY <2>3, <2>5, <2>7 DEF Advances
<1>. QED
  BY <1>2, <1>3 DEF CreateSnapshot, Request

LEMMA DeleteSnapshotAdvances == ASSUME VolInv, NEW p \in Proc, DeleteSnapshot(p) PROVE Advances(p)
<1>. DEFINE x == job[p].vol  n == Here(x)  s == job[p].snap
            c == [vols[x][n] EXCEPT !.snaps = @ \ {s}]
<1>1. AllOK /\ x \in Vol /\ s \in Snap /\ job[p].op = "delete_snapshot"
  BY JobHere DEF VolInv, DeleteSnapshot, JobOK, Argued, Job
<1>2. CASE UNCHANGED server /\ Fail(p)
  BY <1>2, FailAdvances DEF DeleteSnapshot, Request, server
<1>3. CASE Located(x) /\ PutCopy(x, n, c) /\ (Goto(p, "ok", job[p]) \/ Fail(p))
  <2>1. vols[x][n] \in Copy
    BY <1>1, <1>3, HereOf, CopyAt
  <2>2. c \in Copy /\ c.size = vols[x][n].size /\ c.snaps = vols[x][n].snaps \ {s}
    BY <1>1, <2>1 DEF Copy
  <2>. HIDE DEF c
  <2>3. Keeps(p)
    BY <1>1, <1>3, <2>2, UpdateKeeps
  <2>4. /\ \A y \in Vol : At(y)' = At(y) /\ (y # x => vols'[y] = vols[y])
        /\ At(x) = {n} /\ vols'[x][n] = c /\ host' = host
    BY <1>1, <1>3, <2>2, UpdateOf
  <2>5. Onward(p) /\ pc'[p] \in {"ok", "failed"} /\ job'[p] = job[p]
    BY <1>1, <1>3, <2>4, OnwardOf, LandsAt DEF DeleteSnapshot, Request
  <2>6. Gone(s)'
    <3>1. snap[s].disk = x
      BY <1>1 DEF VolInv, Calls, Working
    <3>2. \A y \in Vol : y # x => \A m \in At(y) : s \notin vols[y][m].snaps
      BY <3>1 DEF VolInv, SnapOn
    <3>. SUFFICES ASSUME NEW y \in Vol, NEW m \in At(y)' PROVE s \notin vols'[y][m].snaps
      BY <2>5 DEF Gone
    <3>3. CASE y = x
      BY <1>1, <2>2, <2>4, <3>3
    <3>4. CASE y # x
      BY <2>4, <3>2, <3>4
    <3>. QED
      BY <3>3, <3>4
  <2>7. Done(p)' /\ Moves(p)'
    BY <1>1, <2>5, <2>6 DEF Done, Moves
  <2>. QED
    BY <2>3, <2>5, <2>7 DEF Advances
<1>. QED
  BY <1>2, <1>3 DEF DeleteSnapshot, Request, HasSnapshot

LEMMA CopyVolumeAdvances == ASSUME VolInv, NEW p \in Proc, CopyVolume(p) PROVE Advances(p)
<1>. DEFINE x == job[p].vol  n == job[p].from  to == host[job[p].vm]
<1>1. /\ AllOK /\ ServerOK /\ x \in Vol /\ n \in Node /\ to \in Node /\ job[p].op = "attach_disk"
      /\ n # to
  BY JobHere, Parts DEF VolInv, CopyVolume, JobOK, Argued, ServerOK, Calls, Moves
<1>2. CASE UNCHANGED server /\ Fail(p)
  BY <1>2, FailAdvances DEF CopyVolume, Request, server
<1>3. CASE /\ vols[x][n] # None /\ PutCopy(x, to, vols[x][n])
           /\ Goto(p, "drop_source", job[p]) \/ Fail(p)
  <2>1. /\ \A y \in Vol : y # x => vols'[y] = vols[y]
        /\ \A m \in Node : m # to => vols'[x][m] = vols[x][m]
        /\ vols'[x][to] = vols[x][n] /\ host' = host
    BY <1>1, <1>3 DEF ServerOK, PutCopy
  <2>2. Onward(p) /\ pc'[p] \in {"drop_source", "failed"} /\ job'[p] = job[p]
    BY <1>1, <1>3, <2>1, OnwardOf, LandsAt DEF CopyVolume, Request
  <2>3. Shuffled
    <3>1. \A y \in Vol : \A m \in At(y) : m \in At(y)'
      BY <1>1, <1>3, <2>1 DEF At
    <3>2. \A y \in Vol : \A m \in At(y)' : \E k \in At(y) : vols'[y][m] = vols[y][k]
      BY <1>1, <1>3, <2>1 DEF At
    <3>. QED
      BY <3>1, <3>2 DEF Shuffled
  <2>4. Keeps(p)
    <3>1. \A y \in Vol, m \in Node : vols[y][m] # None => vols'[y][m] # None \/ x = y
      BY <2>1
    <3>. QED
      BY <1>1, <2>3, <3>1, ShuffledKeeps DEF VolInv
  <2>5. Done(p)' /\ Moves(p)'
    BY <1>1, <1>3, <2>1, <2>2 DEF Done, Moves
  <2>. QED
    BY <2>2, <2>4, <2>5 DEF Advances
<1>. QED
  BY <1>2, <1>3 DEF CopyVolume, Request

LEMMA DropSourceAdvances == ASSUME VolInv, NEW p \in Proc, DropSource(p) PROVE Advances(p)
<1>. DEFINE x == job[p].vol  n == job[p].from  to == host[job[p].vm]
<1>1. /\ AllOK /\ ServerOK /\ x \in Vol /\ n \in Node /\ to \in Node /\ job[p].op = "attach_disk"
      /\ n # to /\ vols[x][to] # None
  BY JobHere, Parts DEF VolInv, DropSource, JobOK, Argued, ServerOK, Calls, Moves
<1>2. CASE UNCHANGED server /\ Fail(p)
  BY <1>2, FailAdvances DEF DropSource, Request, server
<1>3. CASE PutCopy(x, n, None) /\ (Goto(p, "attach_get", job[p]) \/ Fail(p))
  <2>1. /\ \A y \in Vol : y # x => vols'[y] = vols[y]
        /\ \A m \in Node : m # n => vols'[x][m] = vols[x][m]
        /\ vols'[x][n] = None /\ host' = host
    BY <1>1, <1>3 DEF ServerOK, PutCopy
  <2>2. Onward(p) /\ pc'[p] \in {"attach_get", "failed"} /\ job'[p] = job[p]
    BY <1>1, <1>3, <2>1, OnwardOf, LandsAt DEF DropSource, Request
  <2>3. Shuffled
    <3>1. \A y \in Vol : At(y) # {} => At(y)' # {}
      <4>. SUFFICES ASSUME NEW y \in Vol, NEW m \in At(y) PROVE \E k \in Node : k \in At(y)'
        OBVIOUS
      <4>1. CASE y = x
        BY <1>1, <2>1, <4>1 DEF At
      <4>2. CASE y # x
        BY <2>1, <4>2 DEF At
      <4>. QED
        BY <4>1, <4>2
    <3>2. \A y \in Vol : \A m \in At(y)' : m \in At(y) /\ vols'[y][m] = vols[y][m]
      BY <1>1, <2>1 DEF At
    <3>. QED
      BY <3>1, <3>2 DEF Shuffled
  <2>4. Keeps(p)
    <3>1. \A y \in Vol, m \in Node : vols[y][m] # None => vols'[y][m] # None \/ x = y
      BY <2>1
    <3>. QED
      BY <1>1, <2>3, <3>1, ShuffledKeeps DEF VolInv
  <2>5. Done(p)' /\ Moves(p)'
    BY <1>1, <2>2 DEF Done, Moves
  <2>. QED
    BY <2>2, <2>4, <2>5 DEF Advances
<1>. QED
  BY <1>2, <1>3 DEF DropSource, Request

LEMMA StepAdvances == ASSUME VolInv, NEW p \in Proc, Step(p), ~Reply(p) PROVE Advances(p)
  BY RecordsAdvance, ColocateAdvances, DescribeAdvances, PutVolumeAdvances, CreateSnapshotAdvances,
     DeleteSnapshotAdvances, CopyVolumeAdvances, DropSourceAdvances DEF Step

-----------------------------------------------------------------------------
(* The invariant *)

\* A request of p takes nothing from the other calls, nor from what the director knows.
LEMMA AdvanceInv == ASSUME VolInv, NEW p \in Proc, Advances(p), AllOK' PROVE VolInv'
<1>1. /\ AllOK /\ ServerOK /\ DirectorOK /\ Onward(p) /\ Keeps(p)
      /\ \A q \in Proc : job[q] \in Job /\ Argued(pc[q], job[q]) /\ JobOK(pc[q], job[q])
  BY Parts, JobHere DEF VolInv, Advances
<1>2. Same'
  BY <1>1 DEF Keeps
<1>3. SnapOn'
  <2>. SUFFICES ASSUME NEW x \in Vol, NEW n \in At(x)', NEW s \in vols'[x][n].snaps
                PROVE  snap[s].state # "free" /\ snap[s].disk = x
    BY <1>1 DEF SnapOn, Onward, director
  <2>1. \/ \E m \in At(x) : s \in vols[x][m].snaps
        \/ job[p].op = "snapshot_disk" /\ job[p].snap = s /\ job[p].vol = x
    BY <1>1 DEF Keeps
  <2>2. job[p].op = "snapshot_disk" => snap[job[p].snap].state # "free" /\ snap[job[p].snap].disk = job[p].vol
    BY <1>1 DEF VolInv, Calls, Working, Argued
  <2>. QED
    BY <2>1, <2>2 DEF VolInv, SnapOn
<1>4. ASSUME NEW q \in Proc, q # p PROVE Done(q)' /\ Moves(q)'
  <2>1. /\ pc'[q] = pc[q] /\ job'[q] = job[q] /\ host' = host /\ Done(q) /\ Moves(q)
        /\ Alone(p, q) /\ Alone(q, p)
    BY <1>1, <1>4 DEF Onward, VolInv, Calls
  <2>2. Done(q)'
    <3>1. ASSUME job[q].op = "resize_disk", pc[q] = "ok" PROVE Sized(job[q].vol, job[q].size)'
      <4>1. Sized(job[q].vol, job[q].size) /\ job[q].vol \in Vol /\ job[q].size \in Size
        BY <1>1, <2>1, <3>1, DiskVol DEF Done, Argued
      <4>. QED
        BY <1>1, <1>4, <2>1, <3>1, <4>1 DEF Keeps, Alone
    <3>2. ASSUME job[q].op = "snapshot_disk", HasAll(job[q].vol, job[q].snap) PROVE HasAll(job[q].vol, job[q].snap)'
      <4>1. job[q].vol \in Vol
        BY <1>1, <3>2, DiskVol DEF Argued, Ops, Start
      <4>2. job[q].snap \in Snap
        BY <1>1, <3>2 DEF Argued, Job
      <4>. QED
        BY <1>1, <1>4, <2>1, <3>2, <4>1, <4>2 DEF Keeps, Alone
    <3>3. ASSUME job[q].op = "delete_snapshot", Gone(job[q].snap) PROVE Gone(job[q].snap)'
      <4>1. job[q].snap \in Snap
        BY <1>1, <3>3 DEF Argued, Job
      <4>. QED
        BY <1>1, <1>4, <2>1, <3>3, <4>1 DEF Keeps, Alone
    <3>. QED
      BY <2>1, <3>1, <3>2, <3>3 DEF Done
  <2>3. Moves(q)'
    <3>1. pc[q] = "drop_source" => job[q].op = "attach_disk" /\ job[q].vol \in Vol /\ host[job[q].vm] \in Node
      BY <1>1 DEF Argued, JobOK, ServerOK
    <3>. QED
      BY <1>1, <1>4, <2>1, <3>1 DEF Moves, Keeps, Alone
  <2>. QED
    BY <2>2, <2>3
<1>5. \A q \in Proc : Working(q)'
  BY <1>1 DEF Onward, VolInv, Calls, Working, director, Argued
<1>6. \A q, r \in Proc : Alone(q, r)'
  BY <1>1 DEF Onward, VolInv, Calls, Alone
<1>7. Resized'
  BY <1>1, DiskVol DEF Onward, VolInv, Resized, Keeps, director, DirectorOK
<1>8. SnapshotsKept'
  <2>. SUFFICES ASSUME NEW s \in Snap, snap[s].state = "known" PROVE HasAll(snap[s].disk, s)'
    BY <1>1 DEF SnapshotsKept, HasAll, Onward, director
  <2>1. HasAll(snap[s].disk, s) /\ job[p].snap # s
    BY <1>1 DEF VolInv, SnapshotsKept, HasAll, Calls, Working
  <2>2. snap[s].disk \in Vol
    BY <1>1, DiskVol DEF DirectorOK, SnapOK
  <2>. QED
    BY <1>1, <2>1, <2>2 DEF Keeps, Onward, director
<1>9. SnapshotsGone'
  BY <1>1 DEF Onward, VolInv, SnapshotsGone, Gone, Keeps, director, Calls, Working
<1>. QED
  BY <1>2, <1>3, <1>4, <1>5, <1>6, <1>7, <1>8, <1>9 DEF VolInv, Calls, Advances

\* A call that begins.
LEMMA CallOf ==
    ASSUME AllOK, NEW p \in Proc, NEW op, NEW v, NEW x, NEW size, NEW s, Call(p, op, v, x, size, s)
    PROVE  /\ pc'[p] = Start[op] /\ job'[p].op = op /\ job'[p].vm = v /\ job'[p].vol = x
           /\ job'[p].size = size /\ job'[p].snap = s /\ pc[p] = "idle" /\ job[p] = NoJob
           /\ \A q \in Proc \ {p} : pc'[q] = pc[q] /\ job'[q] = job[q]
           /\ UNCHANGED <<host, vols>>
<1>1. pc \in [Proc -> PC] /\ job \in [Proc -> Job] /\ pc[p] = "idle" /\ job[p] = NoJob
  BY DEF AllOK, TypeOK, JobOK, Call
<1>2. /\ pc' = [pc EXCEPT ![p] = Start[op]] /\ UNCHANGED <<host, vols>>
      /\ job' = [job EXCEPT ![p] = [NoJob EXCEPT !.op = op, !.vm = v, !.vol = x, !.size = size, !.snap = s]]
  BY DEF Call, Goto, server
<1>. QED
  BY <1>1, <1>2 DEF NoJob

\* The calls are fine after one begins, if it is alone in what it works on.
LEMMA CallKeeps ==
    ASSUME VolInv, NEW p \in Proc, NEW op \in Ops, NEW v, NEW x, NEW size, NEW s,
           Call(p, op, v, x, size, s),
           s # None => snap'[s].state = "pending" /\ snap'[s].disk = x,
           \A t \in Snap : t = s \/ snap'[t] = snap[t],
           \A q \in Proc : /\ s # None => job[q].snap # s
                           /\ op \in {"resize_disk", "attach_disk"} /\ job[q].op = op => job[q].vol # x
    PROVE  Same' /\ Calls'
<1>1. /\ AllOK /\ \A q \in Proc : job[q] \in Job /\ Argued(pc[q], job[q])
  BY JobHere DEF VolInv
<1>2. /\ pc'[p] = Start[op] /\ job'[p].op = op /\ job'[p].vol = x /\ job'[p].snap = s /\ job[p] = NoJob
      /\ \A q \in Proc \ {p} : pc'[q] = pc[q] /\ job'[q] = job[q]
      /\ UNCHANGED <<host, vols>>
  BY <1>1, CallOf
<1>3. Same'
  BY <1>2 DEF Same, At, VolInv
<1>4. Done(p)' /\ Moves(p)'
  BY <1>2 DEF Done, Moves, Ops, Start
<1>5. ASSUME NEW q \in Proc, q # p PROVE Done(q)' /\ Moves(q)'
  BY <1>2, <1>5 DEF VolInv, Calls, Done, Moves, Sized, HasAll, Gone, At
<1>6. ASSUME NEW q \in Proc PROVE Working(q)'
  BY <1>1, <1>2 DEF VolInv, Calls, Working, Job
<1>7. ASSUME NEW q \in Proc, NEW r \in Proc PROVE Alone(q, r)'
  BY <1>2 DEF VolInv, Calls, Alone
<1>. QED
  BY <1>3, <1>4, <1>5, <1>6, <1>7 DEF Calls

LEMMA DirectorInv == ASSUME VolInv, NEW p \in Proc, Director(p), AllOK' PROVE VolInv'
<1>1. AllOK /\ DirectorOK /\ \A q \in Proc : job[q] \in Job /\ JobOK(pc[q], job[q])
  BY Parts, JobHere DEF VolInv
<1>2. Ops = {"resize_disk", "set_disk_metadata", "set_vm_metadata", "snapshot_disk",
             "delete_snapshot", "attach_disk", "detach_disk"}
  BY DEF Ops, Start
<1>3. UNCHANGED vols
  BY DEF Director, CallSetMetadata, CallResizeDisk, CallSnapshotDisk, CallDeleteSnapshot, CallDisk,
         Call, server
<1>4. CASE CallSetMetadata(p)
  <2>1. PICK op \in {"set_disk_metadata", "set_vm_metadata"}, v \in VM \cup {None}, x \in Disk \cup {None} :
            Call(p, op, v, x, None, None)
    BY <1>4 DEF CallSetMetadata
  <2>2. UNCHANGED director
    BY <1>4 DEF CallSetMetadata
  <2>3. Same' /\ Calls'
    BY <1>2, <2>1, <2>2, CallKeeps DEF director
  <2>4. job'[p].op = op /\ \A q \in Proc \ {p} : job'[q] = job[q]
    BY <1>1, <2>1, CallOf
  <2>5. SnapOn' /\ SnapshotsKept' /\ SnapshotsGone'
    BY <1>3, <2>2 DEF VolInv, SnapOn, SnapshotsKept, SnapshotsGone, At, director
  <2>6. Resized'
    BY <1>3, <2>2, <2>4 DEF VolInv, Resized, Sized, At, director
  <2>. QED
    BY <2>3, <2>5, <2>6 DEF VolInv
<1>5. ASSUME NEW d \in Disk, NEW size \in Size, CallResizeDisk(p, d, size) PROVE VolInv'
  <2>1. /\ Call(p, "resize_disk", None, d, size, None) /\ resized' = [resized EXCEPT ![d] = None]
        /\ UNCHANGED snap /\ \A q \in Proc : job[q].op = "resize_disk" => job[q].vol # d
    BY <1>5 DEF CallResizeDisk, Calling
  <2>2. Same' /\ Calls'
    BY <1>2, <2>1, CallKeeps
  <2>3. job'[p].op = "resize_disk" /\ job'[p].vol = d /\ \A q \in Proc \ {p} : job'[q] = job[q]
    BY <1>1, <2>1, CallOf
  <2>4. SnapOn' /\ SnapshotsKept' /\ SnapshotsGone'
    BY <1>3, <2>1 DEF VolInv, SnapOn, SnapshotsKept, SnapshotsGone, At
  <2>5. Resized'
    BY <1>1, <1>3, <2>1, <2>3 DEF VolInv, Resized, Sized, At, DirectorOK
  <2>. QED
    BY <2>2, <2>4, <2>5 DEF VolInv
<1>6. ASSUME NEW d \in Disk, NEW s \in Snap, CallSnapshotDisk(p, d, s) PROVE VolInv'
  <2>1. /\ Call(p, "snapshot_disk", None, d, None, s) /\ UNCHANGED resized /\ snap[s].state = "free"
        /\ snap' = [snap EXCEPT ![s] = [state |-> "pending", disk |-> d]]
    BY <1>6 DEF CallSnapshotDisk
  <2>2. /\ snap'[s].state = "pending" /\ snap'[s].disk = d
        /\ \A t \in Snap : t = s \/ snap'[t] = snap[t]
    BY <1>1, <2>1 DEF DirectorOK
  <2>3. \A q \in Proc : job[q].snap # s
    BY <1>1, <2>1 DEF VolInv, Calls, Working
  <2>4. Same' /\ Calls'
    BY <1>2, <2>1, <2>2, <2>3, CallKeeps
  <2>5. job'[p].op = "snapshot_disk" /\ \A q \in Proc \ {p} : job'[q] = job[q]
    BY <1>1, <2>1, CallOf
  <2>6. SnapOn'
    <3>. SUFFICES ASSUME NEW x \in Vol, NEW n \in At(x), NEW t \in vols[x][n].snaps
                  PROVE  snap'[t].state # "free" /\ snap'[t].disk = x
      BY <1>3 DEF SnapOn, At
    <3>1. t \in Snap
      BY <1>1, CopyAt DEF At, Copy
    <3>. QED
      BY <2>1, <2>2, <3>1 DEF VolInv, SnapOn
  <2>7. SnapshotsKept' /\ SnapshotsGone'
    BY <1>3, <2>2 DEF VolInv, SnapshotsKept, SnapshotsGone, At
  <2>8. Resized'
    BY <1>3, <2>1, <2>5 DEF VolInv, Resized, Sized, At
  <2>. QED
    BY <2>4, <2>6, <2>7, <2>8 DEF VolInv
<1>7. ASSUME NEW s \in Snap, CallDeleteSnapshot(p, s) PROVE VolInv'
  <2>1. /\ Call(p, "delete_snapshot", None, snap[s].disk, None, s) /\ UNCHANGED resized
        /\ snap[s].state = "known" /\ snap' = [snap EXCEPT ![s].state = "pending"]
    BY <1>7 DEF CallDeleteSnapshot
  <2>2. /\ snap'[s].state = "pending" /\ snap'[s].disk = snap[s].disk
        /\ \A t \in Snap : t = s \/ snap'[t] = snap[t]
    BY <1>1, <2>1 DEF DirectorOK
  <2>3. \A q \in Proc : job[q].snap # s
    BY <1>1, <2>1 DEF VolInv, Calls, Working
  <2>4. Same' /\ Calls'
    BY <1>2, <2>1, <2>2, <2>3, CallKeeps
  <2>5. job'[p].op = "delete_snapshot" /\ \A q \in Proc \ {p} : job'[q] = job[q]
    BY <1>1, <2>1, CallOf
  <2>6. SnapOn'
    <3>. SUFFICES ASSUME NEW x \in Vol, NEW n \in At(x), NEW t \in vols[x][n].snaps
                  PROVE  snap'[t].state # "free" /\ snap'[t].disk = x
      BY <1>3 DEF SnapOn, At
    <3>1. t \in Snap
      BY <1>1, CopyAt DEF At, Copy
    <3>. QED
      BY <2>1, <2>2, <3>1 DEF VolInv, SnapOn
  <2>7. SnapshotsKept' /\ SnapshotsGone'
    BY <1>3, <2>2 DEF VolInv, SnapshotsKept, SnapshotsGone, At
  <2>8. Resized'
    BY <1>3, <2>1, <2>5 DEF VolInv, Resized, Sized, At
  <2>. QED
    BY <2>4, <2>6, <2>7, <2>8 DEF VolInv
<1>8. ASSUME NEW d \in Disk, NEW v \in VM, CallDisk(p, d, v) PROVE VolInv'
  <2>1. PICK op \in {"attach_disk", "detach_disk"} : Call(p, op, v, d, None, None)
    BY <1>8 DEF CallDisk
  <2>2. /\ UNCHANGED <<resized, snap>>
        /\ \A q \in Proc : job[q].op \in {"attach_disk", "detach_disk"} => job[q].vol # d
    BY <1>8 DEF CallDisk, Calling
  <2>3. Same' /\ Calls'
    BY <1>2, <2>1, <2>2, CallKeeps
  <2>4. job'[p].op = op /\ \A q \in Proc \ {p} : job'[q] = job[q]
    BY <1>1, <2>1, CallOf
  <2>5. SnapOn' /\ SnapshotsKept' /\ SnapshotsGone'
    BY <1>3, <2>2 DEF VolInv, SnapOn, SnapshotsKept, SnapshotsGone, At
  <2>6. Resized'
    BY <1>3, <2>2, <2>4 DEF VolInv, Resized, Sized, At
  <2>. QED
    BY <2>3, <2>5, <2>6 DEF VolInv
<1>. QED
  BY <1>4, <1>5, <1>6, <1>7, <1>8 DEF Director

LEMMA NoCall == NoJob.op \notin Ops /\ NoJob.snap = None
                /\ NoJob.op \notin {"resize_disk", "attach_disk"}
  BY DEF NoJob, Ops, Start

\* A call that ends: only one that was answered without error changes what the director knows.
LEMMA EndInv ==
    ASSUME VolInv, NEW p \in Proc, NEW good \in BOOLEAN, good => pc[p] = "ok",
           Conclude(job[p], good), Goto(p, "idle", NoJob), UNCHANGED server, AllOK'
    PROVE  VolInv'
<1>. DEFINE j == job[p]
<1>1. /\ AllOK /\ DirectorOK /\ j \in Job /\ UNCHANGED <<host, vols>>
      /\ Done(p) /\ Working(p)
      /\ \A q \in Proc : job[q] \in Job /\ Argued(pc[q], job[q])
  BY Parts, JobHere DEF VolInv, Calls, server
<1>2. /\ pc'[p] = "idle" /\ job'[p] = NoJob /\ NoJob.snap = None
      /\ NoJob.op \notin {"resize_disk", "attach_disk"}
      /\ \A q \in Proc \ {p} : pc'[q] = pc[q] /\ job'[q] = job[q]
  BY <1>1, NoCall DEF AllOK, TypeOK, Goto
<1>3. Same'
  BY <1>1 DEF Same, At, VolInv
<1>4. \A t \in Snap :
          /\ t # j.snap => snap'[t] = snap[t]
          /\ t = j.snap => /\ snap'[t].disk = snap[t].disk
                           /\ snap'[t].state \in {"failed", "known", "deleted"}
                           /\ snap'[t].state = "known" => good /\ j.op = "snapshot_disk"
                           /\ snap'[t].state = "deleted" => good /\ j.op # "snapshot_disk"
  BY <1>1 DEF Conclude, DirectorOK, Job
<1>5. SnapOn'
  <2>. SUFFICES ASSUME NEW x \in Vol, NEW n \in At(x), NEW t \in vols[x][n].snaps
                PROVE  snap'[t].state # "free" /\ snap'[t].disk = x
    BY <1>1 DEF SnapOn, At
  <2>1. t \in Snap
    BY <1>1, CopyAt DEF At, Copy
  <2>2. snap[t].state # "free" /\ snap[t].disk = x
    BY DEF VolInv, SnapOn
  <2>. QED
    BY <1>4, <2>1, <2>2
<1>6. ASSUME NEW q \in Proc PROVE Done(q)' /\ Moves(q)'
  <2>1. CASE q = p
    BY <1>2, <2>1 DEF Done, Moves
  <2>2. CASE q # p
    BY <1>1, <1>2, <2>2 DEF VolInv, Calls, Done, Moves, Sized, HasAll, Gone, At
  <2>. QED
    BY <2>1, <2>2
<1>7. ASSUME NEW q \in Proc PROVE Working(q)'
  <2>1. CASE q = p
    BY <1>2, <2>1 DEF Working
  <2>2. CASE q # p
    <3>1. job[q].snap # None => job[q].snap \in Snap /\ job[q].snap # j.snap
      BY <1>1, <2>2 DEF VolInv, Calls, Alone, Job
    <3>. QED
      BY <1>2, <1>4, <2>2, <3>1 DEF VolInv, Calls, Working
  <2>. QED
    BY <2>1, <2>2
<1>8. ASSUME NEW q \in Proc, NEW r \in Proc PROVE Alone(q, r)'
  BY <1>2 DEF VolInv, Calls, Alone
<1>9. Resized'
  <2>. SUFFICES ASSUME NEW d \in Disk, resized'[d] # None
                PROVE  /\ Sized(d, resized'[d])
                       /\ \A q \in Proc \ {p} : job[q].op = "resize_disk" => job[q].vol # d
    BY <1>1, <1>2 DEF Resized, Sized, At
  <2>1. CASE good /\ j.op = "resize_disk" /\ j.vol = d
    <3>1. resized'[d] = j.size /\ Sized(d, j.size)
      BY <1>1, <2>1 DEF Conclude, DirectorOK, Done
    <3>. QED
      BY <2>1, <3>1 DEF VolInv, Calls, Alone
  <2>2. CASE ~(good /\ j.op = "resize_disk" /\ j.vol = d)
    <3>1. resized'[d] = resized[d]
      BY <1>1, <2>2 DEF Conclude, DirectorOK
    <3>. QED
      BY <3>1 DEF VolInv, Resized
  <2>. QED
    BY <2>1, <2>2
<1>10. SnapshotsKept'
  <2>. SUFFICES ASSUME NEW s \in Snap, snap'[s].state = "known" PROVE HasAll(snap'[s].disk, s)
    BY <1>1 DEF SnapshotsKept, HasAll, At
  <2>1. CASE s = j.snap
    <3>1. good /\ j.op = "snapshot_disk" /\ s # None
      BY <1>4, <2>1
    <3>. QED
      BY <1>1, <1>4, <2>1, <3>1 DEF Done, Working
  <2>2. CASE s # j.snap
    BY <1>4, <2>2 DEF VolInv, SnapshotsKept, HasAll
  <2>. QED
    BY <2>1, <2>2
<1>11. SnapshotsGone'
  <2>. SUFFICES ASSUME NEW s \in Snap, snap'[s].state = "deleted" PROVE Gone(s)
    BY <1>1 DEF SnapshotsGone, Gone, At
  <2>1. CASE s = j.snap
    <3>1. good /\ j.op = "delete_snapshot"
      BY <1>1, <1>4, <2>1 DEF Argued
    <3>. QED
      BY <1>1, <2>1, <3>1 DEF Done
  <2>2. CASE s # j.snap
    BY <1>4, <2>2 DEF VolInv, SnapshotsGone, Gone
  <2>. QED
    BY <2>1, <2>2
<1>. QED
  BY <1>3, <1>5, <1>6, <1>7, <1>8, <1>9, <1>10, <1>11 DEF VolInv, Calls

LEMMA NextInv == VolInv /\ [Next]_vars => VolInv'
<1>. SUFFICES ASSUME VolInv, [Next]_vars PROVE VolInv'
  OBVIOUS
<1>1. AllOK'
  BY NextType DEF VolInv
<1>2. CASE UNCHANGED vars
  <2>1. UNCHANGED <<host, vols, pc, job, resized, snap>>
    BY <1>2 DEF vars, server, director
  <2>2. Same' /\ SnapOn'
    BY <2>1 DEF VolInv, Same, SnapOn, At
  <2>3. \A p \in Proc : Done(p)' /\ Moves(p)' /\ Working(p)'
    BY <2>1 DEF VolInv, Calls, Done, Moves, Working, Sized, HasAll, Gone, At
  <2>4. \A p, q \in Proc : Alone(p, q)'
    BY <2>1 DEF VolInv, Calls, Alone
  <2>5. Resized' /\ SnapshotsKept' /\ SnapshotsGone'
    BY <2>1 DEF VolInv, Resized, SnapshotsKept, SnapshotsGone, Sized, At
  <2>. QED
    BY <1>1, <2>2, <2>3, <2>4, <2>5 DEF VolInv, Calls
<1>3. ASSUME NEW p \in Proc, Step(p) PROVE VolInv'
  <2>1. CASE Reply(p)
    BY <1>1, <2>1, EndInv DEF Reply
  <2>2. CASE ~Reply(p)
    BY <1>1, <1>3, <2>2, StepAdvances, AdvanceInv
  <2>. QED
    BY <2>1, <2>2
<1>4. ASSUME NEW p \in Proc, Crash(p) PROVE VolInv'
  BY <1>1, <1>4, EndInv DEF Crash
<1>. QED
  BY <1>1, <1>2, <1>3, <1>4, DirectorInv DEF Next

LEMMA InitInv == Init => VolInv
<1>. SUFFICES ASSUME Init PROVE VolInv
  OBVIOUS
<1>1. AllOK
  BY InitType
<1>2. \A x \in Vol : \A n \in At(x) : vols[x][n].snaps = {}
  BY DEF Init, At
<1>3. Same
  BY DEF Init, Same, At
<1>4. SnapOn
  BY <1>2 DEF SnapOn
<1>5. Calls
  BY NoCall DEF Init, Calls, Done, Moves, Working, Alone
<1>6. Resized /\ SnapshotsKept /\ SnapshotsGone
  BY DEF Init, Resized, SnapshotsKept, SnapshotsGone
<1>. QED
  BY <1>1, <1>3, <1>4, <1>5, <1>6 DEF VolInv

\* Every copy of a disk holds what the calls that ended, and those under way, have brought about.
THEOREM VolInvariant == Spec => []VolInv
  BY InitInv, NextInv, PTL DEF Spec

\* No update of a record and no move takes back the size that resize_disk answered.
THEOREM SizesStay == Spec => []ResizeKept
<1>1. VolInv => ResizeKept
  BY DEF VolInv, Resized, ResizeKept, Sized
<1>. QED
  BY <1>1, VolInvariant, PTL

\* A snapshot that snapshot_disk answered is on every copy of its disk until it is to be deleted.
THEOREM SnapshotsStay == Spec => []SnapshotsKept
<1>1. VolInv => SnapshotsKept
  BY DEF VolInv
<1>. QED
  BY <1>1, VolInvariant, PTL

\* No copy of a disk has a snapshot whose deletion was answered.
THEOREM DeletedSnapshotsStayAway == Spec => []SnapshotsGone
<1>1. VolInv => SnapshotsGone
  BY DEF VolInv
<1>. QED
  BY <1>1, VolInvariant, PTL

-----------------------------------------------------------------------------
(* set_vm_metadata and the devices *)

\* A process moves its own call on and no other.
LEMMA OthersStay ==
    ASSUME TypeOK, NEW q \in Proc, Step(q) \/ Director(q) \/ Crash(q), NEW p \in Proc, p # q
    PROVE  pc'[p] = pc[p]
<1>1. \A next, work : Goto(q, next, work) => pc'[p] = pc[p]
  BY DEF Goto, TypeOK
<1>2. \A ok, next, work : Request(q, ok, TRUE, next, work) => pc'[p] = pc[p]
  BY <1>1 DEF Request, Fail
<1>3. CASE Step(q)
  BY <1>1, <1>3
  DEF Step, Request, Read, Fail, GetVolume, PutVolume, GetInstance, PutInstance, GetDevices,
      CreateSnapshot, GetSnapshot, DescribeSnapshot, DeleteSnapshot, Colocate, CopyVolume,
      DropSource, AttachGet, AttachPut, DetachGet, DetachPut, Reply
<1>4. CASE Director(q)
  BY <1>1, <1>4
  DEF Director, CallSetMetadata, CallResizeDisk, CallSnapshotDisk, CallDisk, CallDeleteSnapshot, Call
<1>. QED BY <1>1, <1>3, <1>4 DEF Crash

\* The update of an instance writes the devices back that are there, since it goes with their
\* etag (UpdateInstanceDescription).
LEMMA PutKeepsDevices ==
    ASSUME TypeOK, [Next]_vars, NEW p \in Proc, pc[p] = "put_instance", pc'[p] # pc[p]
    PROVE  UNCHANGED devices
<1>1. PICK q \in Proc : Step(q) \/ Director(q) \/ Crash(q)
  BY DEF Next, vars
<1>2. q = p
  BY <1>1, OthersStay
<1>3. Step(p) => PutInstance(p)
  BY DEF Step, GetVolume, GetInstance, GetDevices, PutVolume,
      CreateSnapshot, GetSnapshot, DescribeSnapshot, DeleteSnapshot, Colocate, CopyVolume,
      DropSource, AttachGet, AttachPut, DetachGet, DetachPut, Reply
<1>4. ~Director(p)
  BY DEF Director, CallSetMetadata, CallResizeDisk, CallSnapshotDisk, CallDisk, CallDeleteSnapshot, Call
<1>5. PutInstance(p) => UNCHANGED devices
  BY DEF PutInstance, Request, PutDevices, server, TypeOK
<1>6. Crash(p) => UNCHANGED devices
  BY DEF Crash, server
<1>. QED BY <1>1, <1>2, <1>3, <1>4, <1>5, <1>6

\* set_vm_metadata attaches and detaches nothing, whatever calls run beside it.
THEOREM MetadataIsHarmless == Spec => MetadataKeepsDevices
<1>1. TypeOK /\ [Next]_vars =>
          [\A p \in Proc : pc[p] = "put_instance" /\ pc'[p] # pc[p] => UNCHANGED devices]_vars
  BY PutKeepsDevices
<1>. QED BY <1>1, TypeCorrect, PTL DEF Spec, MetadataKeepsDevices
=============================================================================
