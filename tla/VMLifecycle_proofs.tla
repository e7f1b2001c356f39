-------------------------- MODULE VMLifecycle_proofs --------------------------
(* What VMLifecycle guarantees for every number of VMs, disks, members and processes, with *)
(* requests failing and processes dying at will: the types hold, no call but delete_disk   *)
(* makes a persistent disk disappear, the move of a disk leaves no second copy,            *)
(* AttachDevice changes no device but its own, and no agent settings put two disks at one  *)
(* path.                                                                                   *)
EXTENDS VMLifecycle, TLAPS

USE ServerAssumption, LifecycleAssumption

-----------------------------------------------------------------------------
(* Type correctness *)

LEMMA NoJobType == NoJob \in Job /\ JobOK("idle", NoJob)
  BY DEF NoJob, Job, JobOK, AllOps, VMOps, DiskOps

\* What is left of a call that ends, or turns to its rollback, fits its next request.
LEMMA BareType ==
    ASSUME TypeOK, NEW p \in Proc, pc[p] # "idle"
    PROVE  /\ Bare(p) \in Job
           /\ JobOK("ok", Bare(p)) /\ JobOK("failed", Bare(p))
           /\ job[p].op \in {"create_vm", "delete_vm"} => JobOK("has_vm", Bare(p))
<1>1. job[p] \in Job /\ JobOK(pc[p], job[p])
  BY DEF TypeOK
<1>2. Bare(p) \in Job
  BY <1>1 DEF Bare, NoJob, Job
<1>3. /\ Bare(p).op = job[p].op /\ Bare(p).vm = job[p].vm /\ Bare(p).disk = job[p].disk
      /\ Bare(p).src = None
  BY DEF Bare, NoJob
<1>4. job[p].op # None
  BY <1>1 DEF JobOK
<1>. HIDE DEF Bare
<1>. QED
  BY <1>1, <1>2, <1>3, <1>4 DEF JobOK, RequestsOf, DeleteRequests

\* A request leaves the types alone if its effect on the server does and the locals it
\* leaves behind fit the next request.
LEMMA RequestType ==
    ASSUME TypeOK, NEW p \in Proc, pc[p] # "idle",
           NEW next \in PC, NEW work \in Job, JobOK(next, work),
           Goto(p, next, work) \/ Abort(p),
           UNCHANGED faults \/ Fault,
           file' \in [VM -> Env \cup {Absent, Torn}],
           UNCHANGED <<todo, director>>,
           ServerTypeOK'
    PROVE  TypeOK'
<1>1. ASSUME NEW n \in PC, NEW w \in Job, JobOK(n, w), Goto(p, n, w)
      PROVE  /\ pc' \in [Proc -> PC] /\ job' \in [Proc -> Job]
             /\ \A q \in Proc : JobOK(pc'[q], job'[q])
  BY <1>1 DEF Goto, TypeOK
<1>2. /\ pc' \in [Proc -> PC] /\ job' \in [Proc -> Job]
      /\ \A q \in Proc : JobOK(pc'[q], job'[q])
  <2>1. CASE Goto(p, next, work)
    BY <2>1, <1>1
  <2>2. CASE Abort(p)
    <3>1. {"has_vm", "failed"} \subseteq PC
      BY DEF PC
    <3>. QED
      BY <2>2, <3>1, <1>1, BareType DEF Abort, RollsBack
  <2>. QED BY <2>1, <2>2
<1>3. faults' \in 0 .. MaxFaults
  BY DEF TypeOK, Fault
<1>. QED
  BY <1>2, <1>3 DEF TypeOK, director

LEMMA ServerUnchanged == ServerTypeOK /\ UNCHANGED server => ServerTypeOK'
  BY DEF ServerTypeOK, server

LEMMA Here ==
    ASSUME TypeOK, NEW p \in Proc
    PROVE  job[p] \in Job /\ JobOK(pc[p], job[p])
  BY DEF TypeOK

\* Every request but those about a disk alone is about a VM.
LEMMA VMAt ==
    ASSUME TypeOK, NEW p \in Proc, pc[p] \notin {"idle", "ok", "failed", "delete_disk"}
    PROVE  job[p].vm \in VM
<1>1. job[p].op \in VMOps \cup {"create_disk"}
  BY Here DEF JobOK, Job, RequestsOf, VMOps, DiskOps
<1>. QED
  BY <1>1, Here DEF JobOK

\* Which call makes which request.
LEMMA OpAt ==
    ASSUME TypeOK, NEW p \in Proc
    PROVE  /\ pc[p] \in {"create_instance", "create_ephemeral", "start_vm"} => job[p].op = "create_vm"
           /\ pc[p] \in WriteRequests => job[p].op \in {"create_vm", "attach_disk", "detach_disk"}
           /\ pc[p] \in DeleteRequests => job[p].op \in {"create_vm", "delete_vm"}
           /\ pc[p] = "read_env" => job[p].op \in {"attach_disk", "detach_disk"}
           /\ pc[p] \in {"colocate", "copy_volume", "drop_source"} => job[p].op = "attach_disk"
           /\ pc[p] = "detach_get" => job[p].op = "detach_disk"
           /\ pc[p] = "create_disk" => job[p].op = "create_disk"
           /\ pc[p] = "delete_disk" => job[p].op = "delete_disk"
  BY Here DEF JobOK, Job, RequestsOf, WriteRequests, DeleteRequests, VMOps, DiskOps

LEMMA MayWrite ==
    ASSUME NEW op \in {"create_vm", "attach_disk", "detach_disk"}, NEW at \in WriteRequests
    PROVE  at \in RequestsOf(op)
  BY DEF RequestsOf

LEMMA HostType == ASSUME TypeOK, NEW v \in VM, Exists(v) PROVE host[v] \in Node
  BY DEF TypeOK, ServerTypeOK, Exists

LEMMA DevsType == ASSUME TypeOK, NEW v \in VM PROVE devs[v] \in DevTable
  BY DEF TypeOK, ServerTypeOK

LEMMA StrongDisjoint == EphVol \cap (Disk \cup ConfVol) = {} /\ Disk \cap ConfVol = {} /\ None \notin Vol
  BY DEF Vol

(* The locals of a call after the assignments a request makes to them. *)

LEMMA SetDev == ASSUME NEW j \in Job, NEW d \in Dev \cup {None} PROVE [j EXCEPT !.dev = d] \in Job
  BY DEF Job

LEMMA SetSrc == ASSUME NEW j \in Job, NEW d \in Vol \cup {None} PROVE [j EXCEPT !.src = d] \in Job
  BY DEF Job

LEMMA SetNode == ASSUME NEW j \in Job, NEW n \in Node \cup {None} PROVE [j EXCEPT !.node = n] \in Job
  BY DEF Job

LEMMA SetTo == ASSUME NEW j \in Job, NEW n \in Node \cup {None} PROVE [j EXCEPT !.to = n] \in Job
  BY DEF Job

LEMMA SetSeen == ASSUME NEW j \in Job, NEW n \in DevTable \cup {None} PROVE [j EXCEPT !.seen = n] \in Job
  BY DEF Job

LEMMA SeenOnly ==
    ASSUME NEW j \in Job, NEW t, NEW w, w = [j EXCEPT !.seen = t]
    PROVE  /\ w.op = j.op /\ w.vm = j.vm /\ w.disk = j.disk /\ w.dev = j.dev
           /\ w.src = j.src /\ w.env = j.env /\ w.seen = t
  BY DEF Job

LEMMA SetEnv == ASSUME NEW j \in Job, NEW n \in Env \cup {None} PROVE [j EXCEPT !.env = n] \in Job
  BY DEF Job

LEMMA SetDevSrc ==
    ASSUME NEW j \in Job, NEW d \in Dev \cup {None}, NEW x \in Vol \cup {None}
    PROVE  [j EXCEPT !.dev = d, !.src = x] \in Job
<1>. DEFINE a == [j EXCEPT !.dev = d]
<1>1. a \in Job
  BY SetDev
<1>2. [j EXCEPT !.dev = d, !.src = x] = [a EXCEPT !.src = x]
  OBVIOUS
<1>. HIDE DEF a
<1>. QED BY <1>1, <1>2, SetSrc

LEMMA SetDevSrcEnv ==
    ASSUME NEW j \in Job, NEW d \in Dev \cup {None}, NEW x \in Vol \cup {None}, NEW e \in Env \cup {None}
    PROVE  [j EXCEPT !.dev = d, !.src = x, !.env = e] \in Job
<1>. DEFINE a == [j EXCEPT !.dev = d, !.src = x]
<1>1. a \in Job
  BY SetDevSrc
<1>2. [j EXCEPT !.dev = d, !.src = x, !.env = e] = [a EXCEPT !.env = e]
  OBVIOUS
<1>. HIDE DEF a
<1>. QED BY <1>1, <1>2, SetEnv

LEMMA SetNodeDevSrc ==
    ASSUME NEW j \in Job, NEW n \in Node \cup {None}, NEW d \in Dev \cup {None}, NEW x \in Vol \cup {None}
    PROVE  [j EXCEPT !.node = n, !.dev = d, !.src = x] \in Job
<1>. DEFINE a == [j EXCEPT !.node = n]
<1>1. a \in Job
  BY SetNode
<1>2. [j EXCEPT !.node = n, !.dev = d, !.src = x] = [a EXCEPT !.dev = d, !.src = x]
  OBVIOUS
<1>. HIDE DEF a
<1>. QED BY <1>1, <1>2, SetDevSrc

LEMMA SetNodeTo ==
    ASSUME NEW j \in Job, NEW n \in Node \cup {None}, NEW m \in Node \cup {None}
    PROVE  [j EXCEPT !.node = n, !.to = m] \in Job
<1>. DEFINE a == [j EXCEPT !.node = n]
<1>1. a \in Job
  BY SetNode
<1>2. [j EXCEPT !.node = n, !.to = m] = [a EXCEPT !.to = m]
  OBVIOUS
<1>. HIDE DEF a
<1>. QED BY <1>1, <1>2, SetTo

LEMMA SetDevSeen ==
    ASSUME NEW j \in Job, NEW d \in Dev \cup {None}, NEW t \in DevTable \cup {None}
    PROVE  [j EXCEPT !.dev = d, !.seen = t] \in Job
<1>. DEFINE a == [j EXCEPT !.dev = d]
<1>1. a \in Job
  BY SetDev
<1>2. [j EXCEPT !.dev = d, !.seen = t] = [a EXCEPT !.seen = t]
  OBVIOUS
<1>. HIDE DEF a
<1>. QED BY <1>1, <1>2, SetSeen

(* create_vm *)

LEMMA CreateInstanceType == ASSUME TypeOK, NEW p \in Proc, CreateInstanceStep(p) PROVE TypeOK'
<1>1. job[p].vm \in VM
  BY VMAt DEF CreateInstanceStep
<1>2. ServerTypeOK'
  BY <1>1, ServerUnchanged DEF CreateInstanceStep, Request, CreateInstance, TypeOK, ServerTypeOK
<1>3. job[p].op = "create_vm"
  BY Here DEF CreateInstanceStep, JobOK, Job, RequestsOf, WriteRequests, DeleteRequests, VMOps, DiskOps
<1>4. JobOK("locate", job[p])
  BY <1>1, <1>3, Here DEF CreateInstanceStep, JobOK, RequestsOf
<1>. QED
  BY <1>2, <1>4, Here, RequestType DEF CreateInstanceStep, Request, PC, TypeOK

LEMMA LocateType == ASSUME TypeOK, NEW p \in Proc, Locate(p) PROVE TypeOK'
<1>. DEFINE v == job[p].vm  work == [job[p] EXCEPT !.node = host[v]]
<1>1. v \in VM /\ pc[p] \in {"locate", "locate_vm"}
  BY VMAt DEF Locate
<1>2. ServerTypeOK'
  BY ServerUnchanged DEF Locate, Read, Request, TypeOK
<1>3. PICK next \in AfterLocate(p) : Read(p, Exists(v), next, work)
  BY DEF Locate
<1>4. work \in Job
  <2>1. host[v] \in Node \cup {None}
    BY <1>1 DEF TypeOK, ServerTypeOK
  <2>. QED BY <2>1, Here, SetNode
<1>5. Exists(v) => JobOK(next, work) /\ next \in PC
  <2>1. /\ work.op = job[p].op /\ work.vm = v /\ work.disk = job[p].disk /\ work.src = job[p].src
        /\ work.dev = job[p].dev /\ work.env = job[p].env /\ work.node = host[v]
    BY Here DEF Job
  <2>2. Exists(v) => work.node # None
    BY <2>1 DEF Exists
  <2>3. \/ next = "create_config" /\ pc[p] = "locate_vm"
        \/ next = "create_disk" /\ job[p].op = "create_disk"
        \/ next \in {"create_ephemeral", "write_env"} /\ job[p].op = "create_vm" /\ pc[p] = "locate"
    BY <1>1, Here DEF AfterLocate, JobOK, Job, RequestsOf, WriteRequests, DeleteRequests, VMOps, DiskOps
  <2>. HIDE DEF work
  <2>. QED
    BY <1>1, <2>1, <2>2, <2>3, Here
    DEF JobOK, RequestsOf, WriteRequests, DeleteRequests, VMOps, DiskOps, PC
<1>6. (Goto(p, next, work) /\ Exists(v)) \/ Abort(p)
  BY <1>3 DEF Read, Request
<1>. HIDE DEF work
<1>7. CASE Goto(p, next, work) /\ Exists(v)
  BY <1>1, <1>2, <1>3, <1>4, <1>5, <1>7, RequestType DEF Read, Request, TypeOK
<1>8. CASE Abort(p)
  BY <1>1, <1>2, <1>3, <1>8, BareType, RequestType DEF Read, Request, TypeOK, PC
<1>. QED
  BY <1>6, <1>7, <1>8

LEMMA CreateEphemeralType == ASSUME TypeOK, NEW p \in Proc, CreateEphemeral(p) PROVE TypeOK'
<1>. DEFINE x == EphOf(job[p].vm)
            work == [job[p] EXCEPT !.node = None, !.dev = "ephemeral", !.src = x]
<1>1. job[p].vm \in VM /\ x \in EphVol
  BY VMAt DEF CreateEphemeral, EphVol
<1>2. job[p].node \in Node
  BY Here DEF CreateEphemeral, JobOK, Job
<1>3. ServerTypeOK'
  BY <1>1, <1>2, ServerUnchanged DEF CreateEphemeral, Request, CreateVolume, TypeOK, ServerTypeOK, Vol
<1>4. work \in Job
  <2>1. x \in Vol /\ "ephemeral" \in Dev
    BY <1>1 DEF Vol, Dev
  <2>. HIDE DEF x
  <2>. QED BY <2>1, Here, SetNodeDevSrc
<1>5. JobOK("attach_get", work)
  <2>1. /\ work.op = job[p].op /\ work.vm = job[p].vm /\ work.disk = job[p].disk
        /\ work.dev = "ephemeral" /\ work.src = x /\ work.env = job[p].env
    BY Here DEF Job
  <2>2. job[p].op = "create_vm"
    BY Here DEF CreateEphemeral, JobOK, Job, RequestsOf, WriteRequests, DeleteRequests, VMOps, DiskOps
  <2>3. x # None /\ x \in Backing("ephemeral")
    BY <1>1, StrongDisjoint DEF Backing, Vol
  <2>. HIDE DEF work, x
  <2>. QED
    BY <1>1, <2>1, <2>2, <2>3, Here DEF CreateEphemeral, JobOK, RequestsOf, WriteRequests, VMOps, DiskOps, Dev
<1>. HIDE DEF work
<1>. QED
  BY <1>3, <1>4, <1>5, RequestType DEF work, CreateEphemeral, Request, PC, TypeOK

LEMMA StartVMType == ASSUME TypeOK, NEW p \in Proc, StartVM(p) PROVE TypeOK'
<1>1. job[p].vm \in VM
  BY VMAt DEF StartVM
<1>2. ServerTypeOK'
  BY <1>1, ServerUnchanged DEF StartVM, Request, StartInstance, TypeOK, ServerTypeOK
<1>. QED
  BY <1>2, BareType, RequestType DEF StartVM, Request, PC, TypeOK


(* AttachDevice and DetachDevice *)

LEMMA AttachGetType == ASSUME TypeOK, NEW p \in Proc, AttachGet(p) PROVE TypeOK'
<1>. DEFINE v == job[p].vm  work == [job[p] EXCEPT !.seen = devs[v]]
<1>1. v \in VM
  BY VMAt DEF AttachGet
<1>2. ServerTypeOK'
  BY ServerUnchanged DEF AttachGet, Read, Request, TypeOK
<1>3. devs[v] \in DevTable /\ devs[v] # None
  BY <1>1, DevsType
<1>4. work \in Job
  BY <1>3, Here DEF Job
<1>5. JobOK("attach_put", work)
  <2>1. /\ work.op = job[p].op /\ work.vm = v /\ work.disk = job[p].disk /\ work.dev = job[p].dev
        /\ work.src = job[p].src /\ work.env = job[p].env /\ work.seen # None
    <3>1. work = [job[p] EXCEPT !.seen = devs[v]]
      OBVIOUS
    <3>2. job[p] \in Job
      BY Here
    <3>. HIDE DEF work, v
    <3>3. /\ work.op = job[p].op /\ work.vm = job[p].vm /\ work.disk = job[p].disk
          /\ work.dev = job[p].dev /\ work.src = job[p].src /\ work.env = job[p].env
          /\ work.seen = devs[v]
      BY ONLY <3>1, <3>2, SeenOnly
    <3>. QED BY <1>3, <3>3 DEF v
  <2>2. job[p].op \in {"create_vm", "attach_disk", "detach_disk"}
    BY OpAt DEF AttachGet, WriteRequests
  <2>3. "attach_put" \in RequestsOf(job[p].op)
    BY <2>2, MayWrite DEF WriteRequests
  <2>. HIDE DEF work
  <2>. QED
    BY <1>1, <2>1, <2>2, <2>3, Here DEF AttachGet, JobOK, VMOps, DiskOps
<1>. HIDE DEF work
<1>. QED
  BY <1>2, <1>4, <1>5, RequestType DEF work, AttachGet, Read, Request, PC, TypeOK

\* The settings a call holds stay settings when the disk it attaches is recorded in them.
LEMMA WithAttachedType ==
    ASSUME NEW j \in Job, j.dev # None, j.dev # "config" => j.env # None
    PROVE  j.dev # "config" => WithAttached(j) \in Env
  BY DEF WithAttached, Job, Env

LEMMA AttachPutType == ASSUME TypeOK, NEW p \in Proc, AttachPut(p) PROVE TypeOK'
<1>. DEFINE j == job[p]
            table == [j.seen EXCEPT ![j.dev] = j.src]
            next == AfterAttach(p)
            work == IF j.dev = "config" THEN Bare(p) ELSE [Bare(p) EXCEPT !.env = WithAttached(j)]
<1>1. j.vm \in VM /\ j \in Job /\ JobOK("attach_put", j)
  BY VMAt, Here DEF AttachPut
<1>2. j.src \in Vol /\ j.dev \in Dev /\ j.src \in Backing(j.dev) /\ j.seen \in DevTable
  BY <1>1 DEF JobOK, Job
<1>3. table \in DevTable
  <2>1. table \in [Dev -> Vol \cup {None}]
    BY <1>2 DEF DevTable
  <2>2. ASSUME NEW d \in Dev PROVE table[d] \in Backing(d) \cup {None}
    BY <1>2 DEF DevTable
  <2>. HIDE DEF table
  <2>. QED BY <2>1, <2>2 DEF DevTable
<1>4. ServerTypeOK'
  <2>1. UNCHANGED server \/ PutDevices(j.vm, table)
    BY DEF AttachPut, Request
  <2>. HIDE DEF table
  <2>. QED
    BY <1>1, <1>3, <2>1, ServerUnchanged DEF PutDevices, TypeOK, ServerTypeOK
<1>5. j.op \in {"create_vm", "attach_disk", "detach_disk"}
  BY OpAt DEF AttachPut, WriteRequests
<1>6. j.dev # "config" => WithAttached(j) \in Env
  BY <1>1, <1>2, WithAttachedType DEF JobOK, Dev
<1>7. work \in Job
  BY <1>6, BareType DEF AttachPut, Job
<1>8. JobOK(next, work) /\ next \in PC \ {"idle"}
  <2>1. CASE j.dev = "config"
    <3>1. next = IF j.op = "create_vm" THEN "start_vm" ELSE "ok"
      BY <2>1 DEF AfterAttach
    <3>2. CASE j.op = "create_vm"
      <4>1. work.op = j.op /\ work.vm = j.vm /\ work.disk = j.disk /\ work.src = None
        BY <2>1, <1>1 DEF Bare, NoJob, Job
      <4>. HIDE DEF work
      <4>. QED BY <1>1, <3>1, <3>2, <4>1 DEF JobOK, RequestsOf, PC, VMOps, DiskOps
    <3>3. CASE j.op # "create_vm"
      BY <2>1, <3>1, <3>3, BareType DEF AttachPut, PC
    <3>. QED BY <3>2, <3>3
  <2>2. CASE j.dev # "config"
    <3>1. next = "write_env"
      BY <2>2 DEF AfterAttach
    <3>2. /\ work.op = j.op /\ work.vm = j.vm /\ work.disk = j.disk /\ work.src = None
          /\ work.env # None
      BY <2>2, <1>1, <1>6 DEF Bare, NoJob, Job
    <3>. HIDE DEF work
    <3>. QED BY <1>1, <1>5, <3>1, <3>2 DEF JobOK, RequestsOf, WriteRequests, PC, VMOps, DiskOps
  <2>. QED BY <2>1, <2>2
<1>9. /\ Goto(p, next, work) \/ Abort(p)
      /\ UNCHANGED faults \/ Fault
      /\ UNCHANGED <<file, todo, director>>
  BY DEF AttachPut, Request
<1>. HIDE DEF work, next
<1>. QED
  BY <1>4, <1>7, <1>8, <1>9, RequestType DEF AttachPut, TypeOK

LEMMA ConfigGetType == ASSUME TypeOK, NEW p \in Proc, ConfigGet(p) PROVE TypeOK'
<1>. DEFINE v == job[p].vm
            there == devs[v]["config"] # None
            next == IF there THEN "detach_put" ELSE "check_stopped"
            work == IF there THEN [job[p] EXCEPT !.seen = devs[v]] ELSE job[p]
<1>1. v \in VM
  BY VMAt DEF ConfigGet
<1>2. ServerTypeOK'
  BY ServerUnchanged DEF ConfigGet, Read, Request, TypeOK
<1>3. devs[v] \in DevTable /\ devs[v] # None
  BY <1>1, DevsType
<1>4. work \in Job
  BY <1>3, Here DEF Job
<1>5. JobOK(next, work)
  <2>1. /\ work.op = job[p].op /\ work.vm = v /\ work.disk = job[p].disk /\ work.dev = job[p].dev
        /\ work.src = job[p].src /\ work.env = job[p].env
        /\ there => work.seen # None
    <3>1. work = IF there THEN [job[p] EXCEPT !.seen = devs[v]] ELSE job[p]
      OBVIOUS
    <3>2. job[p] \in Job
      BY Here
    <3>. HIDE DEF work, v, there
    <3>3. CASE there
      <4>1. work = [job[p] EXCEPT !.seen = devs[v]]
        BY <3>1, <3>3
      <4>2. /\ work.op = job[p].op /\ work.vm = job[p].vm /\ work.disk = job[p].disk
            /\ work.dev = job[p].dev /\ work.src = job[p].src /\ work.env = job[p].env
            /\ work.seen = devs[v]
        BY ONLY <3>2, <4>1, SeenOnly
      <4>. QED BY <1>3, <4>2 DEF v
    <3>. QED BY <3>1, <3>3 DEF v
  <2>2. job[p].op \in {"create_vm", "attach_disk", "detach_disk"}
    BY OpAt DEF ConfigGet, WriteRequests
  <2>3. (IF there THEN "detach_put" ELSE "check_stopped") \in RequestsOf(job[p].op)
    BY <2>2, MayWrite DEF WriteRequests
  <2>. HIDE DEF work
  <2>. QED
    BY <1>1, <2>1, <2>2, <2>3, Here DEF ConfigGet, JobOK, VMOps, DiskOps
<1>6. /\ Goto(p, next, work) \/ Abort(p)
      /\ UNCHANGED faults \/ Fault
      /\ UNCHANGED <<file, todo, director>>
  BY DEF ConfigGet, Read, Request
<1>7. next \in PC
  BY DEF PC
<1>. HIDE DEF work, next
<1>. QED
  BY <1>2, <1>4, <1>5, <1>6, <1>7, RequestType DEF ConfigGet, TypeOK

LEMMA DetachGetType == ASSUME TypeOK, NEW p \in Proc, DetachGet(p) PROVE TypeOK'
<1>. DEFINE v == job[p].vm
<1>1. v \in VM /\ job[p].op = "detach_disk" /\ job[p].disk \in Disk
  BY VMAt, OpAt, Here DEF DetachGet, JobOK
<1>2. devs[v] \in DevTable /\ devs[v] # None
  BY <1>1, DevsType
<1>3. /\ ServerTypeOK'
      /\ UNCHANGED faults \/ Fault
      /\ UNCHANGED <<file, todo, director>>
  BY ServerUnchanged DEF DetachGet, Read, Request, TypeOK
<1>4. CASE Goto(p, "read_env", job[p])
  <2>1. JobOK("read_env", job[p])
    BY <1>1, Here DEF DetachGet, JobOK, RequestsOf
  <2>. QED
    BY <1>3, <1>4, <2>1, Here, RequestType DEF DetachGet, PC, TypeOK
<1>5. ASSUME NEW d \in Dev, devs[v][d] = job[p].disk,
             Goto(p, "detach_put", [job[p] EXCEPT !.dev = d, !.seen = devs[v]])
      PROVE  TypeOK'
  <2>. DEFINE work == [job[p] EXCEPT !.dev = d, !.seen = devs[v]]
  <2>1. d \in PersistentDev
    <3>1. devs[v][d] \in Backing(d) \cup {None}
      BY <1>2 DEF DevTable
    <3>2. job[p].disk # None /\ job[p].disk \notin ConfVol \cup EphVol
      BY <1>1, StrongDisjoint DEF Vol
    <3>. QED
      BY <1>5, <3>1, <3>2 DEF Backing, Dev
  <2>2. work \in Job
    BY <1>2, Here, SetDevSeen
  <2>3. JobOK("detach_put", work)
    <3>1. /\ work.op = job[p].op /\ work.vm = v /\ work.disk = job[p].disk /\ work.dev = d
          /\ work.src = job[p].src /\ work.seen # None
      BY <1>2, Here DEF Job
    <3>2. job[p].src = None /\ d # "config"
      BY <2>1, Here DEF DetachGet, JobOK, Job, PersistentDev
    <3>3. job[p].disk \in Disk /\ v \in VM /\ job[p].op = "detach_disk"
      BY <1>1
    <3>. HIDE DEF work, v
    <3>. QED
      BY <2>1, <3>1, <3>2, <3>3 DEF JobOK, RequestsOf, WriteRequests, AllOps, VMOps, DiskOps
  <2>. HIDE DEF work
  <2>. QED
    BY <1>3, <1>5, <2>2, <2>3, RequestType DEF work, DetachGet, PC, TypeOK
<1>6. CASE Abort(p)
  BY <1>3, <1>6, BareType, RequestType DEF DetachGet, PC, TypeOK
<1>. QED
  BY <1>4, <1>5, <1>6 DEF DetachGet, Read, Request

LEMMA DetachPutType == ASSUME TypeOK, NEW p \in Proc, DetachPut(p) PROVE TypeOK'
<1>. DEFINE j == job[p]
            table == [j.seen EXCEPT ![j.dev] = None]
            config == j.dev = "config"
            next == IF config THEN "check_stopped" ELSE "read_env"
            work == IF config THEN [j EXCEPT !.seen = None] ELSE Bare(p)
<1>1. j.vm \in VM /\ j \in Job /\ JobOK("detach_put", j)
  BY VMAt, Here DEF DetachPut
<1>2. j.seen \in DevTable
  BY <1>1 DEF JobOK, Job
<1>3. table \in DevTable
  BY <1>2 DEF DevTable
<1>4. ServerTypeOK'
  <2>1. UNCHANGED server \/ PutDevices(j.vm, table)
    BY DEF DetachPut, Request
  <2>. HIDE DEF table
  <2>. QED
    BY <1>1, <1>3, <2>1, ServerUnchanged DEF PutDevices, TypeOK, ServerTypeOK
<1>5. work \in Job
  BY <1>1, BareType DEF DetachPut, Job
<1>6. JobOK(next, work) /\ next \in PC \ {"idle"}
  <2>1. CASE config
    <3>1. /\ work.op = j.op /\ work.vm = j.vm /\ work.disk = j.disk /\ work.src = j.src
          /\ work.dev = j.dev /\ work.env = j.env
      BY <2>1, <1>1 DEF Job
    <3>2. j.op \in {"create_vm", "attach_disk", "detach_disk"}
      BY OpAt DEF DetachPut, WriteRequests
    <3>3. next = "check_stopped" /\ j.dev = "config" /\ next \in PC \ {"idle"}
      BY <2>1 DEF PC
    <3>. HIDE DEF work, next
    <3>. QED BY <1>1, <3>1, <3>2, <3>3 DEF JobOK, RequestsOf, WriteRequests, VMOps, DiskOps
  <2>2. CASE ~config
    <3>1. /\ work.op = j.op /\ work.vm = j.vm /\ work.disk = j.disk /\ work.src = None
      BY <2>2, <1>1 DEF Bare, NoJob, Job
    <3>2. next = "read_env" /\ next \in PC \ {"idle"}
      BY <2>2 DEF PC
    <3>3. j.op = "detach_disk"
      BY <2>2, <1>1 DEF JobOK
    <3>. HIDE DEF work, next
    <3>. QED BY <1>1, <3>1, <3>2, <3>3 DEF JobOK, RequestsOf, VMOps, DiskOps
  <2>. QED BY <2>1, <2>2
<1>7. /\ Goto(p, next, work) \/ Abort(p)
      /\ UNCHANGED faults \/ Fault
      /\ UNCHANGED <<file, todo, director>>
  BY DEF DetachPut, Request
<1>. HIDE DEF work, next
<1>. QED
  BY <1>4, <1>5, <1>6, <1>7, RequestType DEF DetachPut, TypeOK

(* writeAgentFileToVM *)

LEMMA WriteEnvType == ASSUME TypeOK, NEW p \in Proc, WriteEnv(p) PROVE TypeOK'
<1>1. job[p].vm \in VM /\ job[p].env \in Env
  BY VMAt, Here DEF WriteEnv, JobOK, Job
<1>2. file' \in [VM -> Env \cup {Absent, Torn}]
  BY <1>1 DEF WriteEnv, TypeOK
<1>3. ServerTypeOK'
  BY ServerUnchanged DEF WriteEnv, TypeOK
<1>4. job[p].op \in {"create_vm", "attach_disk", "detach_disk"}
  BY OpAt DEF WriteEnv, WriteRequests
<1>5. JobOK("locate_vm", job[p])
  BY <1>1, <1>4, Here DEF WriteEnv, JobOK, RequestsOf, WriteRequests, VMOps, DiskOps
<1>6. /\ Goto(p, "locate_vm", job[p]) \/ Abort(p)
      /\ UNCHANGED faults \/ Fault
      /\ UNCHANGED <<todo, director>>
  BY DEF WriteEnv
<1>. QED
  BY <1>2, <1>3, <1>5, <1>6, Here, RequestType DEF WriteEnv, PC

LEMMA CreateConfigType == ASSUME TypeOK, NEW p \in Proc, CreateConfig(p) PROVE TypeOK'
<1>. PICK c \in ConfVol :
        Request(p, TRUE, CreateISO(c, job[p].node, job[p].env), "find_config",
                [Bare(p) EXCEPT !.dev = "config", !.src = c])
  BY DEF CreateConfig
<1>. DEFINE work == [Bare(p) EXCEPT !.dev = "config", !.src = c]
<1>1. job[p].vm \in VM /\ job[p].env \in Env /\ job[p].node \in Node
  BY VMAt, Here DEF CreateConfig, JobOK, Job
<1>2. ServerTypeOK'
  BY <1>1, ServerUnchanged DEF Request, CreateISO, TypeOK, ServerTypeOK, Vol
<1>3. work \in Job
  <2>1. Bare(p) \in Job
    BY BareType DEF CreateConfig
  <2>2. c \in Vol /\ "config" \in Dev
    BY DEF Vol, Dev
  <2>. HIDE DEF Bare
  <2>. QED BY <2>1, <2>2 DEF Job
<1>4. JobOK("find_config", work)
  <2>1. /\ work.op = job[p].op /\ work.vm = job[p].vm /\ work.disk = job[p].disk
        /\ work.dev = "config" /\ work.src = c
    BY Here DEF Job, Bare, NoJob
  <2>2. job[p].op \in {"create_vm", "attach_disk", "detach_disk"}
    BY OpAt DEF CreateConfig, WriteRequests
  <2>3. c # None /\ c \in Backing("config")
    BY StrongDisjoint DEF Backing, Vol
  <2>. HIDE DEF work
  <2>. QED
    BY <1>1, <2>1, <2>2, <2>3, Here
    DEF CreateConfig, JobOK, RequestsOf, WriteRequests, VMOps, DiskOps, Dev
<1>5. /\ Goto(p, "find_config", work) \/ Abort(p)
      /\ UNCHANGED faults \/ Fault
      /\ UNCHANGED <<file, todo, director>>
  BY DEF Request
<1>. HIDE DEF work
<1>. QED
  BY <1>2, <1>3, <1>4, <1>5, RequestType DEF CreateConfig, PC, TypeOK

LEMMA FindConfigType == ASSUME TypeOK, NEW p \in Proc, FindConfig(p) PROVE TypeOK'
<1>. DEFINE v == job[p].vm
            old == devs[v]["config"]
            next == IF old = None THEN "attach_get" ELSE "config_get"
            work == [job[p] EXCEPT !.trash = {old} \ {None}]
<1>1. v \in VM
  BY VMAt DEF FindConfig
<1>2. ServerTypeOK'
  BY ServerUnchanged DEF FindConfig, Read, Request, TypeOK
<1>3. old \in ConfVol \cup {None}
  BY <1>1, DevsType DEF DevTable, Backing, Dev
<1>4. work \in Job
  BY <1>3, Here DEF Job
<1>5. JobOK(next, work) /\ next \in PC
  <2>1. /\ work.op = job[p].op /\ work.vm = v /\ work.disk = job[p].disk /\ work.dev = job[p].dev
        /\ work.src = job[p].src /\ work.env = job[p].env
    BY Here DEF Job
  <2>2. job[p].op \in {"create_vm", "attach_disk", "detach_disk"}
    BY OpAt DEF FindConfig, WriteRequests
  <2>3. next \in {"attach_get", "config_get"}
    OBVIOUS
  <2>. HIDE DEF work, next
  <2>4. next \in RequestsOf(job[p].op)
    BY <2>2, <2>3, MayWrite DEF WriteRequests
  <2>. QED
    BY <1>1, <2>1, <2>2, <2>3, <2>4, Here DEF FindConfig, JobOK, VMOps, DiskOps, PC
<1>6. /\ Goto(p, next, work) \/ Abort(p)
      /\ UNCHANGED faults \/ Fault
      /\ UNCHANGED <<file, todo, director>>
  BY DEF FindConfig, Read, Request
<1>. HIDE DEF work, next
<1>. QED
  BY <1>2, <1>4, <1>5, <1>6, RequestType DEF FindConfig, TypeOK

LEMMA CheckStoppedType == ASSUME TypeOK, NEW p \in Proc, CheckStopped(p) PROVE TypeOK'
<1>. DEFINE stopped == [job[p] EXCEPT !.trash = {}]
<1>1. job[p].vm \in VM
  BY VMAt DEF CheckStopped
<1>2. /\ ServerTypeOK'
      /\ UNCHANGED faults \/ Fault
      /\ UNCHANGED <<file, todo, director>>
  BY ServerUnchanged DEF CheckStopped, Read, Request, TypeOK
<1>3. stopped \in Job
  BY Here DEF Job
<1>4. job[p].op \in {"create_vm", "attach_disk", "detach_disk"}
  BY OpAt DEF CheckStopped, WriteRequests
<1>5. JobOK("attach_get", stopped)
  <2>1. /\ stopped.op = job[p].op /\ stopped.vm = job[p].vm /\ stopped.disk = job[p].disk
        /\ stopped.dev = job[p].dev /\ stopped.src = job[p].src /\ stopped.env = job[p].env
    BY Here DEF Job
  <2>. HIDE DEF stopped
  <2>. QED
    BY <1>1, <1>4, <2>1, Here DEF CheckStopped, JobOK, RequestsOf, WriteRequests, VMOps, DiskOps
<1>6. JobOK("delete_config", job[p])
  BY <1>1, <1>4, Here DEF CheckStopped, JobOK, RequestsOf, WriteRequests, VMOps, DiskOps
<1>7. \/ Goto(p, "attach_get", stopped) \/ Goto(p, "delete_config", job[p])
      \/ Abort(p)
  BY DEF CheckStopped, Read, Request
<1>. HIDE DEF stopped
<1>. QED
  BY <1>2, <1>3, <1>5, <1>6, <1>7, Here, RequestType DEF CheckStopped, PC, TypeOK

\* What DeleteStoragePoolVolume does to the server's state, for any volume.
LEMMA DeleteVolumeType ==
    ASSUME ServerTypeOK, NEW x, DeleteVolume(x)
    PROVE  ServerTypeOK'
  BY DEF DeleteVolume, ServerTypeOK

LEMMA DeleteConfigType == ASSUME TypeOK, NEW p \in Proc, DeleteConfig(p) PROVE TypeOK'
<1>. DEFINE work == [job[p] EXCEPT !.trash = {}]
<1>1. job[p].vm \in VM
  BY VMAt DEF DeleteConfig
<1>2. /\ Goto(p, "attach_get", work) \/ Abort(p)
      /\ UNCHANGED faults \/ Fault
      /\ UNCHANGED <<file, todo, director>>
  BY DEF DeleteConfig, Request
<1>3. ServerTypeOK'
  BY ServerUnchanged, DeleteVolumeType DEF DeleteConfig, Request, TypeOK
<1>4. job[p].op \in {"create_vm", "attach_disk", "detach_disk"}
  BY OpAt DEF DeleteConfig, WriteRequests
<1>5. work \in Job
  BY Here DEF Job
<1>6. JobOK("attach_get", work)
  <2>1. /\ work.op = job[p].op /\ work.vm = job[p].vm /\ work.disk = job[p].disk
        /\ work.dev = job[p].dev /\ work.src = job[p].src /\ work.env = job[p].env
    BY Here DEF Job
  <2>. HIDE DEF work
  <2>. QED
    BY <1>1, <1>4, <2>1, Here DEF DeleteConfig, JobOK, RequestsOf, WriteRequests, VMOps, DiskOps
<1>. HIDE DEF work
<1>. QED
  BY <1>2, <1>3, <1>5, <1>6, RequestType DEF DeleteConfig, PC, TypeOK

(* attach_disk and detach_disk *)

LEMMA ReadEnvType == ASSUME TypeOK, NEW p \in Proc, ReadEnv(p) PROVE TypeOK'
<1>. DEFINE e == file[job[p].vm]
            slot == FreeSlot(e)
            attach == [job[p] EXCEPT !.dev = slot, !.src = job[p].disk, !.env = e]
            detach == [job[p] EXCEPT !.env = [e EXCEPT ![job[p].disk] = None]]
<1>1. /\ job[p].vm \in VM /\ job[p].disk \in Disk
      /\ job[p].op \in {"attach_disk", "detach_disk"}
  BY VMAt, OpAt, Here DEF ReadEnv, JobOK
<1>2. /\ ServerTypeOK'
      /\ UNCHANGED faults \/ Fault
      /\ UNCHANGED <<file, todo, director>>
  BY ServerUnchanged DEF ReadEnv, Read, Request, TypeOK
<1>3. e \in Env \cup {Absent, Torn}
  BY <1>1 DEF TypeOK
<1>4. \/ /\ Goto(p, "colocate", attach) /\ job[p].op = "attach_disk"
         /\ e \notin {Absent, Torn} /\ slot # None
      \/ /\ Goto(p, "write_env", detach) /\ job[p].op = "detach_disk"
         /\ e \notin {Absent, Torn}
      \/ Abort(p)
  BY DEF ReadEnv, Read, Request
<1>5. ASSUME e \in Env, slot # None, job[p].op = "attach_disk"
      PROVE  attach \in Job /\ JobOK("colocate", attach)
  <2>1. slot \in PersistentDev
    BY <1>5 DEF FreeSlot, PersistentDev
  <2>2. job[p].disk \in Vol /\ slot \in Dev /\ job[p].disk # None
    BY <1>1, <2>1, StrongDisjoint DEF Vol, Dev
  <2>3. job[p].disk \in Backing(slot)
    BY <1>1, <2>1 DEF Backing, PersistentDev
  <2>. HIDE DEF slot, e
  <2>4. attach \in Job
    BY <1>5, <2>2, Here, SetDevSrcEnv
  <2>5. /\ attach.op = "attach_disk" /\ attach.vm = job[p].vm /\ attach.disk = job[p].disk
        /\ attach.dev = slot /\ attach.src = job[p].disk /\ attach.env = e
    BY <1>5, Here DEF Job
  <2>6. attach.env # None /\ attach.dev # None
    BY <1>5, <2>1, <2>5
  <2>. HIDE DEF attach
  <2>. QED
    BY <1>1, <2>1, <2>2, <2>3, <2>4, <2>5, <2>6
    DEF JobOK, RequestsOf, AllOps, VMOps, DiskOps
<1>6. ASSUME e \in Env, job[p].op = "detach_disk"
      PROVE  detach \in Job /\ JobOK("write_env", detach)
  <2>1. [e EXCEPT ![job[p].disk] = None] \in Env
    BY <1>1, <1>6 DEF Env
  <2>. DEFINE e2 == [e EXCEPT ![job[p].disk] = None]
  <2>. HIDE DEF e2, e
  <2>2. detach \in Job
    BY <2>1, Here DEF Job, e2
  <2>3. /\ detach.op = "detach_disk" /\ detach.vm = job[p].vm /\ detach.disk = job[p].disk
        /\ detach.dev = job[p].dev /\ detach.src = job[p].src /\ detach.env # None
    BY <1>6, <2>1, Here DEF Job
  <2>. HIDE DEF detach
  <2>. QED
    BY <1>1, <2>2, <2>3, Here DEF JobOK, ReadEnv, RequestsOf, WriteRequests, AllOps, VMOps, DiskOps
<1>. HIDE DEF attach, detach, slot, e
<1>7. CASE Abort(p)
  BY <1>2, <1>7, BareType, RequestType DEF ReadEnv, TypeOK, PC
<1>8. CASE ~Abort(p)
  BY <1>2, <1>3, <1>4, <1>5, <1>6, <1>8, RequestType DEF ReadEnv, TypeOK, PC
<1>. QED BY <1>7, <1>8

LEMMA ColocateType == ASSUME TypeOK, NEW p \in Proc, Colocate(p) PROVE TypeOK'
<1>1. job[p].vm \in VM /\ job[p].op = "attach_disk"
  BY VMAt, OpAt DEF Colocate
<1>2. /\ ServerTypeOK'
      /\ UNCHANGED faults \/ Fault
      /\ UNCHANGED <<file, todo, director>>
  BY ServerUnchanged DEF Colocate, Read, Request, TypeOK
<1>3. \/ Goto(p, "attach_get", job[p])
      \/ \E n \in Node :
            /\ Exists(job[p].vm)
            /\ Goto(p, "copy_volume", [job[p] EXCEPT !.node = n, !.to = host[job[p].vm]])
      \/ Abort(p)
  BY DEF Colocate, Read, Request
<1>4. JobOK("attach_get", job[p])
  BY <1>1, Here DEF Colocate, JobOK, RequestsOf, WriteRequests
<1>5. ASSUME NEW n \in Node, Exists(job[p].vm)
      PROVE  /\ [job[p] EXCEPT !.node = n, !.to = host[job[p].vm]] \in Job
             /\ JobOK("copy_volume", [job[p] EXCEPT !.node = n, !.to = host[job[p].vm]])
  <2>. DEFINE work == [job[p] EXCEPT !.node = n, !.to = host[job[p].vm]]
  <2>0. host[job[p].vm] \in Node
    BY <1>1, <1>5, HostType
  <2>1. work \in Job
    BY <2>0, Here, SetNodeTo
  <2>2. /\ work.op = "attach_disk" /\ work.vm = job[p].vm /\ work.disk = job[p].disk
        /\ work.dev = job[p].dev /\ work.src = job[p].src /\ work.env = job[p].env
        /\ work.node # None /\ work.to # None
    BY <1>1, <2>0, Here DEF Job
  <2>. HIDE DEF work
  <2>3. JobOK("copy_volume", work)
    BY <1>1, <2>2, Here DEF Colocate, JobOK, RequestsOf, AllOps, VMOps, DiskOps
  <2>. QED BY <2>1, <2>3 DEF work
<1>6. CASE Abort(p)
  BY <1>2, <1>6, BareType, RequestType DEF Colocate, TypeOK, PC
<1>7. CASE ~Abort(p)
  BY <1>2, <1>3, <1>4, <1>5, <1>7, Here, RequestType DEF Colocate, TypeOK, PC
<1>. QED BY <1>6, <1>7

LEMMA CopyVolumeType == ASSUME TypeOK, NEW p \in Proc, CopyVolumeStep(p) PROVE TypeOK'
<1>1. /\ job[p].vm \in VM /\ job[p].op = "attach_disk" /\ job[p].disk \in Vol
      /\ job[p].to \in Node
  BY VMAt, OpAt, Here DEF CopyVolumeStep, JobOK, Job, Vol
<1>2. ServerTypeOK'
  BY <1>1, ServerUnchanged DEF CopyVolumeStep, Request, CopyVolume, TypeOK, ServerTypeOK
<1>3. JobOK("drop_source", job[p])
  BY <1>1, Here DEF CopyVolumeStep, JobOK, RequestsOf
<1>4. /\ Goto(p, "drop_source", job[p]) \/ Abort(p)
      /\ UNCHANGED faults \/ Fault
      /\ UNCHANGED <<file, todo, director>>
  BY DEF CopyVolumeStep, Request
<1>. QED
  BY <1>2, <1>3, <1>4, Here, RequestType DEF CopyVolumeStep, PC, TypeOK

LEMMA DropSourceType == ASSUME TypeOK, NEW p \in Proc, DropSource(p) PROVE TypeOK'
<1>. DEFINE work == [job[p] EXCEPT !.node = None, !.to = None]
<1>1. job[p].vm \in VM /\ job[p].op = "attach_disk" /\ job[p].disk \in Vol
  BY VMAt, OpAt, Here DEF DropSource, JobOK, Vol
<1>2. ServerTypeOK'
  BY <1>1, ServerUnchanged DEF DropSource, Request, DropCopy, TypeOK, ServerTypeOK
<1>3. work \in Job
  BY Here, SetNodeTo
<1>4. JobOK("attach_get", work)
  <2>1. /\ work.op = "attach_disk" /\ work.vm = job[p].vm /\ work.disk = job[p].disk
        /\ work.dev = job[p].dev /\ work.src = job[p].src /\ work.env = job[p].env
    BY <1>1, Here DEF Job
  <2>. HIDE DEF work
  <2>. QED
    BY <1>1, <2>1, Here DEF DropSource, JobOK, RequestsOf, WriteRequests, AllOps, VMOps, DiskOps
<1>5. /\ Goto(p, "attach_get", work) \/ Abort(p)
      /\ UNCHANGED faults \/ Fault
      /\ UNCHANGED <<file, todo, director>>
  BY DEF DropSource, Request
<1>. HIDE DEF work
<1>. QED
  BY <1>2, <1>3, <1>4, <1>5, RequestType DEF DropSource, PC, TypeOK

(* delete_vm, and the rollback of create_vm *)

\* The requests of delete_vm ask for no more than a VM.
LEMMA DeleteJob ==
    ASSUME TypeOK, NEW p \in Proc, pc[p] \in DeleteRequests,
           NEW next \in DeleteRequests, NEW work \in Job,
           work.op = job[p].op, work.vm = job[p].vm, work.disk = job[p].disk,
           work.src = job[p].src, work.dev = job[p].dev
    PROVE  JobOK(next, work)
<1>1. /\ job[p].op \in {"create_vm", "delete_vm"} /\ job[p].vm \in VM
      /\ job[p].src # None => job[p].dev # None /\ job[p].src \in Backing(job[p].dev)
  BY OpAt, VMAt, Here DEF DeleteRequests, JobOK
<1>2. job[p].disk = None
  BY <1>1, Here DEF JobOK, DeleteRequests, VMOps
<1>. QED
  BY <1>1, <1>2 DEF JobOK, RequestsOf, DeleteRequests, AllOps, VMOps, DiskOps

LEMMA HasVMType == ASSUME TypeOK, NEW p \in Proc, HasVM(p) PROVE TypeOK'
<1>. DEFINE next == IF Exists(job[p].vm) THEN "stop_vm" ELSE "delete_file"
<1>1. pc[p] \in DeleteRequests /\ next \in DeleteRequests \cap PC
  BY DEF HasVM, DeleteRequests, PC
<1>2. JobOK(next, job[p])
  BY <1>1, Here, DeleteJob
<1>3. /\ ServerTypeOK'
      /\ Goto(p, next, job[p]) \/ Abort(p)
      /\ UNCHANGED faults \/ Fault
      /\ UNCHANGED <<file, todo, director>>
  BY ServerUnchanged DEF HasVM, Read, Request, TypeOK
<1>. HIDE DEF next
<1>. QED
  BY <1>1, <1>2, <1>3, Here, RequestType DEF HasVM, TypeOK

LEMMA StopVMType == ASSUME TypeOK, NEW p \in Proc, StopVM(p) PROVE TypeOK'
<1>1. pc[p] \in DeleteRequests /\ "list_disks" \in DeleteRequests \cap PC /\ job[p].vm \in VM
  BY VMAt DEF StopVM, DeleteRequests, PC
<1>2. JobOK("list_disks", job[p])
  BY <1>1, Here, DeleteJob
<1>3. ServerTypeOK'
  BY <1>1, ServerUnchanged DEF StopVM, Request, StopInstance, TypeOK, ServerTypeOK
<1>4. /\ Goto(p, "list_disks", job[p]) \/ Abort(p)
      /\ UNCHANGED faults \/ Fault
      /\ UNCHANGED <<file, todo, director>>
  BY DEF StopVM, Request
<1>. QED
  BY <1>1, <1>2, <1>3, <1>4, Here, RequestType DEF StopVM, TypeOK

LEMMA ListDisksType == ASSUME TypeOK, NEW p \in Proc, ListDisks(p) PROVE TypeOK'
<1>. DEFINE found == {devs[job[p].vm]["config"], devs[job[p].vm]["ephemeral"]} \ {None}
            work == [job[p] EXCEPT !.trash = found]
<1>1. /\ pc[p] \in DeleteRequests /\ "delete_instance" \in DeleteRequests \cap PC
      /\ job[p].vm \in VM
  BY VMAt DEF ListDisks, DeleteRequests, PC
<1>2. found \subseteq ConfVol \cup EphVol
  <2>1. devs[job[p].vm] \in DevTable
    BY <1>1, DevsType
  <2>2. /\ devs[job[p].vm]["config"] \in ConfVol \cup {None}
        /\ devs[job[p].vm]["ephemeral"] \in EphVol \cup {None}
    BY <2>1 DEF DevTable, Backing, Dev
  <2>. QED BY <2>2
<1>. HIDE DEF found
<1>3. work \in Job
  BY <1>2, Here DEF Job
<1>4. /\ work.op = job[p].op /\ work.vm = job[p].vm /\ work.disk = job[p].disk
      /\ work.src = job[p].src /\ work.dev = job[p].dev
  BY Here DEF Job
<1>5. /\ ServerTypeOK'
      /\ Goto(p, "delete_instance", work) \/ Abort(p)
      /\ UNCHANGED faults \/ Fault
      /\ UNCHANGED <<file, todo, director>>
  BY ServerUnchanged DEF ListDisks, Read, Request, TypeOK, found
<1>. HIDE DEF work
<1>6. JobOK("delete_instance", work)
  BY <1>1, <1>3, <1>4, DeleteJob
<1>. QED
  BY <1>1, <1>3, <1>5, <1>6, RequestType DEF ListDisks, TypeOK

LEMMA DeleteInstanceType == ASSUME TypeOK, NEW p \in Proc, DeleteInstanceStep(p) PROVE TypeOK'
<1>. DEFINE next == IF job[p].trash = {} THEN "delete_file" ELSE "delete_volumes"
<1>1. /\ pc[p] \in DeleteRequests /\ next \in DeleteRequests \cap PC
      /\ job[p].vm \in VM
  BY VMAt DEF DeleteInstanceStep, DeleteRequests, PC
<1>2. JobOK(next, job[p])
  BY <1>1, Here, DeleteJob
<1>3. ServerTypeOK'
  <2>1. NoDevices \in DevTable
    BY DEF NoDevices, DevTable
  <2>. QED
    BY <1>1, <2>1, ServerUnchanged DEF DeleteInstanceStep, Request, DeleteInstance, TypeOK, ServerTypeOK
<1>4. /\ Goto(p, next, job[p]) \/ Abort(p)
      /\ UNCHANGED faults \/ Fault
      /\ UNCHANGED <<file, todo, director>>
  BY DEF DeleteInstanceStep, Request
<1>. HIDE DEF next
<1>. QED
  BY <1>1, <1>2, <1>3, <1>4, Here, RequestType DEF DeleteInstanceStep, TypeOK

LEMMA DeleteVolumesType == ASSUME TypeOK, NEW p \in Proc, DeleteVolumes(p) PROVE TypeOK'
<1>. PICK x \in job[p].trash :
        Request(p, CanDeleteVolume(x), DeleteVolume(x),
                IF job[p].trash = {x} THEN "delete_file" ELSE "delete_volumes",
                [job[p] EXCEPT !.trash = @ \ {x}])
  BY DEF DeleteVolumes
<1>. DEFINE next == IF job[p].trash = {x} THEN "delete_file" ELSE "delete_volumes"
            work == [job[p] EXCEPT !.trash = @ \ {x}]
<1>1. pc[p] \in DeleteRequests /\ next \in DeleteRequests \cap PC
  BY DEF DeleteVolumes, DeleteRequests, PC
<1>2. work \in Job
  BY Here DEF Job
<1>3. /\ work.op = job[p].op /\ work.vm = job[p].vm /\ work.disk = job[p].disk
      /\ work.src = job[p].src /\ work.dev = job[p].dev
  BY Here DEF Job
<1>4. /\ Goto(p, next, work) \/ Abort(p)
      /\ UNCHANGED faults \/ Fault
      /\ UNCHANGED <<file, todo, director>>
  BY DEF Request
<1>5. ServerTypeOK'
  BY ServerUnchanged, DeleteVolumeType DEF Request, TypeOK
<1>. HIDE DEF next, work
<1>6. JobOK(next, work)
  BY <1>1, <1>2, <1>3, DeleteJob
<1>. QED
  BY <1>1, <1>2, <1>4, <1>5, <1>6, RequestType DEF DeleteVolumes, TypeOK

LEMMA DeleteFileType == ASSUME TypeOK, NEW p \in Proc, DeleteFile(p) PROVE TypeOK'
<1>. DEFINE next == IF job[p].op = "delete_vm" THEN "ok" ELSE "failed"
<1>1. job[p].vm \in VM /\ next \in PC
  BY VMAt DEF DeleteFile, PC
<1>2. Bare(p) \in Job /\ JobOK(next, Bare(p))
  BY BareType DEF DeleteFile
<1>3. file' \in [VM -> Env \cup {Absent, Torn}]
  BY <1>1 DEF DeleteFile, TypeOK
<1>4. /\ ServerTypeOK'
      /\ Goto(p, next, Bare(p)) \/ Abort(p)
      /\ UNCHANGED faults \/ Fault
      /\ UNCHANGED <<todo, director>>
  BY ServerUnchanged DEF DeleteFile, TypeOK
<1>. HIDE DEF next
<1>. QED
  BY <1>1, <1>2, <1>3, <1>4, RequestType DEF DeleteFile

(* create_disk and delete_disk *)

LEMMA CreateDiskType == ASSUME TypeOK, NEW p \in Proc, CreateDisk(p) PROVE TypeOK'
<1>1. job[p].disk \in Vol /\ job[p].node \in Node
  BY OpAt, Here DEF CreateDisk, JobOK, Job, DiskOps, Vol
<1>2. ServerTypeOK'
  BY <1>1, ServerUnchanged DEF CreateDisk, Request, CreateVolume, TypeOK, ServerTypeOK
<1>. QED
  BY <1>2, BareType, RequestType DEF CreateDisk, Request, PC, TypeOK

LEMMA DeleteDiskType == ASSUME TypeOK, NEW p \in Proc, DeleteDisk(p) PROVE TypeOK'
<1>1. ServerTypeOK'
  BY ServerUnchanged, DeleteVolumeType DEF DeleteDisk, Request, TypeOK
<1>. QED
  BY <1>1, BareType, RequestType DEF DeleteDisk, Request, PC, TypeOK

(* The director and the cleanup *)

CidType == cid \in [VM \cup Disk -> {"free", "pending", "known", "failed", "deleted"}]
DirectorType ==
    /\ CidType
    /\ owner \in [Disk -> VM \cup {None}]
    /\ unsure \subseteq Disk
    /\ trust \in [VM -> {"clean", "mended", "broken"}]

LEMMA ConcludeType ==
    ASSUME TypeOK, NEW p \in Proc, pc[p] # "idle", NEW good \in BOOLEAN, Conclude(job[p], good)
    PROVE  DirectorType'
<1>1. /\ job[p] \in Job /\ job[p].op \in VMOps \cup DiskOps
      /\ job[p].op \in {"create_vm", "delete_vm"} => job[p].vm \in VM
      /\ job[p].op \notin {"create_vm", "delete_vm"} => job[p].disk \in Disk
  BY Here DEF JobOK, Job, VMOps, DiskOps
<1>2. CidType'
  BY <1>1 DEF Conclude, CidType, TypeOK
<1>3. owner' \in [Disk -> VM \cup {None}] /\ unsure' \subseteq Disk
  BY DEF Conclude, TypeOK
<1>4. trust' \in [VM -> {"clean", "mended", "broken"}]
  BY DEF Conclude, TypeOK
<1>. QED BY <1>2, <1>3, <1>4 DEF DirectorType, CidType

\* A call that ends leaves an idle process, and nothing but the director's knowledge changes.
LEMMA EndType ==
    ASSUME TypeOK, NEW p \in Proc, pc[p] # "idle", NEW good \in BOOLEAN, Conclude(job[p], good),
           Goto(p, "idle", NoJob), UNCHANGED <<server, todo>>,
           file' \in [VM -> Env \cup {Absent, Torn}], faults' \in 0 .. MaxFaults
    PROVE  TypeOK'
<1>1. /\ pc' \in [Proc -> PC] /\ job' \in [Proc -> Job]
      /\ \A q \in Proc : JobOK(pc'[q], job'[q])
  BY NoJobType DEF Goto, TypeOK, PC
<1>. QED
  BY <1>1, ConcludeType, ServerUnchanged DEF DirectorType, CidType, TypeOK

LEMMA ReplyType == ASSUME TypeOK, NEW p \in Proc, Reply(p) PROVE TypeOK'
  BY EndType DEF Reply, TypeOK

LEMMA CrashType == ASSUME TypeOK, NEW p \in Proc, Crash(p) PROVE TypeOK'
<1>1. faults' \in 0 .. MaxFaults
  BY DEF Crash, Fault, TypeOK
<1>2. file' \in [VM -> Env \cup {Absent, Torn}]
  BY DEF Crash, TypeOK
<1>. QED
  BY <1>1, <1>2, EndType DEF Crash

\* A call is made with the ids its operation needs.
LEMMA CallType ==
    ASSUME TypeOK, NEW p \in Proc, NEW op \in VMOps \cup DiskOps,
           NEW v \in VM \cup {None}, NEW d \in Disk \cup {None}, NEW env \in Env \cup {None},
           Call(p, op, v, d, env),
           op \in VMOps \cup {"create_disk"} => v \in VM,
           op \in DiskOps \cup {"attach_disk", "detach_disk"} <=> d \in Disk,
           op = "create_vm" => env \in Env,
           DirectorType'
    PROVE  TypeOK'
<1>. DEFINE work == [NoJob EXCEPT !.op = op, !.vm = v, !.disk = d, !.env = env]
<1>1. work \in Job
  BY DEF NoJob, Job
<1>2. /\ work.op = op /\ work.vm = v /\ work.disk = d /\ work.env = env
      /\ work.src = None /\ work.dev = None /\ work.node = None
  BY DEF NoJob
<1>3. Start[op] \in PC
  BY DEF Start, PC, VMOps, DiskOps
<1>. HIDE DEF work
<1>4. JobOK(Start[op], work)
  BY <1>1, <1>2 DEF JobOK, RequestsOf, DeleteRequests, Start, AllOps, VMOps, DiskOps
<1>5. /\ pc' \in [Proc -> PC] /\ job' \in [Proc -> Job]
      /\ \A q \in Proc : JobOK(pc'[q], job'[q])
  BY <1>1, <1>3, <1>4 DEF Call, Goto, TypeOK, work
<1>. QED
  BY <1>5, ServerUnchanged DEF Call, TypeOK, DirectorType, CidType

LEMMA DirectorTypes == ASSUME TypeOK, NEW p \in Proc, Director(p) PROVE TypeOK'
<1>1. ASSUME NEW v \in VM, CallCreateVM(p, v) PROVE TypeOK'
  <2>1. DirectorType'
    BY <1>1 DEF CallCreateVM, Call, TypeOK, DirectorType, CidType
  <2>2. NoDisks \in Env
    BY DEF NoDisks, Env
  <2>. QED
    BY <1>1, <2>1, <2>2, CallType DEF CallCreateVM, VMOps, DiskOps, Vol
<1>2. ASSUME NEW v \in VM, CallDeleteVM(p, v) PROVE TypeOK'
  <2>1. DirectorType'
    BY <1>2 DEF CallDeleteVM, Call, TypeOK, DirectorType, CidType
  <2>. QED
    BY <1>2, <2>1, CallType DEF CallDeleteVM, VMOps, DiskOps, Vol
<1>3. ASSUME NEW v \in VM, NEW d \in Disk, CallCreateDisk(p, v, d) PROVE TypeOK'
  <2>1. DirectorType'
    BY <1>3 DEF CallCreateDisk, Call, TypeOK, DirectorType, CidType
  <2>. QED
    BY <1>3, <2>1, CallType DEF CallCreateDisk, VMOps, DiskOps
<1>4. ASSUME NEW v \in VM, NEW d \in Disk, CallAttachDisk(p, v, d) PROVE TypeOK'
  <2>1. DirectorType'
    BY <1>4 DEF CallAttachDisk, Call, TypeOK, DirectorType, CidType
  <2>. QED
    BY <1>4, <2>1, CallType DEF CallAttachDisk, VMOps, DiskOps
<1>5. ASSUME NEW v \in VM, NEW d \in Disk, CallDetachDisk(p, v, d) PROVE TypeOK'
  <2>1. DirectorType'
    BY <1>5 DEF CallDetachDisk, Call, TypeOK, DirectorType, CidType
  <2>. QED
    BY <1>5, <2>1, CallType DEF CallDetachDisk, VMOps, DiskOps
<1>6. ASSUME NEW d \in Disk, CallDeleteDisk(p, d) PROVE TypeOK'
  <2>1. DirectorType'
    BY <1>6 DEF CallDeleteDisk, Call, TypeOK, DirectorType, CidType
  <2>. QED
    BY <1>6, <2>1, CallType DEF CallDeleteDisk, VMOps, DiskOps
<1>. QED
  BY <1>1, <1>2, <1>3, <1>4, <1>5, <1>6 DEF Director

LEMMA CleanupType == ASSUME TypeOK, Cleanup PROVE TypeOK'
<1>1. CASE CleanupScan
  BY <1>1, ServerUnchanged DEF CleanupScan, director, TypeOK
<1>2. CASE CleanupDelete
  <2>1. ServerTypeOK'
    BY <1>2, ServerUnchanged, DeleteVolumeType DEF CleanupDelete, TypeOK
  <2>2. todo' \subseteq ConfVol /\ faults' \in 0 .. MaxFaults
    BY <1>2 DEF CleanupDelete, Fault, TypeOK
  <2>. QED
    BY <1>2, <2>1, <2>2 DEF CleanupDelete, director, TypeOK
<1>. QED BY <1>1, <1>2 DEF Cleanup

LEMMA KilledType == ASSUME TypeOK, CleanupKilled PROVE TypeOK'
<1>1. faults' \in 0 .. MaxFaults
  BY DEF CleanupKilled, Fault, TypeOK
<1>. QED
  BY <1>1, ServerUnchanged DEF CleanupKilled, director, TypeOK

LEMMA InitType == Init => TypeOK
<1>. SUFFICES ASSUME Init PROVE TypeOK
  OBVIOUS
<1>1. ServerTypeOK
  BY DEF Init, ServerInit, ServerTypeOK, NoDevices, DevTable
<1>. QED
  BY <1>1, NoJobType DEF Init, TypeOK, PC

LEMMA StepType == ASSUME TypeOK, NEW p \in Proc, Step(p) PROVE TypeOK'
  BY CreateInstanceType, LocateType, CreateEphemeralType, StartVMType,
     AttachGetType, AttachPutType, ConfigGetType, DetachGetType, DetachPutType,
     WriteEnvType, CreateConfigType, FindConfigType, CheckStoppedType, DeleteConfigType,
     ReadEnvType, ColocateType, CopyVolumeType, DropSourceType,
     HasVMType, StopVMType, ListDisksType, DeleteInstanceType, DeleteVolumesType, DeleteFileType,
     CreateDiskType, DeleteDiskType, ReplyType
  DEF Step

LEMMA NextType == TypeOK /\ [Next]_vars => TypeOK'
<1>. SUFFICES ASSUME TypeOK, [Next]_vars PROVE TypeOK'
  OBVIOUS
<1>1. CASE Next
  BY <1>1, CleanupType, KilledType, StepType, DirectorTypes, CrashType DEF Next
<1>2. CASE UNCHANGED vars
  BY <1>2, ServerUnchanged DEF vars, cpiVars, director, TypeOK
<1>. QED BY <1>1, <1>2

\* The variables of VMLifecycle always have their types, and every call has at each of its
\* requests the locals that request needs, for any numbers of VMs, disks and processes.
THEOREM TypeCorrect == Spec => []TypeOK
  BY InitType, NextType, PTL DEF Spec

-----------------------------------------------------------------------------
(* The copies of a disk *)

\* The director works on a disk with one process at a time, and knows the disks it works on
\* (so that create_disk never gets the name of a disk that is in use).
OneCallPerDisk ==
    /\ \A p, q \in Proc : p # q /\ job[p].disk # None => job[q].disk # job[p].disk
    /\ \A d \in Disk : cid[d] = "free" => DiskIdle(d) /\ owner[d] = None

\* When the source of a move is deleted, its copy is there.
SourceHasCopy == \A p \in Proc :
    pc[p] = "drop_source" => \E n \in vols[job[p].disk] : n # job[p].node

DiskInv == TypeOK /\ OneCallPerDisk /\ SourceHasCopy

-----------------------------------------------------------------------------
(* What the steps of a call do to disks *)

DiskRequests == {"copy_volume", "drop_source", "create_disk", "delete_disk"}

\* A step of p that changes no other process and goes on with the same call.
Continues(p) ==
    /\ \A q \in Proc \ {p} : job'[q] = job[q] /\ pc'[q] = pc[q]
    /\ job'[p].op = job[p].op /\ job'[p].disk = job[p].disk
    /\ UNCHANGED director

SameDisks == \A d \in Disk : vols'[d] = vols[d]

LEMMA ContinuesIf ==
    ASSUME TypeOK, NEW p \in Proc, NEW next, NEW work,
           work.op = job[p].op, work.disk = job[p].disk,
           Goto(p, next, work) \/ Abort(p), UNCHANGED director
    PROVE  Continues(p) /\ pc'[p] \in {next, "has_vm", "failed"}
<1>1. pc = [q \in Proc |-> pc[q]] /\ job = [q \in Proc |-> job[q]]
  BY DEF TypeOK
<1>2. ASSUME NEW n, NEW w, w.op = job[p].op, w.disk = job[p].disk, Goto(p, n, w)
      PROVE  Continues(p) /\ pc'[p] = n
  <2>1. pc'[p] = n /\ job'[p] = w
    BY <1>1, <1>2 DEF Goto
  <2>2. \A q \in Proc \ {p} : job'[q] = job[q] /\ pc'[q] = pc[q]
    BY <1>1, <1>2 DEF Goto
  <2>. QED BY <1>2, <2>1, <2>2 DEF Continues
<1>3. CASE Goto(p, next, work)
  BY <1>2, <1>3
<1>4. CASE Abort(p)
  <2>1. Bare(p).op = job[p].op /\ Bare(p).disk = job[p].disk
    BY DEF Bare, NoJob
  <2>2. PICK n \in {"has_vm", "failed"} : Goto(p, n, Bare(p))
    BY <1>4 DEF Abort
  <2>. QED BY <1>2, <2>1, <2>2
<1>. QED BY <1>3, <1>4

\* Deleting a volume that is no persistent disk leaves the persistent disks alone.
LEMMA DeleteOther ==
    ASSUME TypeOK, NEW x \in ConfVol \cup EphVol, DeleteVolume(x)
    PROVE  SameDisks
  BY StrongDisjoint DEF DeleteVolume, SameDisks, TypeOK, ServerTypeOK, Vol

LEMMA BareSame == ASSUME NEW p \in Proc PROVE Bare(p).op = job[p].op /\ Bare(p).disk = job[p].disk
  BY DEF Bare, NoJob

\* A step that touches no disk; it comes to the PUT of a device only from the GET.
Quiet(p) ==
    /\ Continues(p) /\ SameDisks
    /\ pc'[p] # "drop_source"
    /\ pc'[p] = "attach_put" => pc[p] = "attach_get"

LEMMA QuietRead ==
    ASSUME TypeOK, NEW p \in Proc, NEW ok, NEW next, NEW work, next # "drop_source",
           next = "attach_put" => pc[p] = "attach_get",
           work.op = job[p].op, work.disk = job[p].disk, Read(p, ok, next, work)
    PROVE  Quiet(p)
<1>1. SameDisks /\ (Goto(p, next, work) \/ Abort(p)) /\ UNCHANGED director
  BY DEF Read, Request, SameDisks, server
<1>. QED
  BY <1>1, ContinuesIf DEF Quiet

\* Requests that are not about a persistent disk leave the persistent disks alone.
LEMMA QuietStep ==
    ASSUME TypeOK, NEW p \in Proc, Step(p), pc[p] \notin DiskRequests \cup {"ok", "failed"}
    PROVE  Quiet(p)
<1>. DEFINE j == job[p]
<1>0. j \in Job /\ JobOK(pc[p], j)
  BY Here
<1>1. CASE CreateInstanceStep(p)
  BY <1>1, ContinuesIf DEF CreateInstanceStep, Request, CreateInstance, Quiet, SameDisks, server
<1>2. CASE Locate(p)
  <2>1. PICK next \in AfterLocate(p) : Read(p, Exists(j.vm), next, [j EXCEPT !.node = host[j.vm]])
    BY <1>2 DEF Locate
  <2>2. next \notin {"drop_source", "attach_put"}
    BY DEF AfterLocate
  <2>. QED BY <1>0, <2>1, <2>2, QuietRead DEF Job
<1>3. CASE CreateEphemeral(p)
  <2>. DEFINE work == [j EXCEPT !.node = None, !.dev = "ephemeral", !.src = EphOf(j.vm)]
  <2>1. /\ EphOf(j.vm) \in EphVol
        /\ Goto(p, "attach_get", work) \/ Abort(p)
        /\ UNCHANGED director
    BY <1>3, VMAt DEF CreateEphemeral, EphVol, Request
  <2>2. SameDisks
    BY <1>3, <2>1, StrongDisjoint
    DEF CreateEphemeral, Request, CreateVolume, SameDisks, server, TypeOK, ServerTypeOK, Vol
  <2>3. work.op = j.op /\ work.disk = j.disk
    BY <1>0 DEF Job
  <2>. HIDE DEF work
  <2>. QED BY <2>1, <2>2, <2>3, ContinuesIf DEF Quiet
<1>4. CASE StartVM(p)
  BY <1>4, BareSame, ContinuesIf DEF StartVM, Request, StartInstance, Quiet, SameDisks, server
<1>5. CASE AttachGet(p)
  BY <1>0, <1>5, QuietRead DEF AttachGet, Job
<1>6. CASE AttachPut(p)
  <2>. DEFINE next == AfterAttach(p)
              work == IF j.dev = "config" THEN Bare(p) ELSE [Bare(p) EXCEPT !.env = WithAttached(j)]
  <2>1. work.op = j.op /\ work.disk = j.disk
    BY DEF Bare, NoJob
  <2>2. next \notin {"drop_source", "attach_put"}
    BY DEF AfterAttach
  <2>3. (Goto(p, next, work) \/ Abort(p)) /\ UNCHANGED director /\ SameDisks
    BY <1>6 DEF AttachPut, Request, PutDevices, SameDisks, server
  <2>. HIDE DEF work, next
  <2>. QED BY <2>1, <2>2, <2>3, ContinuesIf DEF Quiet
<1>7. CASE ConfigGet(p)
  BY <1>0, <1>7, QuietRead DEF ConfigGet, Job
<1>8. CASE DetachGet(p)
  <2>1. CASE Read(p, Exists(j.vm), "read_env", j)
    BY <2>1, QuietRead
  <2>2. ASSUME NEW d \in Dev,
               Read(p, Exists(j.vm), "detach_put", [j EXCEPT !.dev = d, !.seen = devs[j.vm]])
        PROVE  Quiet(p)
    <3>. DEFINE work == [j EXCEPT !.dev = d, !.seen = devs[j.vm]]
    <3>1. Read(p, Exists(j.vm), "detach_put", work) /\ work.op = j.op /\ work.disk = j.disk
      BY <1>0, <2>2 DEF Job
    <3>. HIDE DEF work
    <3>. QED BY <3>1, QuietRead
  <2>. QED BY <1>8, <2>1, <2>2 DEF DetachGet
<1>9. CASE DetachPut(p)
  <2>. DEFINE next == IF j.dev = "config" THEN "check_stopped" ELSE "read_env"
              work == IF j.dev = "config" THEN [j EXCEPT !.seen = None] ELSE Bare(p)
  <2>1. work.op = j.op /\ work.disk = j.disk
    BY <1>0 DEF Bare, NoJob, Job
  <2>2. (Goto(p, next, work) \/ Abort(p)) /\ UNCHANGED director /\ SameDisks
    BY <1>9 DEF DetachPut, Request, PutDevices, SameDisks, server
  <2>3. next \notin {"drop_source", "attach_put"}
    OBVIOUS
  <2>. HIDE DEF work, next
  <2>. QED BY <2>1, <2>2, <2>3, ContinuesIf DEF Quiet
<1>10. CASE WriteEnv(p)
  BY <1>10, ContinuesIf DEF WriteEnv, Quiet, SameDisks, server
<1>11. CASE CreateConfig(p)
  <2>1. PICK c \in ConfVol :
           Request(p, TRUE, CreateISO(c, j.node, j.env), "find_config",
                   [Bare(p) EXCEPT !.dev = "config", !.src = c])
    BY <1>11 DEF CreateConfig
  <2>2. SameDisks
    BY <2>1, StrongDisjoint
    DEF Request, CreateISO, SameDisks, server, TypeOK, ServerTypeOK, Vol
  <2>. DEFINE work == [Bare(p) EXCEPT !.dev = "config", !.src = c]
  <2>3. /\ work.op = j.op /\ work.disk = j.disk
        /\ Goto(p, "find_config", work) \/ Abort(p)
        /\ UNCHANGED director
    BY <2>1 DEF Bare, NoJob, Request
  <2>. HIDE DEF work
  <2>. QED BY <2>2, <2>3, ContinuesIf DEF Quiet
<1>12. CASE FindConfig(p)
  BY <1>0, <1>12, QuietRead DEF FindConfig, Job
<1>13. CASE CheckStopped(p)
  BY <1>0, <1>13, QuietRead DEF CheckStopped, Job
<1>14. CASE DeleteConfig(p)
  <2>1. PICK c \in j.trash :
           Request(p, CanDeleteVolume(c), DeleteVolume(c), "attach_get", [j EXCEPT !.trash = {}])
    BY <1>14 DEF DeleteConfig
  <2>2. SameDisks
    BY <1>0, <2>1, DeleteOther DEF Request, SameDisks, server, Job
  <2>. QED BY <1>0, <2>1, <2>2, ContinuesIf DEF Quiet, Request, Job
<1>15. CASE ReadEnv(p)
  <2>. DEFINE e == file[j.vm]
              attach == [j EXCEPT !.dev = FreeSlot(e), !.src = j.disk, !.env = e]
              detach == [j EXCEPT !.env = [e EXCEPT ![j.disk] = None]]
  <2>1. \/ Read(p, e \notin {Absent, Torn} /\ FreeSlot(e) # None, "colocate", attach)
        \/ Read(p, e \notin {Absent, Torn}, "write_env", detach)
    BY <1>15 DEF ReadEnv
  <2>2. attach.op = j.op /\ attach.disk = j.disk /\ detach.op = j.op /\ detach.disk = j.disk
    BY <1>0 DEF Job
  <2>. HIDE DEF attach, detach
  <2>. QED BY <2>1, <2>2, QuietRead
<1>16. CASE Colocate(p)
  <2>1. ASSUME NEW ok, NEW next \in {"attach_get", "failed"}, Read(p, ok, next, j)
        PROVE  Quiet(p)
    BY <2>1, QuietRead
  <2>2. ASSUME NEW n \in Node,
               Read(p, Exists(j.vm), "copy_volume", [j EXCEPT !.node = n, !.to = host[j.vm]])
        PROVE  Quiet(p)
    <3>. DEFINE work == [j EXCEPT !.node = n, !.to = host[j.vm]]
    <3>1. Read(p, Exists(j.vm), "copy_volume", work) /\ work.op = j.op /\ work.disk = j.disk
      BY <1>0, <2>2 DEF Job
    <3>. HIDE DEF work
    <3>. QED BY <3>1, QuietRead
  <2>. QED BY <1>16, <2>1, <2>2 DEF Colocate
<1>17. CASE HasVM(p)
  BY <1>17, QuietRead DEF HasVM
<1>18. CASE StopVM(p)
  BY <1>18, ContinuesIf DEF StopVM, Request, StopInstance, Quiet, SameDisks, server
<1>19. CASE ListDisks(p)
  BY <1>0, <1>19, QuietRead DEF ListDisks, Job
<1>20. CASE DeleteInstanceStep(p)
  BY <1>20, ContinuesIf DEF DeleteInstanceStep, Request, DeleteInstance, Quiet, SameDisks, server
<1>21. CASE DeleteVolumes(p)
  <2>1. PICK x \in j.trash :
           Request(p, CanDeleteVolume(x), DeleteVolume(x),
                   IF j.trash = {x} THEN "delete_file" ELSE "delete_volumes",
                   [j EXCEPT !.trash = @ \ {x}])
    BY <1>21 DEF DeleteVolumes
  <2>2. SameDisks
    BY <1>0, <2>1, DeleteOther DEF Request, SameDisks, server, Job
  <2>. QED BY <1>0, <2>1, <2>2, ContinuesIf DEF Quiet, Request, Job
<1>22. CASE DeleteFile(p)
  <2>1. /\ \E next \in {"ok", "failed"} : Goto(p, next, Bare(p)) \/ Abort(p)
        /\ SameDisks /\ UNCHANGED director
    BY <1>22 DEF DeleteFile, SameDisks, server
  <2>. QED BY <2>1, BareSame, ContinuesIf DEF Quiet
<1>. QED
  BY <1>1, <1>2, <1>3, <1>4, <1>5, <1>6, <1>7, <1>8, <1>9, <1>10, <1>11, <1>12, <1>13,
     <1>14, <1>15, <1>16, <1>17, <1>18, <1>19, <1>20, <1>21, <1>22
  DEF Step, DiskRequests, CopyVolumeStep, DropSource, CreateDisk, DeleteDisk, Reply

\* What the requests about a persistent disk do: they touch that disk only, only delete_disk
\* takes its last copy, and the source of a move is deleted after the copy is there.
MovesSafely(p) ==
    /\ Continues(p)
    /\ \A d \in Disk : d # job[p].disk => vols'[d] = vols[d]
    /\ pc[p] # "delete_disk" /\ vols[job[p].disk] # {} => vols'[job[p].disk] # {}
    /\ pc'[p] = "drop_source" => \E n \in vols'[job'[p].disk] : n # job'[p].node

LEMMA DiskStep ==
    ASSUME TypeOK, SourceHasCopy, NEW p \in Proc, Step(p), pc[p] \in DiskRequests
    PROVE  MovesSafely(p) /\ job[p].disk \in Disk
<1>. DEFINE x == job[p].disk
<1>0. job[p] \in Job /\ JobOK(pc[p], job[p]) /\ x \in Disk /\ x \in Vol
  BY OpAt, Here DEF DiskRequests, JobOK, DiskOps, Vol
<1>1. CASE CopyVolumeStep(p)
  <2>. DEFINE to == job[p].to
  <2>1. /\ Goto(p, "drop_source", job[p]) \/ Abort(p)
        /\ UNCHANGED director
        /\ vols' = vols \/ vols' = [vols EXCEPT ![x] = @ \cup {to}]
    BY <1>1 DEF CopyVolumeStep, Request, CopyVolume, server
  <2>2. \A d \in Disk : vols[d] \subseteq vols'[d] /\ (d # x => vols'[d] = vols[d])
    BY <2>1 DEF TypeOK, ServerTypeOK, Vol
  <2>3. Continues(p)
    BY <2>1, ContinuesIf
  <2>4. ASSUME pc'[p] = "drop_source" PROVE \E n \in vols'[x] : n # job'[p].node
    <3>1. ~Abort(p)
      BY <2>4 DEF Abort, Goto, TypeOK
    <3>2. /\ Goto(p, "drop_source", job[p]) /\ CanCopyVolume(x, job[p].node, to)
          /\ CopyVolume(x, to)
      BY <1>1, <3>1 DEF CopyVolumeStep, Request
    <3>3. job'[p].node = job[p].node /\ to # job[p].node /\ to \in vols'[x]
      BY <1>0, <3>2 DEF Goto, CanCopyVolume, CopyVolume, TypeOK, ServerTypeOK
    <3>. QED BY <3>3
  <2>. QED BY <1>0, <2>2, <2>3, <2>4 DEF MovesSafely, Continues
<1>2. CASE DropSource(p)
  <2>. DEFINE work == [job[p] EXCEPT !.node = None, !.to = None]
  <2>1. /\ Goto(p, "attach_get", work) \/ Abort(p)
        /\ UNCHANGED director
        /\ vols' = vols \/ vols' = [vols EXCEPT ![x] = @ \ {job[p].node}]
    BY <1>2 DEF DropSource, Request, DropCopy, server
  <2>2. work.op = job[p].op /\ work.disk = x
    BY <1>0 DEF Job
  <2>. HIDE DEF work
  <2>3. Continues(p) /\ pc'[p] # "drop_source"
    BY <2>1, <2>2, ContinuesIf
  <2>4. PICK n \in vols[x] : n # job[p].node
    BY <1>2 DEF DropSource, SourceHasCopy
  <2>5. n \in vols'[x] /\ \A d \in Disk : d # x => vols'[d] = vols[d]
    BY <1>0, <2>1, <2>4 DEF TypeOK, ServerTypeOK, Vol
  <2>. QED BY <1>0, <2>3, <2>5 DEF MovesSafely
<1>3. CASE CreateDisk(p)
  <2>1. /\ Goto(p, "ok", Bare(p)) \/ Abort(p)
        /\ UNCHANGED director
        /\ vols' = vols \/ vols' = [vols EXCEPT ![x] = {job[p].node}]
    BY <1>3 DEF CreateDisk, Request, CreateVolume, server
  <2>2. Continues(p) /\ pc'[p] # "drop_source"
    BY <2>1, BareSame, ContinuesIf
  <2>3. /\ \A d \in Disk : d # x => vols'[d] = vols[d]
        /\ vols[x] # {} => vols'[x] # {}
    <3>1. vols = [y \in Vol |-> vols[y]] /\ x \in Vol /\ Disk \subseteq Vol
      BY <1>0 DEF TypeOK, ServerTypeOK, Vol
    <3>2. CASE vols' = vols
      BY <3>2
    <3>3. CASE vols' = [vols EXCEPT ![x] = {job[p].node}]
      BY <3>1, <3>3
    <3>. QED BY <2>1, <3>2, <3>3
  <2>. QED BY <1>0, <2>2, <2>3 DEF MovesSafely
<1>4. CASE DeleteDisk(p)
  <2>1. /\ Goto(p, "ok", Bare(p)) \/ Abort(p)
        /\ UNCHANGED director
        /\ vols' = vols \/ vols' = [vols EXCEPT ![x] = {}]
    BY <1>4 DEF DeleteDisk, Request, DeleteVolume, server
  <2>2. Continues(p) /\ pc'[p] # "drop_source" /\ pc[p] = "delete_disk"
    BY <1>4, <2>1, BareSame, ContinuesIf DEF DeleteDisk
  <2>3. \A d \in Disk : d # x => vols'[d] = vols[d]
    BY <1>0, <2>1 DEF TypeOK, ServerTypeOK, Vol
  <2>. QED BY <1>0, <2>2, <2>3 DEF MovesSafely
<1>. QED
  BY <1>0, <1>1, <1>2, <1>3, <1>4
  DEF Step, DiskRequests, CreateInstanceStep, Locate, CreateEphemeral, StartVM, AttachGet, AttachPut,
      ConfigGet, DetachGet, DetachPut, WriteEnv, CreateConfig, FindConfig, CheckStopped,
      DeleteConfig, ReadEnv, Colocate, HasVM, StopVM, ListDisks, DeleteInstanceStep,
      DeleteVolumes, DeleteFile, Reply

-----------------------------------------------------------------------------
(* The invariant is kept *)

\* The same disk requests are under way afterwards, or fewer.
LEMMA KeepsOneCall ==
    ASSUME TypeOK, OneCallPerDisk, NEW p \in Proc,
           \A q \in Proc \ {p} : job'[q].disk = job[q].disk,
           job'[p].disk \in {job[p].disk, None},
           \A d \in Disk : cid'[d] = "free" => cid[d] = "free" /\ owner'[d] \in {owner[d], None}
    PROVE  OneCallPerDisk'
<1>1. \A d \in Disk : (cid[d] = "free" => cid[d] = "free") /\ None # d
  BY StrongDisjoint DEF Vol
<1>. QED
  BY <1>1 DEF OneCallPerDisk, DiskIdle

LEMMA ConcludeKeeps ==
    ASSUME DiskInv, NEW p \in Proc, pc[p] # "idle", NEW good \in BOOLEAN,
           Conclude(job[p], good), Goto(p, "idle", NoJob), UNCHANGED server, TypeOK'
    PROVE  DiskInv' /\ SameDisks
<1>1. /\ \A q \in Proc \ {p} : job'[q] = job[q] /\ pc'[q] = pc[q]
      /\ job'[p].disk = None /\ pc'[p] = "idle"
  BY DEF DiskInv, TypeOK, Goto, NoJob
<1>2. \A d \in Disk : cid'[d] = "free" => cid[d] = "free" /\ owner'[d] \in {owner[d], None}
  BY DEF Conclude, DiskInv, TypeOK
<1>3. OneCallPerDisk'
  BY <1>1, <1>2, KeepsOneCall DEF DiskInv
<1>4. SourceHasCopy' /\ SameDisks
  BY <1>1 DEF DiskInv, SourceHasCopy, SameDisks, server
<1>. QED BY <1>3, <1>4 DEF DiskInv

LEMMA StepKeeps ==
    ASSUME DiskInv, NEW p \in Proc, Step(p), TypeOK'
    PROVE  /\ DiskInv'
           /\ \A d \in Disk : vols[d] # {} /\ vols'[d] = {} =>
                  job[p].op = "delete_disk" /\ job[p].disk = d
<1>1. CASE Reply(p)
  <2>1. DiskInv' /\ SameDisks
    BY <1>1, ConcludeKeeps DEF Reply
  <2>. QED BY <2>1 DEF SameDisks
<1>2. CASE pc[p] \notin DiskRequests \cup {"ok", "failed"}
  <2>1. Quiet(p)
    BY <1>2, QuietStep DEF DiskInv
  <2>2. OneCallPerDisk'
    BY <2>1, KeepsOneCall DEF DiskInv, Quiet, Continues, director
  <2>3. SourceHasCopy'
    <3>1. \A q \in Proc : pc[q] = "drop_source" => job[q].disk \in Disk
      BY OpAt, Here DEF DiskInv, JobOK
    <3>. QED
      BY <2>1, <3>1 DEF DiskInv, SourceHasCopy, Quiet, Continues, SameDisks
  <2>. QED BY <2>1, <2>2, <2>3 DEF DiskInv, Quiet, SameDisks
<1>3. CASE pc[p] \in DiskRequests
  <2>1. MovesSafely(p) /\ job[p].disk \in Disk
    BY <1>3, DiskStep DEF DiskInv
  <2>2. OneCallPerDisk'
    BY <2>1, KeepsOneCall DEF DiskInv, MovesSafely, Continues, director
  <2>3. SourceHasCopy'
    <3>1. ASSUME NEW q \in Proc, q # p, pc'[q] = "drop_source"
          PROVE  \E n \in vols'[job'[q].disk] : n # job'[q].node
      <4>1. pc[q] = "drop_source" /\ job'[q] = job[q]
        BY <2>1, <3>1 DEF MovesSafely, Continues
      <4>2. job[q].disk \in Disk
        BY <4>1, OpAt, Here DEF DiskInv, JobOK
      <4>3. job[q].disk # job[p].disk
        BY <3>1, <4>2, StrongDisjoint DEF DiskInv, OneCallPerDisk, Vol
      <4>. QED
        BY <2>1, <4>1, <4>2, <4>3 DEF DiskInv, SourceHasCopy, MovesSafely
    <3>. QED
      BY <2>1, <3>1 DEF SourceHasCopy, MovesSafely
  <2>4. pc[p] = "delete_disk" => job[p].op = "delete_disk"
    BY OpAt DEF DiskInv
  <2>. QED BY <2>1, <2>2, <2>3, <2>4 DEF DiskInv, MovesSafely
<1>. QED
  BY <1>1, <1>2, <1>3
  DEF Step, DiskRequests, CreateInstanceStep, Locate, CreateEphemeral, StartVM, AttachGet, AttachPut,
      ConfigGet, DetachGet, DetachPut, WriteEnv, CreateConfig, FindConfig, CheckStopped,
      DeleteConfig, ReadEnv, Colocate, HasVM, StopVM, ListDisks, DeleteInstanceStep,
      DeleteVolumes, DeleteFile, CopyVolumeStep, DropSource, CreateDisk, DeleteDisk

\* A call about disk d is made when no other is, and the disk's name is taken then.
LEMMA CallKeeps ==
    ASSUME DiskInv, NEW p \in Proc, NEW op \in VMOps \cup DiskOps,
           NEW v, NEW d \in Disk \cup {None}, NEW env,
           Call(p, op, v, d, env), TypeOK',
           d \in Disk => DiskIdle(d) /\ cid'[d] # "free",
           \A x \in Disk : cid'[x] = "free" =>
               cid[x] = "free" /\ (owner'[x] = owner[x] \/ x = d)
    PROVE  DiskInv' /\ SameDisks
<1>1. /\ \A q \in Proc \ {p} : job'[q] = job[q] /\ pc'[q] = pc[q]
      /\ job'[p].disk = d /\ pc'[p] # "drop_source"
      /\ UNCHANGED vols
  BY DEF Call, DiskInv, TypeOK, Goto, NoJob, Start, VMOps, DiskOps, server
<1>2. None \notin Disk
  BY StrongDisjoint DEF Vol
<1>3. OneCallPerDisk'
  BY <1>1, <1>2 DEF DiskInv, OneCallPerDisk, DiskIdle
<1>4. SourceHasCopy' /\ SameDisks
  BY <1>1 DEF DiskInv, SourceHasCopy, SameDisks
<1>. QED BY <1>3, <1>4 DEF DiskInv

LEMMA DirectorKeeps ==
    ASSUME DiskInv, NEW p \in Proc, Director(p), TypeOK'
    PROVE  DiskInv' /\ SameDisks
<1>. USE DEF VMOps, DiskOps
<1>0. TypeOK /\ OneCallPerDisk /\ None \notin Disk /\ VM \cap Disk = {}
  BY StrongDisjoint, LifecycleAssumption DEF DiskInv, Vol
<1>1. ASSUME NEW v \in VM, CallCreateVM(p, v) PROVE DiskInv' /\ SameDisks
  BY <1>0, <1>1, CallKeeps DEF CallCreateVM, TypeOK
<1>2. ASSUME NEW v \in VM, CallDeleteVM(p, v) PROVE DiskInv' /\ SameDisks
  BY <1>0, <1>2, CallKeeps DEF CallDeleteVM
<1>3. ASSUME NEW v \in VM, NEW d \in Disk, CallCreateDisk(p, v, d) PROVE DiskInv' /\ SameDisks
  BY <1>0, <1>3, CallKeeps DEF CallCreateDisk, OneCallPerDisk, TypeOK
<1>4. ASSUME NEW v \in VM, NEW d \in Disk, CallAttachDisk(p, v, d) PROVE DiskInv' /\ SameDisks
  BY <1>0, <1>4, CallKeeps DEF CallAttachDisk, TypeOK
<1>5. ASSUME NEW v \in VM, NEW d \in Disk, CallDetachDisk(p, v, d) PROVE DiskInv' /\ SameDisks
  <2>1. owner[d] # None /\ cid[d] # "free"
    BY <1>0, <1>5, ServerAssumption DEF CallDetachDisk, OneCallPerDisk
  <2>. QED
    BY <1>0, <1>5, <2>1, CallKeeps DEF CallDetachDisk
<1>6. ASSUME NEW d \in Disk, CallDeleteDisk(p, d) PROVE DiskInv' /\ SameDisks
  BY <1>0, <1>6, CallKeeps DEF CallDeleteDisk
<1>. QED
  BY <1>1, <1>2, <1>3, <1>4, <1>5, <1>6 DEF Director

LEMMA CleanupKeeps == ASSUME DiskInv, Cleanup \/ CleanupKilled, TypeOK' PROVE DiskInv' /\ SameDisks
<1>1. UNCHANGED <<pc, job, director>>
  BY DEF Cleanup, CleanupScan, CleanupDelete, CleanupKilled
<1>2. SameDisks
  <2>1. CASE CleanupScan \/ CleanupKilled
    BY <2>1 DEF CleanupScan, CleanupKilled, SameDisks, server
  <2>2. CASE CleanupDelete
    BY <2>2, DeleteOther DEF CleanupDelete, SameDisks, server, DiskInv, TypeOK
  <2>. QED BY <2>1, <2>2 DEF Cleanup
<1>3. OneCallPerDisk'
  BY <1>1 DEF DiskInv, OneCallPerDisk, DiskIdle, director
<1>4. SourceHasCopy'
  <2>1. \A q \in Proc : pc[q] = "drop_source" => job[q].disk \in Disk
    BY OpAt, Here DEF DiskInv, JobOK
  <2>. QED BY <1>1, <1>2, <2>1 DEF DiskInv, SourceHasCopy, SameDisks
<1>. QED BY <1>2, <1>3, <1>4 DEF DiskInv

DisksKept ==
    \A d \in Disk : vols[d] # {} /\ vols'[d] = {} =>
        \E p \in Proc : job[p].op = "delete_disk" /\ job[p].disk = d

LEMMA DiskInvInit == Init => DiskInv
<1>1. \A p, q \in Proc : job[p] = NoJob => job[p].disk = None
  BY DEF NoJob
<1>. QED
  BY <1>1, InitType, StrongDisjoint
  DEF Init, DiskInv, OneCallPerDisk, SourceHasCopy, DiskIdle, NoJob, Vol

LEMMA DiskInvNext == DiskInv /\ [Next]_vars => DiskInv' /\ DisksKept
<1>. SUFFICES ASSUME DiskInv, [Next]_vars PROVE DiskInv' /\ DisksKept
  OBVIOUS
<1>0. TypeOK'
  BY NextType DEF DiskInv
<1>1. CASE Cleanup \/ CleanupKilled
  BY <1>0, <1>1, CleanupKeeps DEF DisksKept, SameDisks
<1>2. ASSUME NEW p \in Proc, Step(p) PROVE DiskInv' /\ DisksKept
  BY <1>0, <1>2, StepKeeps DEF DisksKept
<1>3. ASSUME NEW p \in Proc, Director(p) PROVE DiskInv' /\ DisksKept
  BY <1>0, <1>3, DirectorKeeps DEF DisksKept, SameDisks
<1>4. ASSUME NEW p \in Proc, Crash(p) PROVE DiskInv' /\ DisksKept
  <2>1. UNCHANGED server /\ Conclude(job[p], FALSE) /\ Goto(p, "idle", NoJob) /\ pc[p] # "idle"
    BY <1>4 DEF Crash
  <2>. QED
    BY <1>0, <2>1, ConcludeKeeps DEF DisksKept, SameDisks
<1>5. CASE UNCHANGED vars
  <2>1. OneCallPerDisk' /\ SourceHasCopy' /\ SameDisks
    BY <1>5
    DEF DiskInv, OneCallPerDisk, SourceHasCopy, DiskIdle, SameDisks, vars, cpiVars, server, director
  <2>. QED BY <1>0, <2>1 DEF DiskInv, DisksKept, SameDisks
<1>. QED BY <1>1, <1>2, <1>3, <1>4, <1>5 DEF Next

\* A persistent disk disappears only by delete_disk of that disk, however many calls, disks
\* and cluster members there are and whatever fails: not by delete_vm, the rollback of
\* create_vm, the cleanup, or the move of attach_disk.
THEOREM DiskSafety == Spec => PersistentDiskSafe
<1>1. Spec => []DiskInv
  BY DiskInvInit, DiskInvNext, PTL DEF Spec
<1>2. DiskInv /\ [Next]_vars => [DisksKept]_vars
  BY DiskInvNext
<1>3. Spec => [][DisksKept]_vars
  BY <1>1, <1>2, PTL DEF Spec
<1>. QED BY <1>3 DEF PersistentDiskSafe, DisksKept

-----------------------------------------------------------------------------
(* A disk is on one member *)

Alone(d) == \A m, n \in vols[d] : m = n

\* The move of disk d is under way between the copy and the deletion of the source, or
\* attach_disk has failed and has not told the director yet.
Moving(p, d) ==
    /\ job[p].op = "attach_disk" /\ job[p].disk = d
    /\ \/ pc[p] = "failed"
       \/ pc[p] = "drop_source" /\ vols[d] \subseteq {job[p].node, job[p].to}

AllClean == \A v \in VM : trust[v] = "clean"

CopyInv == AllClean => \A d \in Disk : Alone(d) \/ \E p \in Proc : Moving(p, d)

\* A step of p that touches no disk keeps CopyInv unless it ends a move that is not complete,
\* and then the director knows.
LEMMA CopyStays ==
    ASSUME CopyInv, NEW p \in Proc,
           \A q \in Proc \ {p} : job'[q] = job[q] /\ pc'[q] = pc[q],
           SameDisks, AllClean' => AllClean,
           \A d \in Disk : Moving(p, d) => ~AllClean'
    PROVE  CopyInv'
<1>. SUFFICES ASSUME AllClean', NEW d \in Disk
              PROVE  Alone(d)' \/ \E q \in Proc : Moving(q, d)'
  BY DEF CopyInv
<1>1. vols'[d] = vols[d]
  BY DEF SameDisks
<1>2. CASE Alone(d)
  BY <1>1, <1>2 DEF Alone
<1>3. ASSUME NEW q \in Proc, Moving(q, d) PROVE Moving(q, d)'
  <2>1. q # p
    BY <1>3
  <2>. QED BY <1>1, <1>3, <2>1 DEF Moving
<1>. QED BY <1>2, <1>3 DEF CopyInv

\* The requests that create, copy and delete a disk leave it on one member, or moving.
LEMMA DiskStepCopies ==
    ASSUME DiskInv, CopyInv, NEW p \in Proc, Step(p), pc[p] \in DiskRequests
    PROVE  CopyInv'
<1>. DEFINE x == job[p].disk
<1>0. TypeOK /\ OneCallPerDisk /\ MovesSafely(p) /\ x \in Disk /\ x \in Vol
  BY DiskStep DEF DiskInv, Vol
<1>. SUFFICES ASSUME AllClean', NEW d \in Disk
              PROVE  Alone(d)' \/ \E q \in Proc : Moving(q, d)'
  BY DEF CopyInv
<1>1. Alone(d) \/ \E q \in Proc : Moving(q, d)
  BY <1>0 DEF CopyInv, AllClean, MovesSafely, Continues, director
<1>2. CASE d # x
  <2>1. vols'[d] = vols[d]
    BY <1>0, <1>2 DEF MovesSafely
  <2>2. ASSUME NEW q \in Proc, Moving(q, d) PROVE Moving(q, d)'
    <3>1. q # p
      BY <1>2, <2>2 DEF Moving
    <3>. QED BY <1>0, <2>1, <2>2, <3>1 DEF MovesSafely, Continues, Moving
  <2>. QED BY <1>1, <2>1, <2>2 DEF Alone
<1>3. CASE d = x
  <2>1. Alone(x) \/ (pc[p] = "drop_source" /\ vols[x] \subseteq {job[p].node, job[p].to})
    <3>1. ASSUME NEW q \in Proc, Moving(q, x) PROVE q = p
      BY <1>0, <3>1, StrongDisjoint DEF Moving, OneCallPerDisk, Vol
    <3>. QED BY <1>1, <1>3, <3>1 DEF Moving, DiskRequests
  <2>2. ASSUME Abort(p), job[p].op = "attach_disk" PROVE Moving(p, d)'
    BY <1>0, <1>3, <2>2, BareSame DEF Abort, RollsBack, Goto, Moving, TypeOK
  <2>3. CASE CopyVolumeStep(p)
    <3>1. pc[p] = "copy_volume" /\ job[p].op = "attach_disk"
      BY <1>0, <2>3, OpAt DEF CopyVolumeStep
    <3>2. CASE Abort(p)
      BY <2>2, <3>1, <3>2
    <3>3. CASE ~Abort(p)
      <4>1. /\ Goto(p, "drop_source", job[p])
            /\ job[p].node \in vols[x] /\ vols' = [vols EXCEPT ![x] = @ \cup {job[p].to}]
        BY <2>3, <3>3 DEF CopyVolumeStep, Request, CanCopyVolume, CopyVolume
      <4>2. vols'[x] = vols[x] \cup {job[p].to} /\ pc'[p] = "drop_source" /\ job'[p] = job[p]
        BY <1>0, <4>1 DEF Goto, TypeOK, ServerTypeOK
      <4>3. vols[x] \subseteq {job[p].node}
        BY <2>1, <3>1, <4>1 DEF Alone
      <4>. QED BY <1>3, <3>1, <4>2, <4>3 DEF Moving
    <3>. QED BY <3>2, <3>3
  <2>4. CASE DropSource(p)
    <3>1. job[p].op = "attach_disk"
      BY <1>0, <2>4, OpAt DEF DropSource
    <3>2. CASE Abort(p)
      BY <2>2, <3>1, <3>2
    <3>3. CASE ~Abort(p)
      <4>1. vols' = [vols EXCEPT ![x] = @ \ {job[p].node}]
        BY <2>4, <3>3 DEF DropSource, Request, DropCopy
      <4>2. vols'[x] = vols[x] \ {job[p].node}
        BY <1>0, <4>1 DEF TypeOK, ServerTypeOK
      <4>. QED BY <1>3, <2>1, <4>2 DEF Alone
    <3>. QED BY <3>2, <3>3
  <2>5. CASE CreateDisk(p)
    <3>1. pc[p] = "create_disk"
          /\ (vols' = vols \/ vols' = [vols EXCEPT ![x] = {job[p].node}])
      BY <2>5 DEF CreateDisk, Request, CreateVolume, server
    <3>2. vols'[x] = vols[x] \/ vols'[x] = {job[p].node}
      BY <1>0, <3>1 DEF TypeOK, ServerTypeOK
    <3>. QED BY <1>3, <2>1, <3>1, <3>2 DEF Alone
  <2>6. CASE DeleteDisk(p)
    <3>1. pc[p] = "delete_disk" /\ (vols' = vols \/ vols' = [vols EXCEPT ![x] = {}])
      BY <2>6 DEF DeleteDisk, Request, DeleteVolume, server
    <3>2. vols'[x] = vols[x] \/ vols'[x] = {}
      BY <1>0, <3>1 DEF TypeOK, ServerTypeOK
    <3>. QED BY <1>3, <2>1, <3>1, <3>2 DEF Alone
  <2>. QED
    BY <2>3, <2>4, <2>5, <2>6
    DEF Step, DiskRequests, CreateInstanceStep, Locate, CreateEphemeral, StartVM, AttachGet,
        AttachPut, ConfigGet, DetachGet, DetachPut, WriteEnv, CreateConfig, FindConfig,
        CheckStopped, DeleteConfig, ReadEnv, Colocate, HasVM, StopVM, ListDisks,
        DeleteInstanceStep, DeleteVolumes, DeleteFile, Reply
<1>. QED BY <1>2, <1>3

\* The director learns of every move that is given up half-way.
LEMMA EndCopies ==
    ASSUME DiskInv, CopyInv, NEW p \in Proc, pc[p] # "idle",
           Conclude(job[p], pc[p] = "ok") \/ Conclude(job[p], FALSE),
           Goto(p, "idle", NoJob), UNCHANGED server
    PROVE  CopyInv'
<1>1. \A q \in Proc \ {p} : job'[q] = job[q] /\ pc'[q] = pc[q]
  BY DEF DiskInv, TypeOK, Goto
<1>2. SameDisks
  BY DEF SameDisks, server
<1>3. AllClean' => AllClean
  BY DEF AllClean, Conclude
<1>4. ASSUME NEW d \in Disk, Moving(p, d) PROVE ~AllClean'
  <2>1. job[p].op = "attach_disk" /\ pc[p] # "ok"
    BY <1>4 DEF Moving
  <2>2. job[p].vm \in VM
    BY <2>1, Here DEF DiskInv, JobOK, VMOps
  <2>3. trust'[job[p].vm] = "broken"
    BY <2>1, <2>2 DEF Conclude, VMOps
  <2>. QED BY <2>2, <2>3 DEF AllClean
<1>. QED BY <1>1, <1>2, <1>3, <1>4, CopyStays

LEMMA CopyInvNext ==
    ASSUME DiskInv, CopyInv, [Next]_vars
    PROVE  CopyInv'
<1>1. CASE Cleanup \/ CleanupKilled
  <2>1. UNCHANGED <<pc, job, director>>
    BY <1>1 DEF Cleanup, CleanupScan, CleanupDelete, CleanupKilled
  <2>2. SameDisks
    BY <1>1, NextType, CleanupKeeps DEF Next, DiskInv
  <2>. QED BY <2>1, <2>2 DEF CopyInv, AllClean, Alone, Moving, SameDisks, director
<1>2. ASSUME NEW p \in Proc, Step(p) PROVE CopyInv'
  <2>1. CASE pc[p] \notin DiskRequests \cup {"ok", "failed"}
    <3>1. Quiet(p)
      BY <1>2, <2>1, QuietStep DEF DiskInv
    <3>2. \A d \in Disk : ~Moving(p, d)
      BY <2>1 DEF Moving, DiskRequests
    <3>. QED BY <3>1, <3>2, CopyStays DEF Quiet, Continues, AllClean, director
  <2>2. CASE pc[p] \in DiskRequests
    BY <1>2, <2>2, DiskStepCopies
  <2>3. CASE pc[p] \in {"ok", "failed"}
    <3>1. Reply(p)
      BY <1>2, <2>3
      DEF Step, CreateInstanceStep, Locate, CreateEphemeral, StartVM, AttachGet, AttachPut,
          ConfigGet, DetachGet, DetachPut, WriteEnv, CreateConfig, FindConfig, CheckStopped,
          DeleteConfig, ReadEnv, Colocate, CopyVolumeStep, DropSource, HasVM, StopVM, ListDisks,
          DeleteInstanceStep, DeleteVolumes, DeleteFile, CreateDisk, DeleteDisk
    <3>. QED BY <2>3, <3>1, EndCopies DEF Reply
  <2>. QED BY <2>1, <2>2, <2>3
<1>3. ASSUME NEW p \in Proc, Director(p) PROVE CopyInv'
  <2>0. \E op, v, d, env : Call(p, op, v, d, env)
    BY <1>3
    DEF Director, CallCreateVM, CallDeleteVM, CallCreateDisk, CallDeleteDisk, CallAttachDisk,
        CallDetachDisk
  <2>1. /\ pc[p] = "idle" /\ UNCHANGED <<trust, vols>>
        /\ \A q \in Proc \ {p} : job'[q] = job[q] /\ pc'[q] = pc[q]
    BY <2>0 DEF Call, Goto, server, DiskInv, TypeOK
  <2>2. \A d \in Disk : ~Moving(p, d)
    BY <2>1 DEF Moving
  <2>. QED BY <2>1, <2>2, CopyStays DEF SameDisks, AllClean
<1>4. ASSUME NEW p \in Proc, Crash(p) PROVE CopyInv'
  BY <1>4, EndCopies DEF Crash
<1>5. CASE UNCHANGED vars
  BY <1>5 DEF CopyInv, AllClean, Alone, Moving, vars, cpiVars, server, director
<1>. QED BY <1>1, <1>2, <1>3, <1>4, <1>5 DEF Next

\* As long as no call on a VM failed, a disk no call works on is on one cluster member, however
\* many members, disks and concurrent calls there are: the copy and the deletion by hand of
\* ColocateStoragePoolVolumeWithInstance leave no second copy behind.
THEOREM DiskOnOneMember == Spec => []OneCopy
<1>1. Init => DiskInv /\ CopyInv
  <2>1. Init => CopyInv
    BY StrongDisjoint DEF Init, ServerInit, CopyInv, Alone, Vol
  <2>. QED BY <2>1, DiskInvInit
<1>2. DiskInv /\ CopyInv /\ [Next]_vars => (DiskInv /\ CopyInv)'
  BY DiskInvNext, CopyInvNext
<1>3. DiskInv /\ CopyInv => OneCopy
  BY DEF CopyInv, OneCopy, AllClean, DiskIdle, Moving, Alone
<1>. QED BY <1>1, <1>2, <1>3, PTL DEF Spec

-----------------------------------------------------------------------------
(* AttachDevice undoes nothing that another call did *)

\* The device table a call is about to write back had no device of the name it adds.
NameFree == \A p \in Proc : pc[p] = "attach_put" => job[p].seen[job[p].dev] = None

\* A step of one process leaves the others alone, and comes to the PUT of AttachDevice
\* only from its GET.
LEMMA OthersStay ==
    ASSUME DiskInv, NEW p \in Proc, Step(p) \/ Director(p) \/ Crash(p)
    PROVE  /\ \A q \in Proc \ {p} : job'[q] = job[q] /\ pc'[q] = pc[q]
           /\ pc'[p] = "attach_put" => Step(p) /\ pc[p] = "attach_get"
<1>1. CASE Step(p) /\ pc[p] \notin DiskRequests \cup {"ok", "failed"}
  BY <1>1, QuietStep DEF DiskInv, Quiet, Continues
<1>2. CASE Step(p) /\ pc[p] \in DiskRequests
  <2>1. Continues(p)
    BY <1>2, DiskStep DEF DiskInv, MovesSafely
  <2>2. CopyVolumeStep(p) \/ DropSource(p) \/ CreateDisk(p) \/ DeleteDisk(p)
    BY <1>2
    DEF Step, DiskRequests, CreateInstanceStep, Locate, CreateEphemeral, StartVM, AttachGet,
        AttachPut, ConfigGet, DetachGet, DetachPut, WriteEnv, CreateConfig, FindConfig,
        CheckStopped, DeleteConfig, ReadEnv, Colocate, HasVM, StopVM, ListDisks,
        DeleteInstanceStep, DeleteVolumes, DeleteFile, Reply
  <2>3. \E next \in {"drop_source", "attach_get", "ok"} : \E work : Goto(p, next, work) \/ Abort(p)
    BY <2>2 DEF CopyVolumeStep, DropSource, CreateDisk, DeleteDisk, Request
  <2>4. pc'[p] # "attach_put"
    BY <2>3 DEF Goto, Abort, DiskInv, TypeOK
  <2>. QED BY <2>1, <2>4 DEF Continues
<1>3. CASE (Step(p) /\ pc[p] \in {"ok", "failed"}) \/ Director(p) \/ Crash(p)
  <2>1. CASE Director(p)
    <3>1. \E op \in VMOps \cup DiskOps : \E v, d, env : Call(p, op, v, d, env)
      BY <2>1 DEF Director, CallCreateVM, CallDeleteVM, CallCreateDisk, CallDeleteDisk,
                  CallAttachDisk, CallDetachDisk, VMOps, DiskOps
    <3>. QED BY <3>1 DEF Call, Goto, Start, VMOps, DiskOps, DiskInv, TypeOK
  <2>2. CASE Crash(p) \/ Reply(p)
    BY <2>2 DEF Crash, Reply, Goto, DiskInv, TypeOK
  <2>. QED
    BY <1>3, <2>1, <2>2
    DEF Step, CreateInstanceStep, Locate, CreateEphemeral, StartVM, AttachGet, AttachPut,
        ConfigGet, DetachGet, DetachPut, WriteEnv, CreateConfig, FindConfig, CheckStopped,
        DeleteConfig, ReadEnv, Colocate, CopyVolumeStep, DropSource, HasVM, StopVM, ListDisks,
        DeleteInstanceStep, DeleteVolumes, DeleteFile, CreateDisk, DeleteDisk
<1>. QED BY <1>1, <1>2, <1>3

LEMMA StepAt ==
    ASSUME NEW p \in Proc, Step(p)
    PROVE  /\ pc[p] = "attach_get" => AttachGet(p)
           /\ pc[p] = "attach_put" => AttachPut(p)
  BY DEF Step, CreateInstanceStep, Locate, CreateEphemeral, StartVM, AttachGet, AttachPut,
         ConfigGet, DetachGet, DetachPut, WriteEnv, CreateConfig, FindConfig, CheckStopped,
         DeleteConfig, ReadEnv, Colocate, CopyVolumeStep, DropSource, HasVM, StopVM, ListDisks,
         DeleteInstanceStep, DeleteVolumes, DeleteFile, CreateDisk, DeleteDisk, Reply

LEMMA NameFreeNext == DiskInv /\ NameFree /\ [Next]_vars => NameFree'
<1>. SUFFICES ASSUME DiskInv, NameFree, [Next]_vars PROVE NameFree'
  OBVIOUS
<1>1. CASE Cleanup \/ CleanupKilled \/ UNCHANGED vars
  BY <1>1 DEF Cleanup, CleanupScan, CleanupDelete, CleanupKilled, NameFree, vars, cpiVars
<1>2. ASSUME NEW p \in Proc, Step(p) \/ Director(p) \/ Crash(p) PROVE NameFree'
  <2>. DEFINE work == [job[p] EXCEPT !.seen = devs[job[p].vm]]
  <2>1. ASSUME pc'[p] = "attach_put" PROVE job'[p].seen[job'[p].dev] = None
    <3>1. AttachGet(p)
      BY <1>2, <2>1, OthersStay, StepAt
    <3>2. Goto(p, "attach_put", work) /\ devs[job[p].vm][job[p].dev] = None
      BY <2>1, <3>1 DEF AttachGet, Read, Request, Goto, Abort, DiskInv, TypeOK
    <3>3. job'[p] = work
      BY <3>2 DEF Goto, DiskInv, TypeOK
    <3>4. work.seen = devs[job[p].vm] /\ work.dev = job[p].dev
      BY Here DEF DiskInv, Job
    <3>. HIDE DEF work
    <3>. QED BY <3>2, <3>3, <3>4
  <2>. QED BY <1>2, <2>1, OthersStay DEF NameFree
<1>. QED BY <1>1, <1>2 DEF Next

OthersKept ==
    \A p \in Proc : pc[p] = "attach_put" /\ devs' # devs /\ pc'[p] # pc[p] =>
        \A v \in VM, d \in Dev : devs'[v][d] # devs[v][d] =>
            v = job[p].vm /\ d = job[p].dev /\ devs[v][d] = None

LEMMA AttachAdds == DiskInv /\ NameFree /\ [Next]_vars => OthersKept
<1>. SUFFICES ASSUME DiskInv, NameFree, [Next]_vars,
                     NEW p \in Proc, pc[p] = "attach_put", devs' # devs, pc'[p] # pc[p],
                     NEW v \in VM, NEW d \in Dev, devs'[v][d] # devs[v][d]
              PROVE  v = job[p].vm /\ d = job[p].dev /\ devs[v][d] = None
  BY DEF OthersKept
<1>. DEFINE j == job[p]
            table == [j.seen EXCEPT ![j.dev] = j.src]
<1>1. AttachPut(p)
  <2>1. PICK q \in Proc : Step(q) \/ Director(q) \/ Crash(q)
    BY DEF Next, Cleanup, CleanupScan, CleanupDelete, CleanupKilled, vars, cpiVars
  <2>2. q = p
    BY <2>1, OthersStay
  <2>3. ~Director(p) /\ ~Crash(p)
    BY DEF Director, CallCreateVM, CallDeleteVM, CallCreateDisk, CallDeleteDisk,
           CallAttachDisk, CallDetachDisk, Call, Crash, server
  <2>. QED BY <2>1, <2>2, <2>3, StepAt
<1>2. devs[j.vm] = j.seen /\ devs' = [devs EXCEPT ![j.vm] = table]
  BY <1>1 DEF AttachPut, Request, PutDevices, server
<1>3. j.vm \in VM /\ j.seen[j.dev] = None
  BY VMAt DEF DiskInv, NameFree
<1>4. v = j.vm /\ devs'[v] = table
  BY <1>2, <1>3 DEF DiskInv, TypeOK, ServerTypeOK
<1>5. devs[v] \in [Dev -> Vol \cup {None}]
  BY DevsType DEF DiskInv, DevTable
<1>6. d = j.dev
  BY <1>2, <1>4, <1>5
<1>. QED BY <1>2, <1>3, <1>4, <1>6

\* AttachDevice adds its device and changes no other, even where several calls work on one VM
\* at a time: its update is refused when the table is not the one it read.
THEOREM AttachAddsOnly == Spec => AttachKeepsOthers
<1>1. Init => DiskInv /\ NameFree
  BY DiskInvInit DEF Init, NameFree
<1>2. DiskInv /\ NameFree /\ [Next]_vars => (DiskInv /\ NameFree)'
  BY DiskInvNext, NameFreeNext
<1>3. Spec => [](DiskInv /\ NameFree)
  BY <1>1, <1>2, PTL DEF Spec
<1>4. DiskInv /\ NameFree /\ [Next]_vars => [OthersKept]_vars
  BY AttachAdds
<1>5. Spec => [][OthersKept]_vars
  BY <1>3, <1>4, PTL DEF Spec
<1>. QED BY <1>5 DEF AttachKeepsOthers, OthersKept

-----------------------------------------------------------------------------
(* attach_disk never gives two disks one path, even where the director runs several calls *)
(* on one VM at a time: the inductive invariant                                          *)

Distinct(e) == \A d1, d2 \in Disk : d1 # d2 /\ e[d1] = e[d2] => e[d1] = None

\* The requests of AttachDisk between the choice of the slot and the record of it.
Choosing == {"colocate", "copy_volume", "drop_source", "attach_get", "attach_put"}

\* The slot a call has chosen is free in the settings it has in hand.
SlotFree == \A p \in Proc : pc[p] \in Choosing /\ job[p].dev \in PersistentDev =>
    \A d \in Disk : job[p].env[d] # job[p].dev

SlotInv == TypeOK /\ EnvSlotsDistinct /\ SlotFree

-----------------------------------------------------------------------------
(* Steps that make no settings: they keep, copy or drop those they find. *)

\* The settings after the step are those before it.
Copies(p) ==
    /\ \A q \in Proc \ {p} : job'[q] = job[q] /\ pc'[q] = pc[q]
    /\ job'[p].env \in {job[p].env, None}
    /\ \A v \in VM : file'[v] \in {file[v], Absent, Torn, job[p].env}
    /\ \A c \in ConfVol : iso'[c] \in {iso[c], None, job[p].env}
    /\ pc'[p] \in Choosing /\ job'[p].dev \in PersistentDev =>
           /\ pc[p] \in Choosing
           /\ job'[p].dev = job[p].dev /\ job'[p].env = job[p].env

LEMMA CopiesKeeps ==
    ASSUME SlotInv, NEW p \in Proc, Copies(p), TypeOK'
    PROVE  SlotInv'
<1>1. Settings' \subseteq Settings
  BY DEF Settings, Copies
<1>2. SlotFree'
  BY DEF SlotInv, SlotFree, Copies
<1>. QED
  BY <1>1, <1>2 DEF SlotInv, EnvSlotsDistinct

SameSettings ==
    /\ \A v \in VM : file'[v] = file[v]
    /\ \A c \in ConfVol : iso'[c] \in {iso[c], None}

\* A request keeps the settings if its effect does and the locals it leaves are not those
\* of a slot newly chosen.
LEMMA CopiesIf ==
    ASSUME TypeOK, NEW p \in Proc, NEW next \in PC, NEW work,
           Goto(p, next, work) \/ Abort(p),
           work.env \in {job[p].env, None},
           next \in Choosing /\ work.dev \in PersistentDev =>
               pc[p] \in Choosing /\ work.dev = job[p].dev /\ work.env = job[p].env,
           SameSettings
    PROVE  Copies(p)
<1>1. Bare(p).env = None
  BY DEF Bare, NoJob
<1>2. /\ \A q \in Proc \ {p} : job'[q] = job[q] /\ pc'[q] = pc[q]
      /\ \/ pc'[p] = next /\ job'[p] = work
         \/ pc'[p] \in {"has_vm", "failed"} /\ job'[p] = Bare(p)
  BY DEF Goto, Abort, TypeOK
<1>. QED
  BY <1>1, <1>2 DEF Copies, SameSettings, Choosing

LEMMA CopiesRead ==
    ASSUME TypeOK, NEW p \in Proc, NEW ok, NEW next \in PC, NEW work, Read(p, ok, next, work),
           work.env \in {job[p].env, None},
           next \in Choosing /\ work.dev \in PersistentDev =>
               pc[p] \in Choosing /\ work.dev = job[p].dev /\ work.env = job[p].env
    PROVE  Copies(p)
<1>1. (Goto(p, next, work) \/ Abort(p)) /\ SameSettings
  BY DEF Read, Request, SameSettings, server
<1>. QED BY <1>1, CopiesIf

LEMMA BareEnv == ASSUME NEW p \in Proc PROVE Bare(p).env = None /\ Bare(p).dev = None
  BY DEF Bare, NoJob

LEMMA DeleteSame == ASSUME NEW x, DeleteVolume(x), UNCHANGED file PROVE SameSettings
  BY DEF DeleteVolume, SameSettings

LEMMA NoneNoSlot == {None, "config", "ephemeral"} \cap PersistentDev = {}
  BY ServerAssumption DEF PersistentDev

LEMMA CopyStep ==
    ASSUME TypeOK, NEW p \in Proc, Step(p),
           ~ReadEnv(p), ~AttachPut(p), ~Reply(p)
    PROVE  Copies(p)
<1>. DEFINE j == job[p]
<1>. USE DEF PC
<1>0. j \in Job /\ JobOK(pc[p], j)
  BY Here
<1>1. CASE CreateInstanceStep(p)
  BY <1>1, CopiesIf DEF CreateInstanceStep, Request, CreateInstance, Choosing, SameSettings, server
<1>2. CASE Locate(p)
  <2>. DEFINE work == [j EXCEPT !.node = host[j.vm]]
  <2>1. PICK next \in AfterLocate(p) : Read(p, Exists(j.vm), next, work)
    BY <1>2 DEF Locate
  <2>2. next \in PC \ Choosing
    BY DEF AfterLocate, Choosing
  <2>3. work.env = j.env
    BY <1>0 DEF Job
  <2>. HIDE DEF work
  <2>. QED BY <2>1, <2>2, <2>3, CopiesRead
<1>3. CASE CreateEphemeral(p)
  <2>. DEFINE work == [j EXCEPT !.node = None, !.dev = "ephemeral", !.src = EphOf(j.vm)]
  <2>1. /\ Goto(p, "attach_get", work) \/ Abort(p)
        /\ SameSettings
    BY <1>3 DEF CreateEphemeral, Request, CreateVolume, SameSettings, server
  <2>2. work.env = j.env /\ work.dev = "ephemeral"
    BY <1>0 DEF Job
  <2>. HIDE DEF work
  <2>. QED BY <2>1, <2>2, NoneNoSlot, CopiesIf
<1>4. CASE StartVM(p)
  BY <1>4, BareEnv, CopiesIf DEF StartVM, Request, StartInstance, Choosing, SameSettings, server
<1>5. CASE AttachGet(p)
  <2>. DEFINE work == [j EXCEPT !.seen = devs[j.vm]]
  <2>1. Read(p, Exists(j.vm) /\ devs[j.vm][j.dev] = None, "attach_put", work)
    BY <1>5 DEF AttachGet
  <2>2. work.env = j.env /\ work.dev = j.dev /\ pc[p] \in Choosing
    BY <1>0, <1>5 DEF AttachGet, Job, Choosing
  <2>. HIDE DEF work
  <2>. QED BY <2>1, <2>2, CopiesRead
<1>6. CASE ConfigGet(p)
  <2>. DEFINE there == devs[j.vm]["config"] # None
              next == IF there THEN "detach_put" ELSE "check_stopped"
              work == IF there THEN [j EXCEPT !.seen = devs[j.vm]] ELSE j
  <2>1. Read(p, Exists(j.vm), next, work) /\ next \in PC \ Choosing
    BY <1>6 DEF ConfigGet, Choosing
  <2>2. work.env = j.env
    BY <1>0 DEF Job
  <2>. HIDE DEF work, next
  <2>. QED BY <2>1, <2>2, CopiesRead
<1>7. CASE DetachGet(p)
  <2>1. CASE Read(p, Exists(j.vm), "read_env", j)
    BY <2>1, CopiesRead DEF Choosing
  <2>2. ASSUME NEW d \in Dev,
               Read(p, Exists(j.vm), "detach_put", [j EXCEPT !.dev = d, !.seen = devs[j.vm]])
        PROVE  Copies(p)
    <3>. DEFINE work == [j EXCEPT !.dev = d, !.seen = devs[j.vm]]
    <3>1. Read(p, Exists(j.vm), "detach_put", work) /\ work.env = j.env
      BY <1>0, <2>2 DEF Job
    <3>. HIDE DEF work
    <3>. QED BY <3>1, CopiesRead DEF Choosing
  <2>. QED BY <1>7, <2>1, <2>2 DEF DetachGet
<1>8. CASE DetachPut(p)
  <2>. DEFINE next == IF j.dev = "config" THEN "check_stopped" ELSE "read_env"
              work == IF j.dev = "config" THEN [j EXCEPT !.seen = None] ELSE Bare(p)
  <2>1. work.env \in {j.env, None}
    BY <1>0, BareEnv DEF Job
  <2>2. (Goto(p, next, work) \/ Abort(p)) /\ SameSettings
    BY <1>8 DEF DetachPut, Request, PutDevices, SameSettings, server
  <2>3. next \in PC \ Choosing
    BY DEF Choosing
  <2>. HIDE DEF work, next
  <2>. QED BY <2>1, <2>2, <2>3, CopiesIf
<1>9. CASE WriteEnv(p)
  <2>1. /\ \A q \in Proc \ {p} : job'[q] = job[q] /\ pc'[q] = pc[q]
        /\ pc'[p] \in {"locate_vm", "has_vm", "failed"}
        /\ job'[p].env \in {j.env, None}
    BY <1>9, BareEnv DEF WriteEnv, Goto, Abort, TypeOK
  <2>2. /\ \A v \in VM : file'[v] \in {file[v], Torn, j.env}
        /\ \A c \in ConfVol : iso'[c] = iso[c]
    BY <1>9, VMAt DEF WriteEnv, TypeOK, server
  <2>. QED BY <2>1, <2>2 DEF Copies, Choosing
<1>10. CASE CreateConfig(p)
  <2>1. PICK c \in ConfVol :
           Request(p, TRUE, CreateISO(c, j.node, j.env), "find_config",
                   [Bare(p) EXCEPT !.dev = "config", !.src = c])
    BY <1>10 DEF CreateConfig
  <2>. DEFINE work == [Bare(p) EXCEPT !.dev = "config", !.src = c]
  <2>2. work.env = None
    BY DEF Bare, NoJob
  <2>3. Goto(p, "find_config", work) \/ Abort(p)
    BY <2>1 DEF Request
  <2>4. /\ \A v \in VM : file'[v] = file[v]
        /\ \A x \in ConfVol : iso'[x] \in {iso[x], j.env}
    BY <2>1 DEF Request, CreateISO, server, TypeOK, ServerTypeOK
  <2>. HIDE DEF work
  <2>5. /\ \A q \in Proc \ {p} : job'[q] = job[q] /\ pc'[q] = pc[q]
        /\ pc'[p] \in {"find_config", "has_vm", "failed"}
        /\ job'[p].env = None
    BY <2>2, <2>3, BareEnv DEF Goto, Abort, TypeOK
  <2>. QED BY <2>4, <2>5 DEF Copies, Choosing
<1>11. CASE FindConfig(p)
  <2>. DEFINE old == devs[j.vm]["config"]
              next == IF old = None THEN "attach_get" ELSE "config_get"
              work == [j EXCEPT !.trash = {old} \ {None}]
  <2>1. Read(p, Exists(j.vm), next, work)
    BY <1>11 DEF FindConfig
  <2>2. next \in PC /\ work.env = j.env /\ work.dev = "config"
    BY <1>0, <1>11 DEF FindConfig, Job, JobOK
  <2>. HIDE DEF work, next
  <2>. QED BY <2>1, <2>2, NoneNoSlot, CopiesRead
<1>12. CASE CheckStopped(p)
  <2>. DEFINE work == [j EXCEPT !.trash = {}]
  <2>1. Read(p, Exists(j.vm), "attach_get", work) \/ Read(p, Exists(j.vm), "delete_config", j)
    BY <1>12 DEF CheckStopped
  <2>2. work.env = j.env /\ work.dev = "config"
    BY <1>0, <1>12 DEF CheckStopped, Job, JobOK
  <2>. HIDE DEF work
  <2>. QED BY <2>1, <2>2, NoneNoSlot, CopiesRead DEF Choosing
<1>13. CASE DeleteConfig(p)
  <2>. DEFINE work == [j EXCEPT !.trash = {}]
  <2>1. PICK c \in j.trash :
           Request(p, CanDeleteVolume(c), DeleteVolume(c), "attach_get", work)
    BY <1>13 DEF DeleteConfig
  <2>2. (Goto(p, "attach_get", work) \/ Abort(p)) /\ SameSettings
    BY <2>1, DeleteSame DEF Request, SameSettings, server
  <2>3. work.env = j.env /\ work.dev = "config"
    BY <1>0, <1>13 DEF DeleteConfig, Job, JobOK
  <2>. HIDE DEF work
  <2>. QED BY <2>2, <2>3, NoneNoSlot, CopiesIf
<1>14. CASE Colocate(p)
  <2>0. pc[p] \in Choosing
    BY <1>14 DEF Colocate, Choosing
  <2>1. CASE Read(p, Exists(j.vm), "attach_get", j) \/ Read(p, FALSE, "failed", j)
    BY <2>0, <2>1, CopiesRead
  <2>2. ASSUME NEW n \in Node,
               Read(p, Exists(j.vm), "copy_volume", [j EXCEPT !.node = n, !.to = host[j.vm]])
        PROVE  Copies(p)
    <3>. DEFINE work == [j EXCEPT !.node = n, !.to = host[j.vm]]
    <3>1. Read(p, Exists(j.vm), "copy_volume", work) /\ work.env = j.env /\ work.dev = j.dev
      BY <1>0, <2>2 DEF Job
    <3>. HIDE DEF work
    <3>. QED BY <2>0, <3>1, CopiesRead
  <2>. QED BY <1>14, <2>1, <2>2 DEF Colocate
<1>15. CASE CopyVolumeStep(p)
  BY <1>15, CopiesIf DEF CopyVolumeStep, Request, CopyVolume, Choosing, SameSettings, server
<1>16. CASE DropSource(p)
  <2>. DEFINE work == [j EXCEPT !.node = None, !.to = None]
  <2>1. /\ Goto(p, "attach_get", work) \/ Abort(p)
        /\ SameSettings /\ pc[p] \in Choosing
    BY <1>16 DEF DropSource, Request, DropCopy, SameSettings, server, Choosing
  <2>2. work.env = j.env /\ work.dev = j.dev
    BY <1>0 DEF Job
  <2>. HIDE DEF work
  <2>. QED BY <2>1, <2>2, CopiesIf
<1>17. CASE HasVM(p)
  BY <1>17, CopiesRead DEF HasVM, Choosing
<1>18. CASE StopVM(p)
  BY <1>18, CopiesIf DEF StopVM, Request, StopInstance, Choosing, SameSettings, server
<1>19. CASE ListDisks(p)
  <2>. DEFINE work == [j EXCEPT !.trash = {devs[j.vm]["config"], devs[j.vm]["ephemeral"]} \ {None}]
  <2>1. Read(p, Exists(j.vm), "delete_instance", work) /\ work.env = j.env
    BY <1>0, <1>19 DEF ListDisks, Job
  <2>. HIDE DEF work
  <2>. QED BY <2>1, CopiesRead DEF Choosing
<1>20. CASE DeleteInstanceStep(p)
  <2>1. PICK next \in {"delete_file", "delete_volumes"} : Goto(p, next, j) \/ Abort(p)
    BY <1>20 DEF DeleteInstanceStep, Request
  <2>2. SameSettings
    BY <1>20 DEF DeleteInstanceStep, Request, DeleteInstance, SameSettings, server
  <2>. QED BY <2>1, <2>2, CopiesIf DEF Choosing
<1>21. CASE DeleteVolumes(p)
  <2>1. PICK x \in j.trash :
           Request(p, CanDeleteVolume(x), DeleteVolume(x),
                   IF j.trash = {x} THEN "delete_file" ELSE "delete_volumes",
                   [j EXCEPT !.trash = @ \ {x}])
    BY <1>21 DEF DeleteVolumes
  <2>. DEFINE next == IF j.trash = {x} THEN "delete_file" ELSE "delete_volumes"
              work == [j EXCEPT !.trash = @ \ {x}]
  <2>2. (Goto(p, next, work) \/ Abort(p)) /\ SameSettings
    BY <2>1, DeleteSame DEF Request, SameSettings, server
  <2>3. work.env = j.env /\ next \in PC \ Choosing
    BY <1>0 DEF Job, Choosing
  <2>. HIDE DEF work, next
  <2>. QED BY <2>2, <2>3, CopiesIf
<1>22. CASE DeleteFile(p)
  <2>1. PICK next \in {"ok", "failed"} : Goto(p, next, Bare(p)) \/ Abort(p)
    BY <1>22 DEF DeleteFile
  <2>2. /\ \A q \in Proc \ {p} : job'[q] = job[q] /\ pc'[q] = pc[q]
        /\ pc'[p] \in {"ok", "has_vm", "failed"}
        /\ job'[p].env = None
    BY <2>1, BareEnv DEF Goto, Abort, TypeOK
  <2>3. /\ \A v \in VM : file'[v] \in {file[v], Absent}
        /\ \A c \in ConfVol : iso'[c] = iso[c]
    BY <1>22 DEF DeleteFile, TypeOK, server
  <2>. QED BY <2>2, <2>3 DEF Copies, Choosing
<1>23. CASE CreateDisk(p)
  BY <1>23, BareEnv, CopiesIf DEF CreateDisk, Request, CreateVolume, Choosing, SameSettings, server
<1>24. CASE DeleteDisk(p)
  <2>1. (Goto(p, "ok", Bare(p)) \/ Abort(p)) /\ SameSettings
    BY <1>24, DeleteSame DEF DeleteDisk, Request, SameSettings, server
  <2>. QED BY <2>1, BareEnv, CopiesIf DEF Choosing
<1>. QED
  BY <1>1, <1>2, <1>3, <1>4, <1>5, <1>6, <1>7, <1>8, <1>9, <1>10, <1>11, <1>12, <1>13, <1>14,
     <1>15, <1>16, <1>17, <1>18, <1>19, <1>20, <1>21, <1>22, <1>23, <1>24 DEF Step

-----------------------------------------------------------------------------
(* The steps that make settings *)

\* One process gets settings of its own, and nothing else is new.
LEMMA NewSettings ==
    ASSUME SlotInv, NEW p \in Proc, NEW next, NEW work,
           Goto(p, next, work), UNCHANGED <<file, iso>>,
           work.env \in Env => Distinct(work.env),
           next \in Choosing /\ work.dev \in PersistentDev => \A d \in Disk : work.env[d] # work.dev,
           TypeOK'
    PROVE  SlotInv'
<1>1. /\ \A q \in Proc \ {p} : job'[q] = job[q] /\ pc'[q] = pc[q]
      /\ job'[p] = work /\ pc'[p] = next
  BY DEF SlotInv, TypeOK, Goto
<1>2. Settings' \subseteq Settings \cup {work.env}
  BY <1>1 DEF Settings
<1>3. \A e \in Settings : Distinct(e)
  BY DEF SlotInv, EnvSlotsDistinct, Distinct
<1>4. work.env \in Settings' => work.env \in Env
  <2>1. work.env \in Env \cup {None}
    BY <1>1 DEF TypeOK, Job
  <2>. QED BY <2>1 DEF Settings
<1>5. \A e \in Settings' : Distinct(e)
  BY <1>2, <1>3, <1>4
<1>6. SlotFree'
  BY <1>1 DEF SlotInv, SlotFree
<1>. QED
  BY <1>5, <1>6 DEF SlotInv, EnvSlotsDistinct, Distinct

\* The path attach_disk picks is free in the settings it picks it by.
LEMMA FreeSlotIsFree ==
    ASSUME NEW e, FreeSlot(e) # None
    PROVE  FreeSlot(e) \in PersistentDev /\ \A d \in Disk : e[d] # FreeSlot(e)
  BY DEF FreeSlot, PersistentDev

LEMMA ReadEnvSlots == ASSUME SlotInv, NEW p \in Proc, ReadEnv(p), TypeOK' PROVE SlotInv'
<1>. DEFINE e == file[job[p].vm]
            attach == [job[p] EXCEPT !.dev = FreeSlot(e), !.src = job[p].disk, !.env = e]
            detach == [job[p] EXCEPT !.env = [e EXCEPT ![job[p].disk] = None]]
<1>0. /\ TypeOK /\ job[p] \in Job /\ job[p].vm \in VM /\ job[p].disk \in Disk
  BY OpAt, VMAt, Here DEF ReadEnv, SlotInv, JobOK
<1>1. e \in Env \cup {Absent, Torn} /\ (e \in Env => Distinct(e))
  <2>1. e \in Env \cup {Absent, Torn}
    BY <1>0 DEF TypeOK
  <2>2. e \in Env => e \in Settings
    BY <1>0, ServerAssumption, LifecycleAssumption DEF Settings
  <2>. QED BY <2>1, <2>2 DEF SlotInv, EnvSlotsDistinct, Distinct
<1>2. /\ UNCHANGED <<file, iso>>
      /\ \/ Goto(p, "colocate", attach) /\ e \notin {Absent, Torn} /\ FreeSlot(e) # None
         \/ Goto(p, "write_env", detach) /\ e \notin {Absent, Torn}
         \/ Abort(p)
  BY DEF ReadEnv, Read, Request, server
<1>3. CASE Goto(p, "colocate", attach) /\ e \notin {Absent, Torn} /\ FreeSlot(e) # None
  <2>1. attach.env = e /\ attach.dev = FreeSlot(e)
    BY <1>0 DEF Job
  <2>2. \A d \in Disk : e[d] # FreeSlot(e)
    BY <1>3, FreeSlotIsFree
  <2>. HIDE DEF attach, e
  <2>. QED BY <1>1, <1>2, <1>3, <2>1, <2>2, NewSettings
<1>4. CASE Goto(p, "write_env", detach) /\ e \notin {Absent, Torn}
  <2>. DEFINE e2 == [e EXCEPT ![job[p].disk] = None]
  <2>1. detach.env = e2
    BY <1>0 DEF Job
  <2>2. Distinct(e2)
    <3>1. e \in [Disk -> PersistentDev \cup {None}] /\ Distinct(e)
      BY <1>1, <1>4 DEF Env
    <3>. HIDE DEF e
    <3>2. \A d \in Disk : e2[d] = IF d = job[p].disk THEN None ELSE e[d]
      BY <3>1
    <3>. HIDE DEF e2
    <3>. QED BY <3>1, <3>2 DEF Distinct
  <2>. HIDE DEF detach, e2
  <2>. QED BY <1>2, <1>4, <2>1, <2>2, NewSettings DEF Choosing
<1>5. CASE Abort(p)
  <2>1. Bare(p).env = None /\ None \notin Env
    BY BareEnv, ServerAssumption
  <2>. QED BY <1>2, <1>5, <2>1, NewSettings DEF Abort, Choosing
<1>. QED BY <1>2, <1>3, <1>4, <1>5

LEMMA AttachPutSlots == ASSUME SlotInv, NEW p \in Proc, AttachPut(p), TypeOK' PROVE SlotInv'
<1>. DEFINE j == job[p]
            next == AfterAttach(p)
            work == IF j.dev = "config" THEN Bare(p) ELSE [Bare(p) EXCEPT !.env = WithAttached(j)]
<1>0. TypeOK /\ j \in Job /\ JobOK(pc[p], j) /\ pc[p] = "attach_put" /\ None \notin Env
  BY Here, ServerAssumption DEF AttachPut, SlotInv
<1>1. /\ UNCHANGED <<file, iso>>
      /\ Goto(p, next, work) \/ Abort(p)
  BY DEF AttachPut, Request, PutDevices, server
<1>2. next \notin Choosing
  BY DEF AfterAttach, Choosing
<1>3. work.env \in Env => Distinct(work.env)
  <2>1. CASE j.dev = "config"
    BY <1>0, <2>1, BareEnv
  <2>2. CASE j.dev # "config"
    <3>1. work.env = WithAttached(j)
      BY <2>2 DEF Bare, NoJob
    <3>2. j.env \in Env /\ Distinct(j.env)
      <4>1. j.env \in Env
        BY <1>0, <2>2 DEF JobOK, Job
      <4>2. j.env \in Settings
        BY <4>1, ServerAssumption, LifecycleAssumption DEF Settings
      <4>. QED BY <4>1, <4>2 DEF SlotInv, EnvSlotsDistinct, Distinct
    <3>3. CASE j.dev \in PersistentDev
      <4>1. \A d \in Disk : j.env[d] # j.dev
        BY <1>0, <3>3 DEF SlotInv, SlotFree, Choosing
      <4>2. \A d \in Disk : WithAttached(j)[d] = IF d = j.disk THEN j.dev ELSE j.env[d]
        BY <3>2, <3>3 DEF WithAttached, Env
      <4>. HIDE DEF j
      <4>. QED BY <3>1, <3>2, <4>1, <4>2 DEF Distinct
    <3>4. CASE j.dev \notin PersistentDev
      BY <3>1, <3>2, <3>4 DEF WithAttached
    <3>. QED BY <3>3, <3>4
  <2>. QED BY <2>1, <2>2
<1>. HIDE DEF work, next
<1>4. CASE Goto(p, next, work)
  BY <1>1, <1>2, <1>3, <1>4, NewSettings
<1>5. CASE Abort(p)
  BY <1>0, <1>1, <1>5, BareEnv, NewSettings DEF Abort, Choosing
<1>. QED BY <1>1, <1>4, <1>5

LEMMA EndSlots ==
    ASSUME SlotInv, NEW p \in Proc, Goto(p, "idle", NoJob), UNCHANGED server,
           \A v \in VM : file'[v] \in {file[v], Torn}, TypeOK'
    PROVE  SlotInv'
<1>1. Copies(p)
  BY DEF Copies, Goto, NoJob, SlotInv, TypeOK, server, Choosing
<1>. QED BY <1>1, CopiesKeeps

LEMMA StepSlots == ASSUME SlotInv, NEW p \in Proc, Step(p), TypeOK' PROVE SlotInv'
<1>1. CASE Reply(p)
  BY <1>1, EndSlots DEF Reply
<1>2. CASE ~ReadEnv(p) /\ ~AttachPut(p) /\ ~Reply(p)
  BY <1>2, CopyStep, CopiesKeeps DEF SlotInv
<1>. QED BY <1>1, <1>2, ReadEnvSlots, AttachPutSlots

LEMMA CallSlots ==
    ASSUME SlotInv, NEW p \in Proc, NEW op \in VMOps \cup DiskOps, NEW v, NEW d, NEW env,
           Call(p, op, v, d, env), env \in {None, NoDisks}, TypeOK'
    PROVE  SlotInv'
<1>. DEFINE work == [NoJob EXCEPT !.op = op, !.vm = v, !.disk = d, !.env = env]
<1>1. Goto(p, Start[op], work) /\ UNCHANGED <<file, iso>>
  BY DEF Call, server
<1>2. Start[op] \notin Choosing
  BY DEF Start, Choosing, VMOps, DiskOps
<1>3. work.env = env
  BY DEF NoJob
<1>4. Distinct(NoDisks) /\ None \notin Env
  BY ServerAssumption DEF Distinct, NoDisks
<1>. HIDE DEF work
<1>. QED BY <1>1, <1>2, <1>3, <1>4, NewSettings

LEMMA DirectorSlots == ASSUME SlotInv, NEW p \in Proc, Director(p), TypeOK' PROVE SlotInv'
<1>1. \E op \in VMOps \cup DiskOps, v \in VM \cup {None}, d \in Disk \cup {None},
         env \in {None, NoDisks} : Call(p, op, v, d, env)
  BY DEF Director, CallCreateVM, CallDeleteVM, CallCreateDisk, CallAttachDisk, CallDetachDisk,
         CallDeleteDisk, VMOps, DiskOps
<1>. QED BY <1>1, CallSlots

\* What changes no settings and no call keeps the invariant.
LEMMA IdleSlots ==
    ASSUME SlotInv, UNCHANGED <<pc, job>>, SameSettings, TypeOK'
    PROVE  SlotInv'
<1>1. Settings' \subseteq Settings
  BY DEF Settings, SameSettings
<1>. QED
  BY <1>1 DEF SlotInv, EnvSlotsDistinct, SlotFree

LEMMA SlotInvNext == SlotInv /\ [Next]_vars => SlotInv'
<1>. SUFFICES ASSUME SlotInv, [Next]_vars PROVE SlotInv'
  OBVIOUS
<1>0. TypeOK'
  BY NextType DEF SlotInv
<1>1. CASE Cleanup \/ CleanupKilled
  <2>1. UNCHANGED <<pc, job>>
    BY <1>1 DEF Cleanup, CleanupScan, CleanupDelete, CleanupKilled
  <2>2. SameSettings
    BY <1>1, DeleteSame
    DEF Cleanup, CleanupScan, CleanupDelete, CleanupKilled, SameSettings, server
  <2>. QED BY <1>0, <2>1, <2>2, IdleSlots
<1>2. ASSUME NEW p \in Proc, Step(p) \/ Director(p) PROVE SlotInv'
  BY <1>0, <1>2, StepSlots, DirectorSlots
<1>3. ASSUME NEW p \in Proc, Crash(p) PROVE SlotInv'
  <2>1. \A v \in VM : file'[v] \in {file[v], Torn}
    BY <1>3 DEF Crash, SlotInv, TypeOK
  <2>. QED BY <1>0, <1>3, <2>1, EndSlots DEF Crash
<1>4. CASE UNCHANGED vars
  <2>1. UNCHANGED <<pc, job>> /\ SameSettings
    BY <1>4 DEF vars, cpiVars, server, SameSettings
  <2>. QED BY <1>0, <2>1, IdleSlots
<1>. QED BY <1>1, <1>2, <1>3, <1>4 DEF Next

LEMMA SlotInvInit == Init => SlotInv
<1>. SUFFICES ASSUME Init PROVE SlotInv
  OBVIOUS
<1>1. Settings = {}
  BY DEF Init, ServerInit, NoJob, Settings
<1>2. SlotFree
  BY DEF Init, SlotFree, Choosing
<1>. QED BY <1>1, <1>2, InitType DEF SlotInv, EnvSlotsDistinct

\* No agent.json, no configuration disk and no call ever has two disks at one path, for any
\* number of disks, whatever fails and however the calls on a VM overlap: attach_disk picks
\* a path that is free in the very settings it then changes and writes.
THEOREM SlotsDistinct == Spec => []EnvSlotsDistinct
<1>1. Spec => []SlotInv
  BY SlotInvInit, SlotInvNext, PTL DEF Spec
<1>2. SlotInv => EnvSlotsDistinct
  BY DEF SlotInv
<1>. QED BY <1>1, <1>2, PTL

=============================================================================
