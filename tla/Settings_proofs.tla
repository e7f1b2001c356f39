---------------------------- MODULE Settings_proofs ----------------------------
(***************************************************************************)
(* What agent.json, the configuration disk and the device table of a VM    *)
(* say of each other, and what a failed create_vm leaves, for every number *)
(* of VMs, disks, members and processes, with requests that fail, killed   *)
(* processes and torn files, where the director runs one call on a VM at a *)
(* time.                                                                   *)
(***************************************************************************)
EXTENDS VMRefinement_proofs

-----------------------------------------------------------------------------
(* The inductive invariant *)

\* The settings e say where disk d of VM v is.
Records(e, v, d) == \E s \in PersistentDev : e[d] = s /\ devs[v][s] = d

Readable(e) == e \notin {Absent, Torn}

\* A disk whose attach the director has seen succeed.
Attached(d, v) == owner[d] = v /\ d \notin unsure /\ Exists(v)

\* The requests of attach_disk and detach_disk after agent.json is written.
Written(p) ==
    /\ job[p].op \in {"attach_disk", "detach_disk"}
    /\ pc[p] \in {"locate_vm", "create_config", "start_vm", "ok"} \/ job[p].dev = "config"

\* The settings in hand and those in agent.json name the disks the director has attached.
EnvRecords == \A p \in Proc, d \in Disk :
    job[p].op \in VMOps /\ job[p].env # None /\ Attached(d, job[p].vm) => Records(job[p].env, job[p].vm, d)
AttachRecords == \A p \in Proc : job[p].op = "attach_disk" /\ Exists(job[p].vm) =>
    /\ pc[p] = "write_env" => Records(job[p].env, job[p].vm, job[p].disk)
    /\ Written(p) => Readable(file[job[p].vm]) /\ Records(file[job[p].vm], job[p].vm, job[p].disk)

\* They name no other disks, on VMs no call has failed on.
FileOwned == \A v \in VM, d \in Disk :
    Clean(v) /\ Readable(file[v]) /\ file[v][d] # None => owner[d] = v
EnvOwned == \A p \in Proc, d \in Disk :
    job[p].op \in VMOps /\ job[p].env # None /\ Clean(job[p].vm) /\ job[p].env[d] # None =>
        owner[d] = job[p].vm
DetachForgets == \A p \in Proc : job[p].op = "detach_disk" =>
    /\ pc[p] = "write_env" => job[p].env[job[p].disk] = None
    /\ Written(p) => Readable(file[job[p].vm]) /\ file[job[p].vm][job[p].disk] = None
DeleteForgets == \A p \in Proc : job[p].op = "delete_vm" /\ pc[p] = "ok" => file[job[p].vm] = Absent

\* What the director knows: a VM that is not there yet has no disks.
NewIsFree == \A v \in VM, d \in Disk : cid[v] \in {"free", "pending", "failed"} => owner[d] # v
Creating == \A p \in Proc : job[p].op = "create_vm" => cid[job[p].vm] = "pending"
CallUnsure == \A p \in Proc : job[p].op \in {"attach_disk", "detach_disk"} => job[p].disk \in unsure

\* The configuration disk of v holds what agent.json says.
Synced(v) == \E c \in ConfVol : devs[v]["config"] = c /\ iso[c] = file[v]
IdleSynced == \A v \in VM :
    cid[v] = "known" /\ trust[v] # "broken" /\ (\A p \in Proc : job[p].vm = v => job[p].op \in DiskOps)
        => Synced(v)
InHand == \A p \in Proc :
    pc[p] \in {"locate_vm", "create_config"} => file[job[p].vm] = job[p].env
OnDisk == \A p \in Proc : job[p].dev = "config" =>
    vols[job[p].src] = {} \/ iso[job[p].src] = file[job[p].vm]
CallSynced == \A p \in Proc :
    pc[p] \in {"start_vm", "ok"} /\ job[p].op \in {"create_vm", "attach_disk", "detach_disk"} =>
        Synced(job[p].vm)

RecordInv ==
    /\ AttachedIsRecorded /\ EnvRecords /\ AttachRecords
    /\ FileOwned /\ EnvOwned /\ DetachForgets /\ DeleteForgets
    /\ NewIsFree /\ Creating /\ CallUnsure

SyncInv == IdleSynced /\ InHand /\ OnDisk /\ CallSynced

-----------------------------------------------------------------------------
(* What the steps of a call do to settings *)

\* Where a call may go on without having touched agent.json.
Flows(p, next, work) ==
    /\ next = "write_env" => job[p].op = "create_vm"
    /\ next # "locate_vm"
    /\ next = "create_config" => pc[p] = "locate_vm" /\ work.env = job[p].env
    /\ next \in {"start_vm", "ok"} => pc[p] = "start_vm" \/ job[p].op \in DiskOps
    /\ work.dev = "config" => job[p].dev = "config" /\ work.src = job[p].src
    /\ work.env \in {job[p].env, None}

Passes(p) == UNCHANGED file /\ Flows(p, pc'[p], job'[p])

ReadsFile(p) ==
    /\ pc[p] = "read_env" /\ UNCHANGED file /\ Readable(file[job[p].vm])
    /\ job'[p].dev # "config"
    /\ \/ job[p].op = "attach_disk" /\ pc'[p] = "colocate" /\ job'[p].env = file[job[p].vm]
       \/ /\ job[p].op = "detach_disk" /\ pc'[p] = "write_env"
          /\ job'[p].env = [file[job[p].vm] EXCEPT ![job[p].disk] = None]

WritesFile(p) ==
    /\ pc[p] = "write_env" /\ file' = [file EXCEPT ![job[p].vm] = job[p].env]
    /\ pc'[p] = "locate_vm" /\ job'[p].dev # "config" /\ job'[p].env = job[p].env

\* WriteEnv fails, or the process is killed in it.
TearsFile(p) ==
    /\ pc[p] = "write_env"
    /\ \E left \in {file[job[p].vm], Torn, job[p].env} : file' = [file EXCEPT ![job[p].vm] = left]
    /\ pc'[p] \in {"has_vm", "failed"} /\ job'[p].dev # "config" /\ job'[p].env = None

BurnsDisk(p) ==
    /\ pc[p] = "create_config" /\ UNCHANGED file
    /\ pc'[p] = "find_config" /\ job'[p].env = None
    /\ job'[p].src \in ConfVol /\ iso'[job'[p].src] = job[p].env

NotesDisk(p) ==
    /\ pc[p] = "attach_put" /\ job[p].op = "attach_disk" /\ job[p].dev \in PersistentDev
    /\ UNCHANGED file /\ devs'[job[p].vm][job[p].dev] = job[p].disk
    /\ pc'[p] = "write_env" /\ job'[p].dev # "config"
    /\ job'[p].env = [job[p].env EXCEPT ![job[p].disk] = job[p].dev]

InsertsDisk(p) ==
    /\ pc[p] = "attach_put" /\ job[p].dev = "config"
    /\ UNCHANGED <<file, iso>> /\ devs'[job[p].vm]["config"] = job[p].src /\ vols[job[p].src] # {}
    /\ pc'[p] \in {"start_vm", "ok"} /\ job'[p].dev # "config" /\ job'[p].env = None

ForgetsFile(p) ==
    /\ pc[p] = "delete_file" /\ file' = [file EXCEPT ![job[p].vm] = Absent]
    /\ pc'[p] = IF job[p].op = "delete_vm" THEN "ok" ELSE "failed"
    /\ job'[p].dev # "config" /\ job'[p].env = None

Handles(p) ==
    \/ Passes(p) \/ ReadsFile(p) \/ WritesFile(p) \/ TearsFile(p)
    \/ BurnsDisk(p) \/ NotesDisk(p) \/ InsertsDisk(p) \/ ForgetsFile(p)

LEMMA AbortFlows ==
    ASSUME TypeOK, NEW p \in Proc, Abort(p)
    PROVE  /\ pc'[p] \in {"has_vm", "failed"} /\ job'[p].dev # "config" /\ job'[p].env = None
           /\ Flows(p, pc'[p], job'[p])
<1>1. PICK n \in {"has_vm", "failed"} : Goto(p, n, Bare(p))
  BY DEF Abort
<1>2. Bare(p).dev = None /\ Bare(p).env = None /\ None # "config"
  BY NoneNoDev DEF Bare, NoJob, Dev
<1>3. pc'[p] = n /\ job'[p] = Bare(p)
  BY <1>1, AfterGoto
<1>. QED BY <1>2, <1>3 DEF Flows

LEMMA PassesIf ==
    ASSUME TypeOK, NEW p \in Proc, NEW next, NEW work, Flows(p, next, work),
           Goto(p, next, work) \/ Abort(p), UNCHANGED file
    PROVE  Handles(p)
<1>1. CASE Abort(p)
  BY <1>1, AbortFlows DEF Handles, Passes
<1>2. CASE Goto(p, next, work)
  BY <1>2, AfterGoto DEF Handles, Passes
<1>. QED BY <1>1, <1>2

LEMMA PassesRead ==
    ASSUME TypeOK, NEW p \in Proc, NEW ok, NEW effect, NEW next, NEW work, Flows(p, next, work),
           Request(p, ok, effect, next, work)
    PROVE  Handles(p)
  BY PassesIf DEF Request

LEMMA BareEnvDev ==
    ASSUME NEW p \in Proc
    PROVE  Bare(p).env = None /\ Bare(p).dev = None /\ Bare(p).dev # "config"
  BY NoneNoDev DEF Bare, NoJob, Dev

-----------------------------------------------------------------------------
(* Each request is one of these *)

LEMMA CreateInstanceHandles == ASSUME TypeOK, ConfigAt, NEW p \in Proc, CreateInstanceStep(p) PROVE Handles(p)
<1>1. Flows(p, "locate", job[p]) /\ UNCHANGED file /\ (Goto(p, "locate", job[p]) \/ Abort(p))
  BY DEF CreateInstanceStep, Request, Flows
<1>. QED BY <1>1, PassesIf

LEMMA LocateHandles == ASSUME TypeOK, ConfigAt, NEW p \in Proc, Locate(p) PROVE Handles(p)
<1>. DEFINE j == job[p]
            work == [j EXCEPT !.node = host[j.vm]]
<1>1. j \in Job /\ pc[p] \in {"locate", "locate_vm"}
      /\ (pc[p] = "locate" => j.op \in {"create_vm", "create_disk"})
  BY Here DEF Locate, JobOK, Job, RequestsOf, WriteRequests, DeleteRequests, VMOps, DiskOps
<1>2. PICK next \in AfterLocate(p) : Read(p, Exists(j.vm), next, work)
  BY DEF Locate
<1>3. work.dev = j.dev /\ work.src = j.src /\ work.env = j.env
  BY <1>1 DEF Job
<1>4. /\ next \in {"create_config", "create_disk", "create_ephemeral", "write_env"}
      /\ next = "create_config" => pc[p] = "locate_vm"
      /\ next = "write_env" => j.op = "create_vm"
  BY <1>1 DEF AfterLocate
<1>. HIDE DEF work
<1>5. Flows(p, next, work) /\ UNCHANGED file /\ (Goto(p, next, work) \/ Abort(p))
  BY <1>2, <1>3, <1>4 DEF Read, Request, Flows
<1>. QED BY <1>5, PassesIf

LEMMA CreateEphemeralHandles == ASSUME TypeOK, ConfigAt, NEW p \in Proc, CreateEphemeral(p) PROVE Handles(p)
<1>. DEFINE j == job[p]
            work == [j EXCEPT !.node = None, !.dev = "ephemeral", !.src = EphOf(j.vm)]
<1>1. work.dev = "ephemeral" /\ work.env = j.env
  BY Here DEF Job
<1>2. UNCHANGED file /\ (Goto(p, "attach_get", work) \/ Abort(p))
  BY DEF CreateEphemeral, Request
<1>. HIDE DEF work
<1>3. Flows(p, "attach_get", work)
  BY <1>1 DEF Flows
<1>. QED BY <1>2, <1>3, PassesIf

LEMMA StartVMHandles == ASSUME TypeOK, ConfigAt, NEW p \in Proc, StartVM(p) PROVE Handles(p)
<1>1. Flows(p, "ok", Bare(p)) /\ UNCHANGED file /\ (Goto(p, "ok", Bare(p)) \/ Abort(p))
  BY BareEnvDev DEF StartVM, Request, Flows
<1>. QED BY <1>1, PassesIf

LEMMA AttachGetHandles == ASSUME TypeOK, ConfigAt, NEW p \in Proc, AttachGet(p) PROVE Handles(p)
<1>. DEFINE j == job[p]
            work == [j EXCEPT !.seen = devs[j.vm]]
<1>1. work.dev = j.dev /\ work.src = j.src /\ work.env = j.env
  BY Here DEF Job
<1>2. UNCHANGED file /\ (Goto(p, "attach_put", work) \/ Abort(p))
  BY DEF AttachGet, Read, Request
<1>. HIDE DEF work
<1>3. Flows(p, "attach_put", work)
  BY <1>1 DEF Flows
<1>. QED BY <1>2, <1>3, PassesIf

LEMMA AttachPutHandles ==
    ASSUME TypeOK, ConfigAt, SourceIsOwn, NameFree, NEW p \in Proc, AttachPut(p)
    PROVE  Handles(p)
<1>. DEFINE j == job[p]
            v == job[p].vm
            table == [j.seen EXCEPT ![j.dev] = j.src]
            next == AfterAttach(p)
            work == IF j.dev = "config" THEN Bare(p) ELSE [Bare(p) EXCEPT !.env = WithAttached(j)]
<1>1. /\ pc[p] = "attach_put" /\ j \in Job /\ v \in VM
      /\ j.seen[j.dev] = None /\ j.src # None /\ j.dev \in Dev /\ j.src \in Backing(j.dev)
      /\ j.op \in {"create_vm", "attach_disk", "detach_disk"}
  <2>1. pc[p] = "attach_put" /\ j \in Job /\ JobOK(pc[p], j)
    BY Here DEF AttachPut
  <2>. QED BY <2>1, VMAt, OpAt DEF NameFree, JobOK, WriteRequests, Job
<1>2. Request(p, devs[v] = j.seen /\ CanPutDevices(v, table), PutDevices(v, table), next, work)
  BY DEF AttachPut
<1>3. /\ UNCHANGED file
      /\ \/ Abort(p)
         \/ /\ devs[v] = j.seen /\ CanPutDevices(v, table) /\ PutDevices(v, table)
            /\ pc'[p] = next /\ job'[p] = work
  BY <1>2, AfterGoto DEF Request
<1>4. CASE Abort(p)
  BY <1>3, <1>4, AbortFlows DEF Handles, Passes
<1>5. CASE /\ devs[v] = j.seen /\ CanPutDevices(v, table) /\ PutDevices(v, table)
           /\ pc'[p] = next /\ job'[p] = work
  <2>1. table[j.dev] = j.src /\ devs[v][j.dev] = None /\ devs'[v] = table
    BY <1>1, <1>5, DevsType DEF DevTable, PutDevices, TypeOK, ServerTypeOK
  <2>2. CASE j.dev = "config"
    <3>1. host[v] \in vols[j.src] /\ UNCHANGED iso
      BY <1>1, <1>5, <2>1 DEF CanPutDevices, PutDevices
    <3>2. work = Bare(p) /\ next \in {"start_vm", "ok"}
      BY <2>2 DEF AfterAttach
    <3>. HIDE DEF table, next, work
    <3>. QED BY <1>1, <1>3, <1>5, <2>1, <2>2, <3>1, <3>2, BareEnvDev DEF Handles, InsertsDisk
  <2>3. CASE j.dev # "config"
    <3>1. next = "write_env" /\ work = [Bare(p) EXCEPT !.env = WithAttached(j)]
      BY <2>3 DEF AfterAttach
    <3>2. work.env = WithAttached(j) /\ work.dev # "config"
      BY <3>1, NoneNoDev DEF Bare, NoJob, Dev
    <3>3. CASE j.dev = "ephemeral"
      <4>1. j.op = "create_vm" /\ WithAttached(j) = j.env
        BY <1>1, <3>3 DEF SourceIsOwn, Backing, WithAttached, PersistentDev
      <4>. HIDE DEF table, next, work
      <4>2. Flows(p, next, work)
        BY <3>1, <3>2, <4>1 DEF Flows
      <4>. QED BY <1>3, <1>5, <4>2 DEF Handles, Passes
    <3>4. CASE j.dev \in PersistentDev
      <4>1. j.op = "attach_disk" /\ j.src = j.disk
        BY <1>1, <3>4 DEF SourceIsOwn, Backing, PersistentDev
      <4>2. WithAttached(j) = [j.env EXCEPT ![j.disk] = j.dev]
        BY <3>4 DEF WithAttached
      <4>. HIDE DEF table, next, work
      <4>. QED BY <1>1, <1>3, <1>5, <2>1, <3>1, <3>2, <3>4, <4>1, <4>2 DEF Handles, NotesDisk
    <3>. QED BY <1>1, <2>3, <3>3, <3>4 DEF Dev
  <2>. QED BY <2>2, <2>3
<1>. QED BY <1>3, <1>4, <1>5

LEMMA ConfigGetHandles == ASSUME TypeOK, ConfigAt, NEW p \in Proc, ConfigGet(p) PROVE Handles(p)
<1>. DEFINE j == job[p]
            there == devs[j.vm]["config"] # None
            next == IF there THEN "detach_put" ELSE "check_stopped"
            work == IF there THEN [j EXCEPT !.seen = devs[j.vm]] ELSE j
<1>1. /\ work.dev = j.dev /\ work.src = j.src /\ work.env = j.env
      /\ next \in {"detach_put", "check_stopped"}
  BY Here DEF Job
<1>2. UNCHANGED file /\ (Goto(p, next, work) \/ Abort(p))
  BY DEF ConfigGet, Read, Request
<1>. HIDE DEF work, next
<1>3. Flows(p, next, work)
  BY <1>1 DEF Flows
<1>. QED BY <1>2, <1>3, PassesIf

LEMMA DetachGetHandles == ASSUME TypeOK, ConfigAt, NEW p \in Proc, DetachGet(p) PROVE Handles(p)
<1>. DEFINE j == job[p]
            work(d) == [j EXCEPT !.dev = d, !.seen = devs[j.vm]]
<1>1. pc[p] = "detach_get" /\ j \in Job /\ j.vm \in VM /\ j.disk \in Disk /\ devs[j.vm] \in DevTable
      /\ j.dev # "config"
  BY OpAt, Here, VMAt, DevsType DEF DetachGet, JobOK, ConfigAt, ConfigRequests
<1>2. UNCHANGED file
  BY DEF DetachGet, Read, Request
<1>3. CASE Goto(p, "read_env", j) \/ Abort(p)
  <2>1. Flows(p, "read_env", j)
    BY DEF Flows
  <2>. QED BY <1>2, <1>3, <2>1, PassesIf
<1>4. ASSUME NEW d \in Dev, devs[j.vm][d] = j.disk, Goto(p, "detach_put", work(d)) PROVE Handles(p)
  <2>1. d # "config"
    BY <1>1, <1>4, StrongDisjoint DEF DevTable, Backing, Dev, Vol
  <2>2. work(d).dev = d /\ work(d).env = j.env
    BY <1>1 DEF Job
  <2>3. Goto(p, "detach_put", work(d))
    BY <1>4
  <2>. HIDE DEF work
  <2>4. Flows(p, "detach_put", work(d))
    BY <2>1, <2>2 DEF Flows
  <2>. QED BY <1>2, <2>3, <2>4, PassesIf
<1>. QED BY <1>3, <1>4 DEF DetachGet, Read, Request

LEMMA DetachPutHandles == ASSUME TypeOK, ConfigAt, NEW p \in Proc, DetachPut(p) PROVE Handles(p)
<1>. DEFINE j == job[p]
            next == IF j.dev = "config" THEN "check_stopped" ELSE "read_env"
            work == IF j.dev = "config" THEN [j EXCEPT !.seen = None] ELSE Bare(p)
<1>1. /\ work.env \in {j.env, None} /\ (work.dev = "config" => j.dev = "config" /\ work.src = j.src)
      /\ next \in {"check_stopped", "read_env"}
  BY Here, BareEnvDev DEF Job
<1>2. UNCHANGED file /\ (Goto(p, next, work) \/ Abort(p))
  BY DEF DetachPut, Request
<1>. HIDE DEF work, next
<1>3. Flows(p, next, work)
  BY <1>1 DEF Flows
<1>. QED BY <1>2, <1>3, PassesIf

LEMMA WriteEnvHandles == ASSUME TypeOK, ConfigAt, NEW p \in Proc, WriteEnv(p) PROVE Handles(p)
<1>1. pc[p] = "write_env" /\ job[p].dev # "config"
  BY DEF WriteEnv, ConfigAt, ConfigRequests
<1>2. CASE file' = [file EXCEPT ![job[p].vm] = job[p].env] /\ Goto(p, "locate_vm", job[p])
  BY <1>1, <1>2, AfterGoto DEF Handles, WritesFile
<1>3. CASE /\ \E left \in {file[job[p].vm], Torn, job[p].env} : file' = [file EXCEPT ![job[p].vm] = left]
           /\ Abort(p)
  BY <1>1, <1>3, AbortFlows DEF Handles, TearsFile
<1>. QED BY <1>2, <1>3 DEF WriteEnv

LEMMA CreateConfigHandles == ASSUME TypeOK, ConfigAt, NEW p \in Proc, CreateConfig(p) PROVE Handles(p)
<1>. DEFINE j == job[p]
            work(c) == [Bare(p) EXCEPT !.dev = "config", !.src = c]
<1>1. PICK c \in ConfVol : Request(p, TRUE, CreateISO(c, j.node, j.env), "find_config", work(c))
  BY DEF CreateConfig
<1>2. pc[p] = "create_config" /\ UNCHANGED file
  BY <1>1 DEF CreateConfig, Request
<1>3. CASE Abort(p)
  BY <1>2, <1>3, AbortFlows DEF Handles, Passes
<1>4. CASE Goto(p, "find_config", work(c)) /\ CreateISO(c, j.node, j.env)
  <2>1. work(c).env = None /\ work(c).src = c
    BY BareEnvDev DEF Bare, NoJob
  <2>2. pc'[p] = "find_config" /\ job'[p] = work(c)
    BY <1>4, AfterGoto
  <2>3. iso'[c] = j.env
    BY <1>4 DEF CreateISO, TypeOK, ServerTypeOK
  <2>. HIDE DEF work
  <2>. QED BY <1>2, <2>1, <2>2, <2>3 DEF Handles, BurnsDisk
<1>. QED BY <1>1, <1>3, <1>4 DEF Request

LEMMA FindConfigHandles == ASSUME TypeOK, ConfigAt, NEW p \in Proc, FindConfig(p) PROVE Handles(p)
<1>. DEFINE j == job[p]
            old == devs[j.vm]["config"]
            next == IF old = None THEN "attach_get" ELSE "config_get"
            work == [j EXCEPT !.trash = {old} \ {None}]
<1>1. work.dev = j.dev /\ work.src = j.src /\ work.env = j.env /\ next \in {"attach_get", "config_get"}
  BY Here DEF Job
<1>2. UNCHANGED file /\ (Goto(p, next, work) \/ Abort(p))
  BY DEF FindConfig, Read, Request
<1>. HIDE DEF work, next
<1>3. Flows(p, next, work)
  BY <1>1 DEF Flows
<1>. QED BY <1>2, <1>3, PassesIf

LEMMA CheckStoppedHandles == ASSUME TypeOK, ConfigAt, NEW p \in Proc, CheckStopped(p) PROVE Handles(p)
<1>. DEFINE j == job[p]
            work == [j EXCEPT !.trash = {}]
<1>1. work.dev = j.dev /\ work.src = j.src /\ work.env = j.env
  BY Here DEF Job
<1>2. UNCHANGED file /\ (Goto(p, "attach_get", work) \/ Goto(p, "delete_config", j) \/ Abort(p))
  BY DEF CheckStopped, Read, Request
<1>. HIDE DEF work
<1>3. Flows(p, "attach_get", work) /\ Flows(p, "delete_config", j)
  BY <1>1 DEF Flows
<1>. QED BY <1>2, <1>3, PassesIf

LEMMA DeleteConfigHandles == ASSUME TypeOK, ConfigAt, NEW p \in Proc, DeleteConfig(p) PROVE Handles(p)
<1>. DEFINE j == job[p]
            work == [j EXCEPT !.trash = {}]
<1>1. work.dev = j.dev /\ work.src = j.src /\ work.env = j.env
  BY Here DEF Job
<1>2. UNCHANGED file /\ (Goto(p, "attach_get", work) \/ Abort(p))
  BY DEF DeleteConfig, Request
<1>. HIDE DEF work
<1>3. Flows(p, "attach_get", work)
  BY <1>1 DEF Flows
<1>. QED BY <1>2, <1>3, PassesIf

LEMMA ReadEnvHandles == ASSUME TypeOK, ConfigAt, NEW p \in Proc, ReadEnv(p) PROVE Handles(p)
<1>. DEFINE j == job[p]
            e == file[j.vm]
            attach == [j EXCEPT !.dev = FreeSlot(e), !.src = j.disk, !.env = e]
            detach == [j EXCEPT !.env = [e EXCEPT ![j.disk] = None]]
<1>1. pc[p] = "read_env" /\ j \in Job /\ j.dev # "config" /\ UNCHANGED file
  BY Here DEF ReadEnv, ConfigAt, ConfigRequests, Read, Request
<1>2. FreeSlot(e) # "config"
  BY NoneNoDev DEF FreeSlot, Dev
<1>3. /\ attach.dev = FreeSlot(e) /\ attach.env = e
      /\ detach.dev = j.dev /\ detach.env = [e EXCEPT ![j.disk] = None]
  BY <1>1 DEF Job
<1>4. \/ Abort(p)
      \/ Readable(e) /\ j.op = "attach_disk" /\ Goto(p, "colocate", attach)
      \/ Readable(e) /\ j.op = "detach_disk" /\ Goto(p, "write_env", detach)
  BY DEF ReadEnv, Read, Request, Readable
<1>. HIDE DEF attach, detach
<1>5. CASE Abort(p)
  BY <1>1, <1>5, AbortFlows DEF Handles, Passes
<1>6. CASE Readable(e) /\ j.op = "attach_disk" /\ Goto(p, "colocate", attach)
  BY <1>1, <1>2, <1>3, <1>6, AfterGoto DEF Handles, ReadsFile
<1>7. CASE Readable(e) /\ j.op = "detach_disk" /\ Goto(p, "write_env", detach)
  BY <1>1, <1>3, <1>7, AfterGoto DEF Handles, ReadsFile
<1>. QED BY <1>4, <1>5, <1>6, <1>7

LEMMA ColocateHandles == ASSUME TypeOK, ConfigAt, NEW p \in Proc, Colocate(p) PROVE Handles(p)
<1>. DEFINE j == job[p]
            work(n) == [j EXCEPT !.node = n, !.to = host[j.vm]]
<1>1. UNCHANGED file
  BY DEF Colocate, Read, Request
<1>2. CASE Abort(p)
  BY <1>1, <1>2, AbortFlows DEF Handles, Passes
<1>3. CASE Goto(p, "attach_get", j)
  <2>1. Flows(p, "attach_get", j)
    BY DEF Flows
  <2>. QED BY <1>1, <1>3, <2>1, PassesIf
<1>4. ASSUME NEW n \in Node, Goto(p, "copy_volume", work(n)) PROVE Handles(p)
  <2>1. work(n).dev = j.dev /\ work(n).src = j.src /\ work(n).env = j.env
    BY Here DEF Job
  <2>2. Goto(p, "copy_volume", work(n))
    BY <1>4
  <2>. HIDE DEF work
  <2>3. Flows(p, "copy_volume", work(n))
    BY <2>1 DEF Flows
  <2>. QED BY <1>1, <2>2, <2>3, PassesIf
<1>. QED BY <1>2, <1>3, <1>4 DEF Colocate, Read, Request

LEMMA CopyHandles == ASSUME TypeOK, ConfigAt, NEW p \in Proc, CopyVolumeStep(p) PROVE Handles(p)
<1>1. Flows(p, "drop_source", job[p]) /\ UNCHANGED file /\ (Goto(p, "drop_source", job[p]) \/ Abort(p))
  BY DEF CopyVolumeStep, Request, Flows
<1>. QED BY <1>1, PassesIf

LEMMA DropHandles == ASSUME TypeOK, ConfigAt, NEW p \in Proc, DropSource(p) PROVE Handles(p)
<1>. DEFINE j == job[p]
            work == [j EXCEPT !.node = None, !.to = None]
<1>1. work.dev = j.dev /\ work.src = j.src /\ work.env = j.env
  BY Here DEF Job
<1>2. UNCHANGED file /\ (Goto(p, "attach_get", work) \/ Abort(p))
  BY DEF DropSource, Request
<1>. HIDE DEF work
<1>3. Flows(p, "attach_get", work)
  BY <1>1 DEF Flows
<1>. QED BY <1>2, <1>3, PassesIf

LEMMA DeleteStepsHandle ==
    ASSUME TypeOK, ConfigAt, NEW p \in Proc,
           HasVM(p) \/ StopVM(p) \/ ListDisks(p) \/ DeleteInstanceStep(p) \/ DeleteVolumes(p)
    PROVE  Handles(p)
<1>. DEFINE j == job[p]
<1>1. PICK next \in {"stop_vm", "delete_file", "list_disks", "delete_instance", "delete_volumes"},
           trash \in {j.trash, {devs[j.vm]["config"], devs[j.vm]["ephemeral"]} \ {None}}
                         \cup {j.trash \ {x} : x \in j.trash} :
         Goto(p, next, [j EXCEPT !.trash = trash]) \/ Abort(p)
  <2>1. [j EXCEPT !.trash = j.trash] = j
    BY Here DEF Job
  <2>. QED BY <2>1 DEF HasVM, StopVM, ListDisks, DeleteInstanceStep, DeleteVolumes, Read, Request
<1>2. UNCHANGED file
  BY DEF HasVM, StopVM, ListDisks, DeleteInstanceStep, DeleteVolumes, Read, Request
<1>. DEFINE work == [j EXCEPT !.trash = trash]
<1>3. work.dev = j.dev /\ work.src = j.src /\ work.env = j.env
  BY Here DEF Job
<1>4. Goto(p, next, work) \/ Abort(p)
  BY <1>1
<1>. HIDE DEF work
<1>5. Flows(p, next, work)
  BY <1>3 DEF Flows
<1>. QED BY <1>2, <1>4, <1>5, PassesIf

LEMMA DeleteFileHandles == ASSUME TypeOK, ConfigAt, NEW p \in Proc, DeleteFile(p) PROVE Handles(p)
<1>1. CASE Abort(p) /\ UNCHANGED file
  BY <1>1, AbortFlows DEF Handles, Passes
<1>2. CASE /\ file' = [file EXCEPT ![job[p].vm] = Absent]
           /\ Goto(p, IF job[p].op = "delete_vm" THEN "ok" ELSE "failed", Bare(p))
  BY <1>2, AfterGoto, BareEnvDev DEF Handles, ForgetsFile, DeleteFile
<1>. QED BY <1>1, <1>2 DEF DeleteFile

LEMMA DiskStepsHandle ==
    ASSUME TypeOK, ConfigAt, NEW p \in Proc, CreateDisk(p) \/ DeleteDisk(p)
    PROVE  Handles(p)
<1>1. job[p].op \in DiskOps
  BY OpAt DEF CreateDisk, DeleteDisk, DiskOps
<1>2. Flows(p, "ok", Bare(p)) /\ UNCHANGED file /\ (Goto(p, "ok", Bare(p)) \/ Abort(p))
  BY <1>1, BareEnvDev DEF CreateDisk, DeleteDisk, Request, Flows
<1>. QED BY <1>2, PassesIf

LEMMA StepHandles ==
    ASSUME TypeOK, ConfigAt, SourceIsOwn, NameFree, NEW p \in Proc, Step(p), ~Reply(p)
    PROVE  Handles(p)
  BY CreateInstanceHandles, LocateHandles, CreateEphemeralHandles, StartVMHandles, AttachGetHandles,
     AttachPutHandles, ConfigGetHandles, DetachGetHandles, DetachPutHandles, WriteEnvHandles,
     CreateConfigHandles, FindConfigHandles, CheckStoppedHandles, DeleteConfigHandles, ReadEnvHandles,
     ColocateHandles, CopyHandles, DropHandles, DeleteStepsHandle, DeleteFileHandles, DiskStepsHandle
  DEF Step

-----------------------------------------------------------------------------
(* Configuration disks *)

\* What is on a configuration disk in use stays there, and a name in hand is not given again.
IsoKept == \A c \in ConfVol :
    \/ iso'[c] = iso[c] /\ (vols[c] = {} => vols'[c] = {})
    \/ UsedBy(c) = {} /\ (vols'[c] = {} \/ \A q \in Proc : job[q].src # c)

LEMMA IsoSame == ASSUME UNCHANGED <<vols, iso>> PROVE IsoKept
  BY DEF IsoKept

LEMMA IsoOther ==
    ASSUME TypeOK, NEW x \in Disk \cup EphVol, NEW new, vols' = [vols EXCEPT ![x] = new], UNCHANGED iso
    PROVE  IsoKept
  BY StrongDisjoint, ServerAssumption DEF IsoKept, TypeOK, ServerTypeOK, Vol

LEMMA IsoDelete ==
    ASSUME TypeOK, NEW x \in Vol, CanDeleteVolume(x), DeleteVolume(x)
    PROVE  IsoKept
<1>1. ASSUME NEW c \in ConfVol, c = x PROVE UsedBy(c) = {} /\ vols'[c] = {}
  BY <1>1 DEF CanDeleteVolume, DeleteVolume, TypeOK, ServerTypeOK
<1>2. ASSUME NEW c \in ConfVol, c # x PROVE iso'[c] = iso[c] /\ vols'[c] = vols[c]
  BY <1>2 DEF DeleteVolume, TypeOK, ServerTypeOK, Vol
<1>. QED BY <1>1, <1>2 DEF IsoKept

LEMMA IsoCreate ==
    ASSUME TypeOK, NEW x \in ConfVol, Fresh(x), NEW n, NEW e, CreateISO(x, n, e)
    PROVE  IsoKept
<1>1. \A c \in ConfVol : c # x => iso'[c] = iso[c] /\ vols'[c] = vols[c]
  BY DEF CreateISO, TypeOK, ServerTypeOK, Vol
<1>2. UsedBy(x) = {} /\ \A q \in Proc : job[q].src # x
  BY DEF Fresh
<1>. QED BY <1>1, <1>2 DEF IsoKept

LEMMA StepIso == ASSUME TypeOK, NEW p \in Proc, Step(p) PROVE IsoKept
<1>0. job[p] \in Job /\ JobOK(pc[p], job[p])
  BY Here
<1>1. CASE \/ CreateInstanceStep(p) \/ Locate(p) \/ StartVM(p) \/ AttachGet(p) \/ AttachPut(p)
           \/ ConfigGet(p) \/ DetachGet(p) \/ DetachPut(p) \/ WriteEnv(p) \/ FindConfig(p)
           \/ CheckStopped(p) \/ ReadEnv(p) \/ Colocate(p) \/ HasVM(p) \/ StopVM(p) \/ ListDisks(p)
           \/ DeleteInstanceStep(p) \/ DeleteFile(p) \/ Reply(p)
  <2>1. UNCHANGED <<vols, iso>>
    BY <1>1
    DEF CreateInstanceStep, Locate, StartVM, AttachGet, AttachPut, ConfigGet, DetachGet, DetachPut,
        WriteEnv, FindConfig, CheckStopped, ReadEnv, Colocate, HasVM, StopVM, ListDisks,
        DeleteInstanceStep, DeleteFile, Reply, Read, Request, server, CreateInstance, StartInstance,
        PutDevices, StopInstance, DeleteInstance
  <2>. QED BY <2>1, IsoSame
<1>2. CASE CreateEphemeral(p)
  <2>1. EphOf(job[p].vm) \in EphVol
    BY <1>2, VMAt DEF CreateEphemeral, EphVol
  <2>. QED BY <1>2, <2>1, IsoSame, IsoOther DEF CreateEphemeral, Request, CreateVolume, server
<1>3. CASE CreateDisk(p) \/ CopyVolumeStep(p) \/ DropSource(p)
  <2>1. job[p].disk \in Disk
    BY <1>0, <1>3, OpAt DEF CreateDisk, CopyVolumeStep, DropSource, JobOK, DiskOps
  <2>. QED BY <1>3, <2>1, IsoSame, IsoOther
       DEF CreateDisk, CopyVolumeStep, DropSource, Request, CreateVolume, CopyVolume, DropCopy, server
<1>4. CASE DeleteConfig(p) \/ DeleteVolumes(p) \/ DeleteDisk(p)
  <2>1. job[p].trash \subseteq Vol /\ (DeleteDisk(p) => job[p].disk \in Vol)
    BY <1>0, OpAt DEF DeleteDisk, JobOK, DiskOps, Job, Vol
  <2>. QED BY <1>4, <2>1, IsoSame, IsoDelete DEF DeleteConfig, DeleteVolumes, DeleteDisk, Request, server
<1>5. CASE CreateConfig(p)
  BY <1>5, IsoSame, IsoCreate DEF CreateConfig, Request, server
<1>. QED BY <1>1, <1>2, <1>3, <1>4, <1>5 DEF Step

LEMMA CleanupIso ==
    ASSUME TypeOK, Cleanup \/ CleanupKilled
    PROVE  IsoKept /\ UNCHANGED <<pc, job, file, director, host, devs>>
<1>1. CASE CleanupScan \/ CleanupKilled
  BY <1>1, IsoSame DEF CleanupScan, CleanupKilled, server
<1>2. CASE CleanupDelete
  <2>1. todo \subseteq Vol
    BY DEF TypeOK, Vol
  <2>. QED BY <1>2, <2>1, IsoSame, IsoDelete DEF CleanupDelete, DeleteVolume, server
<1>. QED BY <1>1, <1>2 DEF Cleanup

\* A call that is no call on a VM, or starts the VM, leaves its devices alone.
LEMMA DiskStepStill ==
    ASSUME TypeOK, NEW p \in Proc, Step(p), job[p].op \in DiskOps \/ pc[p] \in {"start_vm", "ok"}
    PROVE  UNCHANGED devs
<1>1. pc[p] \in {"locate", "create_disk", "delete_disk", "ok", "failed", "start_vm"}
  BY Here, LifecycleAssumption DEF JobOK, RequestsOf, DiskOps, AllOps
<1>2. Locate(p) \/ CreateDisk(p) \/ DeleteDisk(p) \/ StartVM(p) \/ Reply(p)
  BY <1>1
  DEF Step, CreateInstanceStep, Locate, CreateEphemeral, StartVM, AttachGet, AttachPut, ConfigGet,
      DetachGet, DetachPut, WriteEnv, CreateConfig, FindConfig, CheckStopped, DeleteConfig, ReadEnv,
      Colocate, CopyVolumeStep, DropSource, HasVM, StopVM, ListDisks, DeleteInstanceStep,
      DeleteVolumes, DeleteFile, CreateDisk, DeleteDisk, Reply
<1>. QED BY <1>2
     DEF Locate, CreateDisk, DeleteDisk, StartVM, Reply, Read, Request, server, CreateVolume,
         DeleteVolume, StartInstance

-----------------------------------------------------------------------------
(* The invariant is inductive: the requests of a call *)

\* What settings record stays true of the VM, but for the disk its call detaches.
LEMMA RecordsStay ==
    ASSUME TypeOK, NEW p \in Proc, Moves(p), NEW v \in VM, NEW d \in Disk, NEW e, Exists(v)',
           ~(job[p].op = "detach_disk" /\ v = job[p].vm /\ d = job[p].disk),
           Records(e, v, d)
    PROVE  \E s \in PersistentDev : e[d] = s /\ devs'[v][s] = d
<1>1. PICK s \in PersistentDev : e[d] = s /\ devs[v][s] = d /\ s \in Dev
  BY DEF Records, Dev
<1>2. CASE Elsewhere(p)
  BY <1>1, <1>2, ElsewhereSources
<1>3. CASE MakesVM(p)
  BY <1>1, <1>3 DEF MakesVM
<1>4. CASE ClearsVM(p)
  BY <1>1, <1>4, ClearsSources
<1>5. CASE Attaches(p)
  <2>1. job[p].vm \in VM
    BY <1>5, InVM DEF Attaches, VMOps
  <2>2. PICK a \in Dev : devs[job[p].vm][a] = None /\ OneDevice(job[p].vm, a, job[p].disk)
    BY <1>5 DEF Attaches, Dev
  <2>3. devs'[v][s] = IF v = job[p].vm /\ s = a THEN job[p].disk ELSE devs[v][s]
    BY <1>1, <2>1, <2>2, TableAfter
  <2>. QED BY <1>1, <2>2, <2>3, NoneNoDev
<1>6. CASE Detaches(p)
  <2>1. job[p].vm \in VM
    BY <1>6, InVM DEF Detaches, VMOps
  <2>2. PICK a \in Dev : devs[job[p].vm][a] = job[p].disk /\ OneDevice(job[p].vm, a, None)
    BY <1>6 DEF Detaches, Dev
  <2>3. devs'[v][s] = IF v = job[p].vm /\ s = a THEN None ELSE devs[v][s]
    BY <1>1, <2>1, <2>2, TableAfter
  <2>4. ~(v = job[p].vm /\ s = a)
    BY <1>1, <1>6, <2>2 DEF Detaches
  <2>. QED BY <1>1, <2>3, <2>4
<1>. QED BY <1>2, <1>3, <1>4, <1>5, <1>6 DEF Moves, Elsewhere

LEMMA MovesExist ==
    ASSUME TypeOK, NEW p \in Proc, Moves(p), NEW v \in VM, Exists(v)'
    PROVE  Exists(v) \/ (job[p].op = "create_vm" /\ v = job[p].vm)
<1>1. CASE v # job[p].vm
  BY <1>1, MovesLocal
<1>2. CASE MakesVM(p)
  BY <1>1, <1>2 DEF MakesVM
<1>3. CASE ClearsVM(p)
  BY <1>1, <1>3 DEF ClearsVM, Exists, TypeOK, ServerTypeOK
<1>. QED BY <1>2, <1>3
     DEF Moves, Rests, Skips, Attaches, Detaches, Equips, MakesDisk, RemovesDisk, SameInstances, Exists

\* A new VM has no disks that the director knows of.
LEMMA AttachedBefore ==
    ASSUME TypeOK, NewIsFree, Creating, NEW p \in Proc, Moves(p), NEW v \in VM, NEW d \in Disk,
           Attached(d, v)'
    PROVE  Attached(d, v)
  BY MovesExist, MovesSame DEF Attached, NewIsFree, Creating, director

LEMMA HandlesFile ==
    ASSUME TypeOK, NEW p \in Proc, Handles(p), NEW v \in VM
    PROVE  \/ file'[v] = file[v]
           \/ /\ v = job[p].vm /\ pc[p] = "write_env"
              /\ file'[v] = Torn \/ file'[v] = job[p].env
           \/ v = job[p].vm /\ pc[p] = "delete_file" /\ file'[v] = Absent
<1>1. CASE UNCHANGED file
  BY <1>1
<1>2. CASE WritesFile(p) \/ TearsFile(p)
  BY <1>2 DEF WritesFile, TearsFile, TypeOK
<1>3. CASE ForgetsFile(p)
  BY <1>3 DEF ForgetsFile, TypeOK
<1>. QED BY <1>1, <1>2, <1>3 DEF Handles, Passes, ReadsFile, BurnsDisk, NotesDisk, InsertsDisk

LEMMA OtherCall ==
    ASSUME TypeOK, OneCallPerVM, NEW p \in Proc, NEW q \in Proc, q # p, job[q].vm \in VM
    PROVE  job[q].vm # job[p].vm
  BY NoneNoDev DEF OneCallPerVM

\* Settings in hand when the file is written.
LEMMA EnvAtWrite ==
    ASSUME TypeOK, NEW p \in Proc, pc[p] = "write_env"
    PROVE  job[p].env \in Env /\ job[p].env # None /\ Readable(job[p].env) /\ job[p].vm \in VM
           /\ job[p].op \in VMOps
<1>1. job[p].env \in Env /\ job[p].env # None
  BY Here, ServerAssumption DEF JobOK, Job
<1>. QED BY <1>1, VMAt, OpAt, LifecycleAssumption DEF Readable, VMOps, WriteRequests

\* The settings in hand after a step.
LEMMA HandlesEnv ==
    ASSUME TypeOK, NEW p \in Proc, Handles(p), job'[p].env # None
    PROVE  \/ job'[p].env = job[p].env
           \/ ReadsFile(p) \/ NotesDisk(p)
  BY DEF Handles, Passes, Flows, WritesFile, TearsFile, BurnsDisk, InsertsDisk, ForgetsFile

LEMMA AttachedRecordedNext ==
    ASSUME TypeOK, RecordInv, NEW p \in Proc, Moves(p), Handles(p)
    PROVE  AttachedIsRecorded'
<1>1. ASSUME NEW d \in Disk, NEW v \in VM, owner[d] = v, d \notin unsure, Exists(v)', Readable(file'[v])
      PROVE  \E s \in PersistentDev : file'[v][d] = s /\ devs'[v][s] = d
  <2>1. Attached(d, v)
    BY <1>1, AttachedBefore, MovesSame DEF RecordInv, Attached, director, Exists
  <2>2. ~(job[p].op = "detach_disk" /\ v = job[p].vm /\ d = job[p].disk)
    BY <1>1 DEF RecordInv, CallUnsure
  <2>3. Records(file'[v], v, d)
    <3>1. CASE file'[v] = file[v]
      BY <1>1, <2>1, <3>1 DEF RecordInv, AttachedIsRecorded, Records, Readable, Attached
    <3>2. CASE v = job[p].vm /\ pc[p] = "write_env" /\ file'[v] = job[p].env
      BY <2>1, <3>2, EnvAtWrite DEF RecordInv, EnvRecords
    <3>. QED BY <1>1, <3>1, <3>2, HandlesFile DEF Readable
  <2>. QED BY <1>1, <2>2, <2>3, RecordsStay
<1>. QED BY <1>1, MovesSame DEF AttachedIsRecorded, Readable, Exists, director

LEMMA EnvRecordsNext ==
    ASSUME TypeOK, RecordInv, NEW p \in Proc, Moves(p), Handles(p), TypeOK'
    PROVE  EnvRecords'
<1>1. ASSUME NEW q \in Proc, NEW d \in Disk, NEW v \in VM, job[q].vm = v, job[q].op \in VMOps,
             job'[q].env # None, Attached(d, v)'
      PROVE  \E s \in PersistentDev : job'[q].env[d] = s /\ devs'[v][s] = d
  <2>1. Attached(d, v)
    BY <1>1, AttachedBefore DEF RecordInv
  <2>2. ~(job[p].op = "detach_disk" /\ d = job[p].disk) /\ (job[p].op = "attach_disk" => d # job[p].disk)
    BY <2>1 DEF RecordInv, CallUnsure, Attached
  <2>3. Exists(v)'
    BY <1>1 DEF Attached
  <2>4. CASE job'[q].env = job[q].env
    <3>1. Records(job[q].env, v, d)
      BY <1>1, <2>1, <2>4 DEF RecordInv, EnvRecords
    <3>. QED BY <2>2, <2>3, <2>4, <3>1, RecordsStay
  <2>5. CASE q = p /\ ReadsFile(p)
    <3>1. file[v] \in Env /\ v = job[p].vm
      BY <1>1, <2>5 DEF ReadsFile, Readable, TypeOK
    <3>2. Records(file[v], v, d)
      BY <2>1, <2>5, <3>1 DEF ReadsFile, RecordInv, AttachedIsRecorded, Records, Readable, Attached
    <3>3. job'[p].env[d] = file[v][d]
      BY <2>2, <2>5, <3>1 DEF ReadsFile, Env
    <3>4. Records(job'[p].env, v, d)
      BY <3>2, <3>3 DEF Records
    <3>. QED BY <2>2, <2>3, <2>5, <3>4, RecordsStay
  <2>6. CASE q = p /\ NotesDisk(p)
    <3>1. job[p].env # None /\ job[p].env \in Env
      BY <2>6, Here, NoneNoDev DEF NotesDisk, JobOK, Job, PersistentDev
    <3>2. Records(job[p].env, v, d)
      BY <1>1, <2>1, <2>6, <3>1 DEF RecordInv, EnvRecords
    <3>3. job'[p].env[d] = job[p].env[d]
      BY <2>2, <2>6, <3>1 DEF NotesDisk, Env
    <3>4. Records(job'[p].env, v, d)
      BY <3>2, <3>3 DEF Records
    <3>. QED BY <2>2, <2>3, <2>6, <3>4, RecordsStay
  <2>. QED BY <1>1, <2>4, <2>5, <2>6, HandlesEnv, MovesSame
<1>. QED BY <1>1, InVM, MovesSame DEF EnvRecords, Records, Attached, Exists, director

\* Which requests come after agent.json is written.
LEMMA WrittenNext ==
    ASSUME TypeOK, NEW p \in Proc, Moves(p), Handles(p), Written(p)'
    PROVE  \/ Written(p) /\ (UNCHANGED file \/ ForgetsFile(p))
           \/ WritesFile(p)
<1>1. job'[p].op = job[p].op
  BY MovesSame
<1>2. CASE Passes(p)
  BY <1>1, <1>2 DEF Written, Passes, Flows, DiskOps
<1>3. CASE ForgetsFile(p)
  <2>1. job[p].op \in {"create_vm", "delete_vm"}
    BY <1>3, OpAt DEF ForgetsFile, DeleteRequests
  <2>. QED BY <1>1, <2>1 DEF Written
<1>. QED BY <1>1, <1>2, <1>3
     DEF Handles, ReadsFile, WritesFile, TearsFile, BurnsDisk, NotesDisk, InsertsDisk, Written

LEMMA AttachRecordsNext ==
    ASSUME TypeOK, RecordInv, OneCallPerVM, NEW p \in Proc, Moves(p), Handles(p)
    PROVE  AttachRecords'
<1>1. ASSUME NEW q \in Proc, NEW v \in VM, NEW d \in Disk, job[q].vm = v, job[q].disk = d,
             job[q].op = "attach_disk", Exists(v)'
      PROVE  /\ pc'[q] = "write_env" =>
                    \E s \in PersistentDev : job'[q].env[d] = s /\ devs'[v][s] = d
             /\ Written(q)' => /\ Readable(file'[v])
                               /\ \E s \in PersistentDev : file'[v][d] = s /\ devs'[v][s] = d
  <2>1. Exists(v) /\ ~(job[p].op = "detach_disk" /\ v = job[p].vm /\ d = job[p].disk)
    BY <1>1, MovesExist, OtherCall
  <2>2. CASE q # p
    <3>1. v # job[p].vm /\ job'[q] = job[q] /\ pc'[q] = pc[q]
      BY <1>1, <2>2, OtherCall, MovesSame
    <3>2. file'[v] = file[v] /\ (Written(q)' <=> Written(q))
      BY <3>1, HandlesFile DEF Written
    <3>3. /\ pc[q] = "write_env" => Records(job[q].env, v, d)
          /\ Written(q) => Readable(file[v]) /\ Records(file[v], v, d)
      BY <1>1, <2>1 DEF RecordInv, AttachRecords
    <3>. QED BY <1>1, <2>1, <3>1, <3>2, <3>3, RecordsStay
  <2>3. CASE q = p
    <3>1. ASSUME pc'[p] = "write_env"
          PROVE  \E s \in PersistentDev : job'[p].env[d] = s /\ devs'[v][s] = d
      <4>1. NotesDisk(p)
        BY <1>1, <2>3, <3>1 DEF Handles, Passes, Flows, ReadsFile, WritesFile, TearsFile, BurnsDisk,
                               InsertsDisk, ForgetsFile
      <4>2. job[p].env \in Env
        BY <4>1, Here, NoneNoDev DEF NotesDisk, JobOK, Job, PersistentDev
      <4>. QED BY <1>1, <2>3, <4>1, <4>2 DEF NotesDisk, Env
    <3>2. ASSUME Written(p)'
          PROVE  /\ Readable(file'[v])
                 /\ \E s \in PersistentDev : file'[v][d] = s /\ devs'[v][s] = d
      <4>1. CASE Written(p) /\ UNCHANGED file
        <5>1. Readable(file[v]) /\ Records(file[v], v, d)
          BY <1>1, <2>1, <2>3, <4>1 DEF RecordInv, AttachRecords
        <5>. QED BY <1>1, <2>1, <4>1, <5>1, RecordsStay
      <4>2. CASE WritesFile(p)
        <5>1. file'[v] = job[p].env /\ Readable(job[p].env) /\ Records(job[p].env, v, d)
          BY <1>1, <2>1, <2>3, <4>2, EnvAtWrite DEF WritesFile, TypeOK, RecordInv, AttachRecords
        <5>. QED BY <1>1, <2>1, <5>1, RecordsStay
      <4>3. CASE ForgetsFile(p)
        BY <1>1, <2>3, <4>3, OpAt DEF ForgetsFile, DeleteRequests
      <4>. QED BY <3>2, <4>1, <4>2, <4>3, WrittenNext
    <3>. QED BY <2>3, <3>1, <3>2
  <2>. QED BY <2>2, <2>3
<1>2. ASSUME NEW q \in Proc, job[q].op = "attach_disk" PROVE job[q].vm \in VM /\ job[q].disk \in Disk
  BY <1>2, InVM, Here DEF JobOK, VMOps
<1>. QED BY <1>1, <1>2, MovesSame DEF AttachRecords, Records, Readable, Exists

\* The disks that settings name are the VM's own.
LEMMA OwnedNext ==
    ASSUME TypeOK, RecordInv, CallOwns, NEW p \in Proc, Moves(p), Handles(p)
    PROVE  FileOwned' /\ EnvOwned'
<1>1. ASSUME NEW v \in VM, NEW d \in Disk, Clean(v), Readable(file'[v]), file'[v][d] # None
      PROVE  owner[d] = v
  <2>1. CASE file'[v] = file[v]
    BY <1>1, <2>1 DEF RecordInv, FileOwned
  <2>2. CASE v = job[p].vm /\ pc[p] = "write_env" /\ file'[v] = job[p].env
    BY <1>1, <2>2, EnvAtWrite DEF RecordInv, EnvOwned
  <2>. QED BY <1>1, <2>1, <2>2, HandlesFile DEF Readable
<1>2. ASSUME NEW q \in Proc, NEW d \in Disk, job[q].op \in VMOps, job'[q].env # None,
             Clean(job[q].vm), job'[q].env[d] # None
      PROVE  owner[d] = job[q].vm
  <2>1. CASE job'[q].env = job[q].env
    BY <1>2, <2>1 DEF RecordInv, EnvOwned
  <2>2. CASE q = p /\ ReadsFile(p)
    <3>1. job[p].vm \in VM /\ file[job[p].vm] \in Env
      BY <1>2, <2>2, InVM DEF ReadsFile, Readable, TypeOK
    <3>2. file[job[p].vm][d] # None
      BY <1>2, <2>2, <3>1 DEF ReadsFile, Env
    <3>. QED BY <1>2, <2>2, <3>1, <3>2 DEF ReadsFile, RecordInv, FileOwned
  <2>3. CASE q = p /\ NotesDisk(p)
    <3>1. job[p].env # None /\ job[p].env \in Env
      BY <2>3, Here, NoneNoDev DEF NotesDisk, JobOK, Job, PersistentDev
    <3>2. CASE d = job[p].disk
      BY <2>3, <3>2 DEF NotesDisk, CallOwns
    <3>3. CASE d # job[p].disk
      <4>1. job[p].env[d] # None
        BY <1>2, <2>3, <3>1, <3>3 DEF NotesDisk, Env
      <4>. QED BY <1>2, <2>3, <3>1, <4>1 DEF RecordInv, EnvOwned
    <3>. QED BY <3>2, <3>3
  <2>. QED BY <1>2, <2>1, <2>2, <2>3, HandlesEnv, MovesSame
<1>3. FileOwned'
  BY <1>1, MovesSame DEF FileOwned, Clean, Readable, director
<1>4. EnvOwned'
  BY <1>2, MovesSame DEF EnvOwned, Clean, director
<1>. QED BY <1>3, <1>4

\* detach_disk and delete_vm take the disk, and the file, away.
LEMMA ForgottenNext ==
    ASSUME TypeOK, RecordInv, OneCallPerVM, NEW p \in Proc, Moves(p), Handles(p)
    PROVE  DetachForgets' /\ DeleteForgets'
<1>1. ASSUME NEW q \in Proc, q # p, job[q].op \in VMOps
      PROVE  /\ job'[q] = job[q] /\ pc'[q] = pc[q] /\ file'[job[q].vm] = file[job[q].vm]
             /\ Written(q)' <=> Written(q)
  <2>1. job[q].vm \in VM /\ job[q].vm # job[p].vm
    BY <1>1, InVM, OtherCall
  <2>. QED BY <1>1, <2>1, HandlesFile, MovesSame DEF Written
<1>2. ASSUME NEW q \in Proc, job[q].op = "detach_disk"
      PROVE  /\ pc'[q] = "write_env" => job'[q].env[job[q].disk] = None
             /\ Written(q)' => /\ Readable(file'[job[q].vm])
                               /\ file'[job[q].vm][job[q].disk] = None
  <2>0. job[q].vm \in VM /\ job[q].disk \in Disk
    BY <1>2, InVM, Here DEF JobOK, VMOps
  <2>1. CASE q # p
    BY <1>1, <1>2, <2>1 DEF RecordInv, DetachForgets, VMOps
  <2>2. ASSUME q = p, pc'[p] = "write_env" PROVE job'[p].env[job[p].disk] = None
    <3>1. ReadsFile(p)
      BY <1>2, <2>2 DEF Handles, Passes, Flows, WritesFile, TearsFile, BurnsDisk, NotesDisk,
                        InsertsDisk, ForgetsFile
    <3>2. file[job[p].vm] \in Env
      BY <2>0, <2>2, <3>1 DEF ReadsFile, Readable, TypeOK
    <3>. QED BY <1>2, <2>0, <2>2, <3>1, <3>2 DEF ReadsFile, Env
  <2>3. ASSUME q = p, Written(p)'
        PROVE  Readable(file'[job[p].vm]) /\ file'[job[p].vm][job[p].disk] = None
    <3>1. CASE Written(p) /\ UNCHANGED file
      BY <1>2, <2>3, <3>1 DEF RecordInv, DetachForgets
    <3>2. CASE WritesFile(p)
      <4>1. file'[job[p].vm] = job[p].env /\ Readable(job[p].env)
        BY <2>0, <2>3, <3>2, EnvAtWrite DEF WritesFile, TypeOK
      <4>. QED BY <1>2, <2>3, <3>2, <4>1 DEF WritesFile, RecordInv, DetachForgets
    <3>3. CASE ForgetsFile(p)
      BY <1>2, <2>3, <3>3, OpAt DEF ForgetsFile, DeleteRequests
    <3>. QED BY <2>3, <3>1, <3>2, <3>3, WrittenNext
  <2>. QED BY <2>1, <2>2, <2>3
<1>3. ASSUME NEW q \in Proc, job[q].op = "delete_vm", pc'[q] = "ok" PROVE file'[job[q].vm] = Absent
  <2>0. job[q].vm \in VM
    BY <1>3, InVM DEF VMOps
  <2>1. CASE q # p
    BY <1>1, <1>3, <2>1 DEF RecordInv, DeleteForgets, VMOps
  <2>2. CASE q = p
    <3>1. pc[p] \notin {"start_vm", "attach_put", "write_env", "create_config", "read_env"}
      BY <1>3, <2>2, OpAt DEF WriteRequests
    <3>2. ForgetsFile(p)
      BY <1>3, <2>2, <3>1
      DEF Handles, Passes, Flows, ReadsFile, WritesFile, TearsFile, BurnsDisk, NotesDisk,
          InsertsDisk, DiskOps
    <3>. QED BY <2>0, <2>2, <3>2 DEF ForgetsFile, TypeOK
  <2>. QED BY <2>1, <2>2
<1>4. DetachForgets'
  BY <1>2, MovesSame DEF DetachForgets, Readable
<1>5. DeleteForgets'
  BY <1>3, MovesSame DEF DeleteForgets
<1>. QED BY <1>4, <1>5

LEMMA StepRecords ==
    ASSUME TypeOK, RecordInv, OneCallPerVM, CallOwns, NEW p \in Proc, Moves(p), Handles(p), TypeOK'
    PROVE  RecordInv'
<1>1. NewIsFree' /\ Creating' /\ CallUnsure'
  BY MovesSame DEF RecordInv, NewIsFree, Creating, CallUnsure, director
<1>. QED BY <1>1, AttachedRecordedNext, EnvRecordsNext, AttachRecordsNext, OwnedNext, ForgottenNext
     DEF RecordInv

\* A configuration disk that an instance uses keeps what is on it.
LEMMA SyncedStays ==
    ASSUME TypeOK, IsoKept, NEW v \in VM, Synced(v), devs'[v]["config"] = devs[v]["config"],
           file'[v] = file[v]
    PROVE  Synced(v)'
<1>1. PICK c \in ConfVol : devs[v]["config"] = c /\ iso[c] = file[v]
  BY DEF Synced
<1>2. v \in UsedBy(c)
  BY <1>1, NoneNoDev DEF UsedBy, Sources, Dev, Vol
<1>3. iso'[c] = iso[c]
  BY <1>2 DEF IsoKept
<1>. QED BY <1>1, <1>3 DEF Synced

\* What the calls of other processes have done to a VM stays.
LEMMA OtherSynced ==
    ASSUME TypeOK, OneCallPerVM, IsoKept, NEW p \in Proc, Moves(p), Handles(p),
           NEW v \in VM, v # job[p].vm
    PROVE  file'[v] = file[v] /\ (Synced(v) => Synced(v)')
<1>1. file'[v] = file[v] /\ devs'[v] = devs[v]
  BY MovesLocal, HandlesFile
<1>. QED BY <1>1, SyncedStays

LEMMA OnDiskStays ==
    ASSUME IsoKept, NEW q \in Proc, job[q].src \in ConfVol,
           vols[job[q].src] = {} \/ iso[job[q].src] = file[job[q].vm]
    PROVE  vols'[job[q].src] = {} \/ iso'[job[q].src] = file[job[q].vm]
  BY DEF IsoKept

LEMMA ConfigInHand ==
    ASSUME TypeOK, ConfigAt, NEW p \in Proc, job[p].dev = "config"
    PROVE  job[p].src \in ConfVol /\ job[p].vm \in VM
<1>1. pc[p] \in ConfigRequests
  BY DEF ConfigAt
<1>2. job[p].src # None
  BY <1>1, Here DEF JobOK, ConfigRequests
<1>. QED BY <1>1, <1>2, Here, VMAt DEF JobOK, ConfigRequests, Backing

LEMMA StepSyncs ==
    ASSUME TypeOK, SyncInv, OneCallPerVM, ConfigAt, IsoKept, NEW p \in Proc, Moves(p), Handles(p),
           Step(p)
    PROVE  SyncInv'
<1>1. IdleSynced'
  <2>1. ASSUME NEW v \in VM, cid[v] = "known", trust[v] # "broken",
               \A q \in Proc : job[q].vm = v => job[q].op \in DiskOps
        PROVE  Synced(v)'
    <3>1. Synced(v)
      BY <2>1 DEF SyncInv, IdleSynced
    <3>2. CASE v = job[p].vm
      <4>1. job[p].op \in DiskOps
        BY <2>1, <3>2
      <4>2. UNCHANGED devs
        BY <4>1, DiskStepStill
      <4>3. file'[v] = file[v]
        BY <4>1, HandlesFile, OpAt DEF DiskOps, WriteRequests, DeleteRequests
      <4>. QED BY <3>1, <4>2, <4>3, SyncedStays
    <3>. QED BY <3>1, <3>2, OtherSynced
  <2>. QED BY <2>1, MovesSame DEF IdleSynced, Synced, director
<1>2. InHand'
  <2>1. ASSUME NEW q \in Proc, pc'[q] \in {"locate_vm", "create_config"}
        PROVE  file'[job[q].vm] = job'[q].env
    <3>1. CASE q # p
      <4>1. job'[q] = job[q] /\ pc'[q] = pc[q] /\ job[q].vm \in VM
        BY <2>1, <3>1, MovesSame, VMAt
      <4>. QED BY <2>1, <3>1, <4>1, OtherCall, OtherSynced DEF SyncInv, InHand
    <3>2. CASE q = p
      <4>1. CASE WritesFile(p)
        BY <3>2, <4>1, EnvAtWrite DEF WritesFile, TypeOK
      <4>2. CASE Passes(p)
        BY <2>1, <3>2, <4>2 DEF Passes, Flows, SyncInv, InHand
      <4>. QED BY <2>1, <3>2, <4>1, <4>2
           DEF Handles, ReadsFile, TearsFile, BurnsDisk, NotesDisk, InsertsDisk, ForgetsFile
    <3>. QED BY <3>1, <3>2
  <2>. QED BY <2>1, MovesSame DEF InHand
<1>3. OnDisk'
  <2>1. ASSUME NEW q \in Proc, job'[q].dev = "config"
        PROVE  vols'[job'[q].src] = {} \/ iso'[job'[q].src] = file'[job[q].vm]
    <3>1. CASE q # p
      <4>1. job'[q] = job[q] /\ job[q].src \in ConfVol /\ job[q].vm \in VM
        BY <2>1, <3>1, MovesSame, ConfigInHand
      <4>2. file'[job[q].vm] = file[job[q].vm]
        BY <3>1, <4>1, OtherCall, OtherSynced
      <4>. QED BY <2>1, <4>1, <4>2, OnDiskStays DEF SyncInv, OnDisk
    <3>2. CASE q = p /\ Passes(p)
      <4>1. job[p].dev = "config" /\ job'[p].src = job[p].src /\ UNCHANGED file
        BY <2>1, <3>2 DEF Passes, Flows
      <4>2. job[p].src \in ConfVol
        BY <4>1, ConfigInHand
      <4>. QED BY <3>2, <4>1, <4>2, OnDiskStays DEF SyncInv, OnDisk
    <3>3. CASE q = p /\ BurnsDisk(p)
      BY <3>3 DEF BurnsDisk, SyncInv, InHand
    <3>. QED BY <2>1, <3>1, <3>2, <3>3
         DEF Handles, ReadsFile, WritesFile, TearsFile, NotesDisk, InsertsDisk, ForgetsFile
  <2>. QED BY <2>1, MovesSame DEF OnDisk
<1>4. CallSynced'
  <2>1. ASSUME NEW q \in Proc, pc'[q] \in {"start_vm", "ok"},
               job[q].op \in {"create_vm", "attach_disk", "detach_disk"},
               NEW v \in VM, v = job[q].vm
        PROVE  Synced(v)'
    <3>1. CASE q # p
      BY <2>1, <3>1, OtherCall, OtherSynced, MovesSame DEF SyncInv, CallSynced
    <3>2. CASE q = p /\ Passes(p)
      <4>1. pc[p] = "start_vm" /\ UNCHANGED file
        BY <2>1, <3>2 DEF Passes, Flows, DiskOps
      <4>2. UNCHANGED devs /\ Synced(v)
        BY <2>1, <3>2, <4>1, DiskStepStill DEF SyncInv, CallSynced
      <4>. QED BY <4>1, <4>2, SyncedStays
    <3>3. CASE q = p /\ InsertsDisk(p)
      <4>1. /\ job[p].src \in ConfVol /\ iso[job[p].src] = file[v]
            /\ devs'[v]["config"] = job[p].src /\ UNCHANGED <<file, iso>>
        BY <2>1, <3>3, ConfigInHand DEF InsertsDisk, SyncInv, OnDisk
      <4>. QED BY <4>1 DEF Synced
    <3>. QED BY <2>1, <3>1, <3>2, <3>3
         DEF Handles, ReadsFile, WritesFile, TearsFile, BurnsDisk, NotesDisk, ForgetsFile
  <2>2. \A q \in Proc : job[q].op \in {"create_vm", "attach_disk", "detach_disk"} => job[q].vm \in VM
    BY InVM DEF VMOps
  <2>. QED BY <2>1, <2>2, MovesSame DEF CallSynced, Synced
<1>. QED BY <1>1, <1>2, <1>3, <1>4 DEF SyncInv

-----------------------------------------------------------------------------
(* The director's calls *)

\* What the director knows of the VM it begins a call on.
Named(op, v, d) ==
    /\ op = "create_vm" => v \in VM /\ cid[v] = "free" /\ cid'[v] = "pending"
    /\ op \in {"attach_disk", "detach_disk"} => cid[v] = "known"
    /\ \A w \in VM : cid'[w] = cid[w] \/ (op = "create_vm" /\ w = v)

LEMMA CallRecords ==
    ASSUME TypeOK, RecordInv, OneCallPerVM, ~Overlap, NEW p \in Proc, NEW op \in VMOps \cup DiskOps,
           NEW v \in VM \cup {None}, NEW d \in Disk \cup {None}, NEW env,
           env = IF op = "create_vm" THEN NoDisks ELSE None,
           Call(p, op, v, d, env), Recorded(op, v, d), Named(op, v, d)
    PROVE  RecordInv'
<1>1. UNCHANGED <<server, file, trust, host, devs>>
  BY AfterCall DEF Call, server
<1>2. job'[p].env = env
  <2>. DEFINE work == [NoJob EXCEPT !.op = op, !.vm = v, !.disk = d, !.env = env]
  <2>1. Goto(p, Start[op], work) /\ work.env = env
    BY DEF Call, NoJob
  <2>. HIDE DEF work
  <2>. QED BY <2>1, AfterGoto
<1>3. \A x \in Disk, w \in VM : owner'[x] = w /\ x \notin unsure' => owner[x] = w /\ x \notin unsure
  BY DEF Recorded
<1>4. \A x \in Disk, w \in VM : owner[x] = w => owner'[x] = w
  BY NoneNoDev DEF Recorded
<1>5. \A q \in Proc : job[q].op \in VMOps => job[q].vm \in VM /\ q # p
  BY InVM, AfterCall, LifecycleAssumption DEF AllOps
<1>6. AttachedIsRecorded'
  BY <1>1, <1>3 DEF RecordInv, AttachedIsRecorded, Exists
<1>7. NewIsFree'
  BY <1>3, NoneNoDev DEF RecordInv, NewIsFree, Recorded, Named
<1>8. EnvRecords'
  <2>1. ASSUME NEW q \in Proc, NEW x \in Disk, job'[q].op \in VMOps, job'[q].env # None,
               owner'[x] = job'[q].vm, x \notin unsure', Exists(job'[q].vm)
        PROVE  Records(job'[q].env, job'[q].vm, x)
    <3>1. CASE q = p
      <4>1. op = "create_vm" /\ v \in VM /\ cid[v] = "free" /\ job'[p].vm = v
        BY <1>2, <2>1, <3>1, AfterCall DEF Named
      <4>. QED BY <1>3, <2>1, <3>1, <4>1 DEF RecordInv, NewIsFree
    <3>2. CASE q # p
      <4>1. job'[q] = job[q] /\ job[q].vm \in VM
        BY <1>5, <2>1, <3>2, AfterCall
      <4>. QED BY <1>3, <2>1, <4>1 DEF RecordInv, EnvRecords, Attached
    <3>. QED BY <3>1, <3>2
  <2>. QED BY <1>1, <2>1 DEF EnvRecords, Attached, Records, Exists
<1>9. \A q \in Proc : Written(q)' => q # p
  BY AfterCall, NoneNoDev DEF Written, Start, Dev, VMOps
<1>10. AttachRecords' /\ DetachForgets' /\ DeleteForgets'
  <2>1. \A q \in Proc : pc'[q] \in {"write_env", "ok"} \/ Written(q)' =>
            q # p /\ job'[q] = job[q] /\ pc'[q] = pc[q] /\ (Written(q)' <=> Written(q))
    BY <1>9, AfterCall DEF Start, VMOps, DiskOps, Written
  <2>. QED BY <1>1, <2>1
       DEF RecordInv, AttachRecords, DetachForgets, DeleteForgets, Records, Readable, Exists
<1>11. FileOwned'
  BY <1>1, <1>4 DEF RecordInv, FileOwned, Clean, Readable
<1>12. EnvOwned'
  <2>1. ASSUME NEW q \in Proc, NEW x \in Disk, job'[q].op \in VMOps, job'[q].env # None,
               Clean(job'[q].vm), job'[q].env[x] # None
        PROVE  owner'[x] = job'[q].vm
    <3>1. q # p
      BY <1>2, <2>1 DEF NoDisks
    <3>2. job'[q] = job[q] /\ job[q].vm \in VM
      BY <1>5, <2>1, <3>1, AfterCall
    <3>. QED BY <1>4, <2>1, <3>2 DEF RecordInv, EnvOwned
  <2>. QED BY <1>1, <2>1 DEF EnvOwned, Clean
<1>13. Creating'
  <2>1. ASSUME NEW q \in Proc, job'[q].op = "create_vm" PROVE cid'[job'[q].vm] = "pending"
    <3>1. CASE q = p
      BY <2>1, <3>1, AfterCall DEF Named
    <3>2. CASE q # p
      BY <1>5, <2>1, <3>2, AfterCall DEF RecordInv, Creating, Named, VMOps
    <3>. QED BY <3>1, <3>2
  <2>. QED BY <2>1 DEF Creating
<1>14. CallUnsure'
  <2>1. unsure \subseteq unsure' /\ (op \in {"attach_disk", "detach_disk"} => d \in unsure')
    BY DEF Recorded
  <2>. QED BY <2>1, AfterCall DEF RecordInv, CallUnsure
<1>. QED BY <1>6, <1>7, <1>8, <1>10, <1>11, <1>12, <1>13, <1>14 DEF RecordInv

LEMMA CallSyncs ==
    ASSUME TypeOK, SyncInv, NEW p \in Proc, NEW op \in VMOps \cup DiskOps,
           NEW v \in VM \cup {None}, NEW d \in Disk \cup {None}, NEW env,
           Call(p, op, v, d, env), Named(op, v, d)
    PROVE  SyncInv'
<1>1. UNCHANGED <<server, file, trust, host, devs, vols, iso>>
  BY AfterCall DEF Call, server
<1>2. IdleSynced'
  <2>1. ASSUME NEW w \in VM, cid'[w] = "known", trust[w] # "broken",
               \A q \in Proc : job'[q].vm = w => job'[q].op \in DiskOps
        PROVE  Synced(w)
    <3>1. cid[w] = "known"
      BY <2>1 DEF Named
    <3>2. \A q \in Proc : job[q].vm = w => job[q].op \in DiskOps
      BY <2>1, AfterCall, NoneNoDev
    <3>. QED BY <2>1, <3>1, <3>2 DEF SyncInv, IdleSynced
  <2>. QED BY <1>1, <2>1 DEF IdleSynced, Synced
<1>3. \A q \in Proc : q = p => /\ pc'[q] \notin {"locate_vm", "create_config", "start_vm", "ok"}
                               /\ job'[q].dev # "config"
  BY AfterCall, NoneNoDev DEF Start, VMOps, DiskOps, Dev
<1>4. InHand' /\ OnDisk' /\ CallSynced'
  BY <1>1, <1>3, AfterCall DEF SyncInv, InHand, OnDisk, CallSynced, Synced
<1>. QED BY <1>2, <1>4 DEF SyncInv

-----------------------------------------------------------------------------
(* The end of a call *)

\* A killed process may leave the file torn.
Leaves(p, good) ==
    \/ UNCHANGED file
    \/ ~good /\ pc[p] = "write_env" /\ file' = [file EXCEPT ![job[p].vm] = Torn]

\* What the director knows of the VMs after an answer.
LEMMA AfterAnswer ==
    ASSUME TypeOK, NEW p \in Proc, pc[p] # "idle", NEW good \in BOOLEAN, Conclude(job[p], good)
    PROVE  /\ \A w \in VM : cid'[w] =
                  IF job[p].op = "create_vm" /\ w = job[p].vm THEN IF good THEN "known" ELSE "failed"
                  ELSE IF good /\ job[p].op = "delete_vm" /\ w = job[p].vm THEN "deleted" ELSE cid[w]
           /\ \A w \in VM : trust'[w] # "broken" =>
                  IF job[p].op \in VMOps /\ w = job[p].vm THEN good ELSE trust[w] # "broken"
           /\ \A x \in unsure : x \in unsure' \/
                  /\ good
                  /\ \/ job[p].op = "delete_vm" /\ owner[x] = job[p].vm
                     \/ job[p].op = "detach_disk" /\ x = job[p].disk /\ owner'[x] = None
                     \/ job[p].op = "attach_disk" /\ x = job[p].disk
           /\ job[p].op = "delete_vm" /\ good => \A x \in Disk : owner[x] = job[p].vm => owner'[x] = None
<1>1. job[p].op \in VMOps \cup DiskOps /\ job[p] \in Job /\ JobOK(pc[p], job[p])
  BY Here DEF Job, JobOK
<1>2. \A w \in VM : cid'[w] =
          IF job[p].op = "create_vm" /\ w = job[p].vm THEN IF good THEN "known" ELSE "failed"
          ELSE IF good /\ job[p].op = "delete_vm" /\ w = job[p].vm THEN "deleted" ELSE cid[w]
  <2>. DEFINE j == job[p]
              subject == IF j.op \in {"create_vm", "delete_vm"} THEN j.vm ELSE j.disk
              news == IF j.op \in {"create_vm", "create_disk"} THEN IF good THEN "known" ELSE "failed"
                      ELSE IF good /\ j.op \in {"delete_vm", "delete_disk"} THEN "deleted" ELSE cid[subject]
  <2>1. cid' = [cid EXCEPT ![subject] = news]
    BY DEF Conclude
  <2>2. j.op \notin {"create_vm", "delete_vm"} => subject \notin VM
    BY <1>1, LifecycleAssumption DEF JobOK, VMOps
  <2>3. \A w \in VM : cid'[w] = IF w = subject THEN news ELSE cid[w]
    BY <2>1 DEF TypeOK
  <2>. QED BY <1>1, <2>2, <2>3
<1>3. \A w \in VM : trust'[w] # "broken" =>
          IF job[p].op \in VMOps /\ w = job[p].vm THEN good ELSE trust[w] # "broken"
  BY DEF Conclude
<1>4. \A x \in unsure : x \in unsure' \/
          /\ good
          /\ \/ job[p].op = "delete_vm" /\ owner[x] = job[p].vm
             \/ job[p].op = "detach_disk" /\ x = job[p].disk /\ owner'[x] = None
             \/ job[p].op = "attach_disk" /\ x = job[p].disk
  BY DEF Conclude, TypeOK
<1>5. job[p].op = "delete_vm" /\ good => \A x \in Disk : owner[x] = job[p].vm => owner'[x] = None
  BY DEF Conclude
<1>. QED BY <1>2, <1>3, <1>4, <1>5

\* The calls that are still under way.
LEMMA Remaining ==
    ASSUME TypeOK, OneCallPerVM, NEW p \in Proc, pc[p] # "idle", NEW good \in BOOLEAN,
           Conclude(job[p], good), Goto(p, "idle", NoJob), Leaves(p, good), NEW q \in Proc,
           job'[q].op \in VMOps \/ pc'[q] \in {"locate_vm", "create_config"} \/ job'[q].dev = "config"
    PROVE  /\ q # p /\ job'[q] = job[q] /\ pc'[q] = pc[q]
           /\ job[q].vm \in VM => job[q].vm # job[p].vm /\ file'[job[q].vm] = file[job[q].vm]
<1>1. q # p
  BY AfterEnd, NoneNoDev, LifecycleAssumption DEF NoJob, AllOps, Dev
<1>2. job'[q] = job[q] /\ pc'[q] = pc[q]
  BY <1>1, AfterEnd
<1>3. ASSUME job[q].vm \in VM PROVE job[q].vm # job[p].vm /\ file'[job[q].vm] = file[job[q].vm]
  BY <1>1, <1>3, OtherCall DEF Leaves, TypeOK
<1>. QED BY <1>1, <1>2, <1>3

LEMMA EndRecords ==
    ASSUME TypeOK, RecordInv, OneCallPerVM, CallOwns, NEW p \in Proc, pc[p] # "idle",
           NEW good \in BOOLEAN, good => pc[p] = "ok",
           Conclude(job[p], good), Goto(p, "idle", NoJob), UNCHANGED server, Leaves(p, good)
    PROVE  RecordInv'
<1>. DEFINE v == job[p].vm
            x == job[p].disk
<1>1. UNCHANGED <<host, devs>>
  BY DEF server
<1>2. \A w \in VM : file'[w] = file[w] \/ file'[w] = Torn
  BY DEF Leaves, TypeOK
<1>3. \A d \in Disk, w \in VM : owner'[d] = w => owner[d] = w
  BY AfterEnd, NoneNoDev
<1>4. ASSUME NEW d \in Disk, NEW w \in VM, owner'[d] = w, d \notin unsure'
      PROVE  d \notin unsure \/ (good /\ job[p].op = "attach_disk" /\ d = x /\ w = v)
  <2>1. owner[d] = w
    BY <1>3, <1>4
  <2>2. ASSUME d \in unsure, job[p].op = "delete_vm", good, owner[d] = v PROVE FALSE
    BY <1>4, <2>2, AfterAnswer, NoneNoDev
  <2>. QED BY <1>4, <2>1, <2>2, AfterAnswer, NoneNoDev DEF CallOwns
<1>5. good /\ job[p].op \in {"attach_disk", "detach_disk"} => Written(p)
  BY DEF Written
<1>6. AttachedIsRecorded'
  <2>1. ASSUME NEW d \in Disk, NEW w \in VM, owner'[d] = w, d \notin unsure', Exists(w), Readable(file'[w])
        PROVE  Records(file'[w], w, d)
    <3>1. file'[w] = file[w] /\ owner[d] = w
      BY <1>2, <1>3, <2>1 DEF Readable
    <3>2. CASE d \notin unsure
      BY <2>1, <3>1, <3>2 DEF RecordInv, AttachedIsRecorded, Records, Readable
    <3>3. CASE good /\ job[p].op = "attach_disk" /\ d = x /\ w = v
      BY <1>5, <2>1, <3>1, <3>3 DEF RecordInv, AttachRecords
    <3>. QED BY <1>4, <2>1, <3>2, <3>3
  <2>. QED BY <1>1, <2>1 DEF AttachedIsRecorded, Records, Readable, Exists
<1>7. EnvRecords'
  <2>1. ASSUME NEW q \in Proc, NEW d \in Disk, job'[q].op \in VMOps, job'[q].env # None,
               owner'[d] = job'[q].vm, d \notin unsure', Exists(job'[q].vm)
        PROVE  Records(job'[q].env, job'[q].vm, d)
    <3>1. job'[q] = job[q] /\ job[q].vm \in VM /\ job[q].vm # v
      BY <2>1, Remaining, InVM
    <3>2. owner[d] = job[q].vm /\ d \notin unsure
      BY <1>3, <1>4, <2>1, <3>1
    <3>. QED BY <2>1, <3>1, <3>2 DEF RecordInv, EnvRecords, Attached
  <2>. QED BY <1>1, <2>1 DEF EnvRecords, Attached, Records, Exists
<1>8. AttachRecords' /\ DetachForgets' /\ DeleteForgets'
  <2>1. \A q \in Proc : job'[q].op \in VMOps =>
            /\ job'[q] = job[q] /\ pc'[q] = pc[q] /\ file'[job[q].vm] = file[job[q].vm]
            /\ Written(q)' <=> Written(q)
    BY Remaining, InVM DEF Written
  <2>. QED BY <1>1, <2>1
       DEF RecordInv, AttachRecords, DetachForgets, DeleteForgets, Records, Readable, Exists, VMOps
<1>9. FileOwned'
  <2>1. ASSUME NEW w \in VM, NEW d \in Disk, trust'[w] = "clean", Readable(file'[w]), file'[w][d] # None
        PROVE  owner'[d] = w
    <3>1. file'[w] = file[w] /\ Clean(w)
      BY <1>2, <2>1, AfterEnd DEF Readable, Clean
    <3>2. owner[d] = w
      BY <2>1, <3>1 DEF RecordInv, FileOwned
    <3>3. ASSUME good, job[p].op = "delete_vm", w = v PROVE FALSE
      BY <2>1, <3>1, <3>3 DEF RecordInv, DeleteForgets, Readable
    <3>4. ASSUME good, job[p].op = "detach_disk", d = x PROVE FALSE
      BY <1>5, <2>1, <3>1, <3>2, <3>4 DEF RecordInv, DetachForgets, CallOwns
    <3>. QED BY <3>2, <3>3, <3>4, AfterEnd
  <2>. QED BY <2>1 DEF FileOwned, Clean, Readable
<1>10. EnvOwned'
  <2>1. ASSUME NEW q \in Proc, NEW d \in Disk, job'[q].op \in VMOps, job'[q].env # None,
               trust'[job'[q].vm] = "clean", job'[q].env[d] # None
        PROVE  owner'[d] = job'[q].vm
    <3>1. job'[q] = job[q] /\ job[q].vm \in VM /\ job[q].vm # v
      BY <2>1, Remaining, InVM
    <3>2. owner[d] = job[q].vm
      BY <2>1, <3>1, AfterEnd DEF RecordInv, EnvOwned, Clean
    <3>. QED BY <3>1, <3>2, AfterEnd DEF CallOwns
  <2>. QED BY <2>1 DEF EnvOwned, Clean
<1>11. NewIsFree'
  <2>1. ASSUME NEW w \in VM, NEW d \in Disk, cid'[w] \in {"free", "pending", "failed"}, owner'[d] = w
        PROVE  FALSE
    <3>1. cid[w] \in {"free", "pending", "failed"}
      BY <2>1, AfterAnswer DEF RecordInv, Creating
    <3>. QED BY <1>3, <2>1, <3>1 DEF RecordInv, NewIsFree
  <2>. QED BY <2>1 DEF NewIsFree
<1>12. Creating'
  <2>1. ASSUME NEW q \in Proc, job'[q].op = "create_vm" PROVE cid'[job'[q].vm] = "pending"
    <3>1. job'[q] = job[q] /\ job[q].vm \in VM /\ job[q].vm # v
      BY <2>1, Remaining, InVM DEF VMOps
    <3>. QED BY <2>1, <3>1, AfterAnswer DEF RecordInv, Creating
  <2>. QED BY <2>1 DEF Creating
<1>13. CallUnsure'
  <2>1. ASSUME NEW q \in Proc, job'[q].op \in {"attach_disk", "detach_disk"} PROVE job'[q].disk \in unsure'
    <3>1. job'[q] = job[q] /\ job[q].vm \in VM /\ job[q].vm # v
      BY <2>1, Remaining, InVM DEF VMOps
    <3>2. job[q].disk \in unsure /\ owner[job[q].disk] = job[q].vm
      BY <2>1, <3>1 DEF RecordInv, CallUnsure, CallOwns
    <3>. QED BY <3>1, <3>2, AfterAnswer DEF CallOwns
  <2>. QED BY <2>1 DEF CallUnsure
<1>. QED BY <1>6, <1>7, <1>8, <1>9, <1>10, <1>11, <1>12, <1>13 DEF RecordInv

LEMMA EndSyncs ==
    ASSUME TypeOK, SyncInv, OneCallPerVM, ConfigAt, NEW p \in Proc, pc[p] # "idle",
           NEW good \in BOOLEAN, good => pc[p] = "ok",
           Conclude(job[p], good), Goto(p, "idle", NoJob), UNCHANGED server, Leaves(p, good)
    PROVE  SyncInv'
<1>1. UNCHANGED <<devs, vols, iso>>
  BY DEF server
<1>2. IdleSynced'
  <2>1. ASSUME NEW w \in VM, cid'[w] = "known", trust'[w] # "broken",
               \A q \in Proc : job'[q].vm = w => job'[q].op \in DiskOps
        PROVE  Synced(w) /\ file'[w] = file[w]
    <3>1. CASE job[p].op \in VMOps /\ w = job[p].vm
      <4>1. good
        BY <2>1, <3>1, AfterAnswer
      <4>2. job[p].op # "delete_vm"
        BY <2>1, <3>1, <4>1, AfterAnswer
      <4>. QED BY <3>1, <4>1, <4>2 DEF SyncInv, CallSynced, VMOps, Leaves
    <3>2. CASE ~(job[p].op \in VMOps /\ w = job[p].vm)
      <4>1. cid[w] = "known" /\ trust[w] # "broken"
        BY <2>1, <3>2, AfterAnswer DEF VMOps
      <4>2. \A q \in Proc : job[q].vm = w => job[q].op \in DiskOps
        <5>1. job[p].vm = w => job[p].op \in DiskOps
          BY <3>2, Here DEF Job, JobOK
        <5>. QED BY <2>1, <5>1, AfterEnd
      <4>3. file'[w] = file[w]
        BY <3>2, EnvAtWrite DEF Leaves, TypeOK
      <4>. QED BY <2>1, <4>1, <4>2, <4>3 DEF SyncInv, IdleSynced
    <3>. QED BY <3>1, <3>2
  <2>. QED BY <1>1, <2>1 DEF IdleSynced, Synced
<1>3. InHand'
  <2>1. ASSUME NEW q \in Proc, pc'[q] \in {"locate_vm", "create_config"}
        PROVE  file'[job'[q].vm] = job'[q].env
    <3>1. job'[q] = job[q] /\ pc'[q] = pc[q] /\ (job[q].vm \in VM => file'[job[q].vm] = file[job[q].vm])
      BY <2>1, Remaining
    <3>. QED BY <2>1, <3>1, VMAt DEF SyncInv, InHand
  <2>. QED BY <2>1 DEF InHand
<1>4. OnDisk'
  <2>1. ASSUME NEW q \in Proc, job'[q].dev = "config"
        PROVE  vols[job'[q].src] = {} \/ iso[job'[q].src] = file'[job'[q].vm]
    <3>1. job'[q] = job[q] /\ (job[q].vm \in VM => file'[job[q].vm] = file[job[q].vm])
      BY <2>1, Remaining
    <3>. QED BY <2>1, <3>1, ConfigInHand DEF SyncInv, OnDisk
  <2>. QED BY <1>1, <2>1 DEF OnDisk
<1>5. CallSynced'
  <2>1. ASSUME NEW q \in Proc, pc'[q] \in {"start_vm", "ok"},
               job'[q].op \in {"create_vm", "attach_disk", "detach_disk"}
        PROVE  Synced(job'[q].vm) /\ file'[job'[q].vm] = file[job'[q].vm]
    <3>1. job'[q] = job[q] /\ pc'[q] = pc[q] /\ file'[job[q].vm] = file[job[q].vm]
      BY <2>1, Remaining, InVM DEF VMOps
    <3>. QED BY <2>1, <3>1 DEF SyncInv, CallSynced
  <2>. QED BY <1>1, <2>1 DEF CallSynced, Synced
<1>. QED BY <1>2, <1>3, <1>4, <1>5 DEF SyncInv

-----------------------------------------------------------------------------
(* The theorems *)

SetInv == RecordInv /\ SyncInv

LEMMA SettingsKept ==
    ASSUME TypeOK, SetInv, IsoKept, ConfigAt, UNCHANGED <<pc, job, file, director, host, devs>>
    PROVE  SetInv'
<1>1. RecordInv'
  <2>1. AttachedIsRecorded' /\ EnvRecords' /\ AttachRecords' /\ NewIsFree' /\ Creating' /\ CallUnsure'
    BY DEF SetInv, RecordInv, AttachedIsRecorded, EnvRecords, AttachRecords, NewIsFree, Creating,
           CallUnsure, Attached, Records, Readable, Written, Exists, director
  <2>2. FileOwned' /\ EnvOwned' /\ DetachForgets' /\ DeleteForgets'
    BY DEF SetInv, RecordInv, FileOwned, EnvOwned, DetachForgets, DeleteForgets, Clean, Readable,
           Written, director
  <2>. QED BY <2>1, <2>2 DEF RecordInv
<1>2. \A v \in VM : Synced(v) => Synced(v)'
  BY SyncedStays
<1>3. IdleSynced' /\ InHand'
  BY <1>2 DEF SetInv, SyncInv, IdleSynced, InHand, director
<1>4. CallSynced'
  <2>1. \A q \in Proc : job[q].op \in {"create_vm", "attach_disk", "detach_disk"} =>
            \E v \in VM : v = job[q].vm /\ v = job'[q].vm
    BY InVM DEF VMOps
  <2>. QED BY <1>2, <2>1 DEF SetInv, SyncInv, CallSynced, Synced
<1>5. OnDisk'
  BY ConfigInHand, OnDiskStays DEF SetInv, SyncInv, OnDisk
<1>. QED BY <1>1, <1>3, <1>4, <1>5 DEF SetInv, SyncInv

LEMMA EndSettings ==
    ASSUME TypeOK, RefInv, SetInv, NEW p \in Proc, Reply(p) \/ Crash(p)
    PROVE  SetInv'
<1>1. CASE Reply(p)
  <2>1. Leaves(p, pc[p] = "ok") /\ (pc[p] = "ok") \in BOOLEAN
    BY <1>1 DEF Reply, Leaves
  <2>. QED BY <1>1, <2>1, EndRecords, EndSyncs DEF Reply, SetInv, RefInv
<1>2. CASE Crash(p)
  <2>1. Leaves(p, FALSE)
    BY <1>2 DEF Crash, Leaves
  <2>. QED BY <1>2, <2>1, EndRecords, EndSyncs DEF Crash, SetInv, RefInv
<1>. QED BY <1>1, <1>2

LEMMA DirectorSettings ==
    ASSUME TypeOK, RefInv, SetInv, ~Overlap, NEW p \in Proc, Director(p)
    PROVE  SetInv'
<1>. USE DEF VMOps, DiskOps
<1>0. VM \cap Disk = {} /\ RecordInv /\ SyncInv /\ OneCallPerVM
  BY LifecycleAssumption DEF SetInv, RefInv
<1>1. ASSUME NEW v \in VM, CallCreateVM(p, v) PROVE SetInv'
  <2>1. Named("create_vm", v, None) /\ Recorded("create_vm", v, None)
    BY <1>1 DEF CallCreateVM, Named, Recorded, TypeOK
  <2>. QED BY <1>0, <1>1, <2>1, CallRecords, CallSyncs DEF CallCreateVM, SetInv
<1>2. ASSUME NEW v \in VM, CallDeleteVM(p, v) PROVE SetInv'
  <2>1. Named("delete_vm", v, None) /\ Recorded("delete_vm", v, None)
    BY <1>2 DEF CallDeleteVM, Named, Recorded
  <2>. QED BY <1>0, <1>2, <2>1, CallRecords, CallSyncs DEF CallDeleteVM, SetInv
<1>3. ASSUME NEW v \in VM, NEW d \in Disk, CallCreateDisk(p, v, d) PROVE SetInv'
  <2>1. Named("create_disk", v, d) /\ Recorded("create_disk", v, d)
    BY <1>0, <1>3 DEF CallCreateDisk, Named, Recorded, TypeOK
  <2>. QED BY <1>0, <1>3, <2>1, CallRecords, CallSyncs DEF CallCreateDisk, SetInv
<1>4. ASSUME NEW v \in VM, NEW d \in Disk, CallAttachDisk(p, v, d) PROVE SetInv'
  <2>1. Named("attach_disk", v, d) /\ Recorded("attach_disk", v, d)
    BY <1>4 DEF CallAttachDisk, Named, Recorded, TypeOK
  <2>. QED BY <1>0, <1>4, <2>1, CallRecords, CallSyncs DEF CallAttachDisk, SetInv
<1>5. ASSUME NEW v \in VM, NEW d \in Disk, CallDetachDisk(p, v, d) PROVE SetInv'
  <2>1. Named("detach_disk", v, d) /\ Recorded("detach_disk", v, d)
    BY <1>5 DEF CallDetachDisk, Named, Recorded, TypeOK
  <2>. QED BY <1>0, <1>5, <2>1, CallRecords, CallSyncs DEF CallDetachDisk, SetInv
<1>6. ASSUME NEW d \in Disk, CallDeleteDisk(p, d) PROVE SetInv'
  <2>1. Named("delete_disk", None, d) /\ Recorded("delete_disk", None, d)
    BY <1>6 DEF CallDeleteDisk, Named, Recorded
  <2>. QED BY <1>0, <1>6, <2>1, CallRecords, CallSyncs DEF CallDeleteDisk, SetInv
<1>. QED BY <1>1, <1>2, <1>3, <1>4, <1>5, <1>6 DEF Director

LEMMA SetInvNext ==
    ASSUME ~Overlap, DiskInv, NameFree, RefInv, SetInv, [Next]_vars
    PROVE  SetInv'
<1>0. TypeOK /\ TypeOK' /\ ConfigAt /\ OneCallPerVM /\ CallOwns /\ SourceIsOwn /\ TableRead
  BY NextType DEF DiskInv, RefInv
<1>1. ASSUME NEW p \in Proc, Step(p), ~Reply(p) PROVE SetInv'
  <2>1. Moves(p) /\ Handles(p) /\ IsoKept
    BY <1>0, <1>1, StepMoves, StepHandles, StepIso
  <2>. QED BY <1>0, <1>1, <2>1, StepRecords, StepSyncs DEF SetInv
<1>2. CASE UNCHANGED vars
  BY <1>0, <1>2, IsoSame, SettingsKept DEF vars, cpiVars, server
<1>3. CASE Cleanup \/ CleanupKilled
  BY <1>0, <1>3, CleanupIso, SettingsKept
<1>. QED BY <1>0, <1>1, <1>2, <1>3, EndSettings, DirectorSettings DEF Next

LEMMA SetInvInit == Init => SetInv
<1>. SUFFICES ASSUME Init PROVE SetInv
  OBVIOUS
<1>1. /\ \A p \in Proc : job[p] = NoJob /\ pc[p] = "idle" /\ job[p].op = None /\ job[p].env = None
                         /\ job[p].dev = None /\ None # "config"
      /\ \A v \in VM : file[v] = Absent /\ cid[v] = "free"
      /\ \A d \in Disk : owner[d] = None
  BY NoneNoDev DEF Init, NoJob, Dev
<1>2. None \notin VMOps
  BY LifecycleAssumption DEF AllOps
<1>3. RecordInv
  BY <1>1, <1>2, NoneNoDev
  DEF RecordInv, AttachedIsRecorded, EnvRecords, AttachRecords, FileOwned, EnvOwned, DetachForgets,
      DeleteForgets, NewIsFree, Creating, CallUnsure, Readable, Attached, VMOps
<1>4. SyncInv
  BY <1>1, <1>2 DEF SyncInv, IdleSynced, InHand, OnDisk, CallSynced
<1>. QED BY <1>3, <1>4 DEF SetInv

\* All of it together, where the director runs one call on a VM at a time.
Inv == DiskInv /\ NameFree /\ RefInv /\ SetInv

LEMMA AlwaysInv == ASSUME ~Overlap PROVE Spec => []Inv
<1>1. Init => Inv
  BY DiskInvInit, RefInvInit, SetInvInit DEF Init, NameFree, Inv
<1>2. Inv /\ [Next]_vars => Inv'
  BY DiskInvNext, NameFreeNext, RefInvNext, SetInvNext DEF Inv
<1>. QED BY <1>1, <1>2, PTL DEF Spec

\* Once the last call on a VM has succeeded its configuration disk holds what its agent.json
\* says, whatever requests failed and processes died before (writeAgentFileToVM).
THEOREM AgentSees == ASSUME ~Overlap PROVE Spec => []AgentSeesRecord
<1>1. Inv => AgentSeesRecord
  BY DEF Inv, SetInv, SyncInv, IdleSynced, Synced, AgentSeesRecord, VMIdle
<1>. QED BY <1>1, AlwaysInv, PTL

\* A disk whose attach_disk succeeded stays in agent.json, under the name of its device, until
\* the director asks to detach it, through failures of other calls on the VM.
THEOREM AttachedRecorded == ASSUME ~Overlap PROVE Spec => []AttachedIsRecorded
<1>1. Inv => AttachedIsRecorded
  BY DEF Inv, SetInv, RecordInv
<1>. QED BY <1>1, AlwaysInv, PTL

\* A disk the director has detached is on no VM, and in no agent.json, that no call failed on.
THEOREM DetachedFree == ASSUME ~Overlap PROVE Spec => []DetachedIsFree
<1>1. Inv => DetachedIsFree
  BY NoneNoDev
  DEF Inv, SetInv, RecordInv, RefInv, Owned, FileOwned, Clean, Readable, DetachedIsFree
<1>. QED BY <1>1, AlwaysInv, PTL

-----------------------------------------------------------------------------
(* The rollback of create_vm: the inductive invariant *)

\* The volumes a call makes and removes for a VM.
CallVol == ConfVol \cup EphVol

ConfigTrash == {"config_get", "detach_put", "check_stopped", "delete_config"}
TrashRequests == ConfigTrash \cup {"delete_instance", "delete_volumes"}

\* They are not moved, they stay while an instance uses them, and only one does.
OnePlace == \A x \in CallVol : \A m, n \in vols[x] : m = n
InUse == \A v \in VM, x \in CallVol : x \in Sources(v) => vols[x] # {} /\ UsedBy(x) = {v}
EphTable == \A v \in VM : devs[v]["ephemeral"] \in {None, EphOf(v)}

\* A volume a call has made and not attached yet is in its hands only.
Holding(p) ==
    /\ pc[p] \in ConfigRequests
    /\ UsedBy(job[p].src) = {}
    /\ job[p].src \in ConfVol => vols[job[p].src] = {host[job[p].vm]}
    /\ job[p].src \in EphVol => job[p].src = EphOf(job[p].vm)
    /\ \A q \in Proc : job[p].src \notin job[q].trash /\ (q # p => job[q].src # job[p].src)
MadeOwn == \A p \in Proc : job[p].src \in CallVol => Holding(p)

\* A volume a call is about to delete is no other call's, and it is there.
Discarding(p, x) ==
    /\ pc[p] \in TrashRequests
    /\ UsedBy(x) \subseteq {job[p].vm}
    /\ x \in EphVol => x = EphOf(job[p].vm)
    /\ \A q \in Proc \ {p} : x \notin job[q].trash
    /\ pc[p] = "delete_instance" => x \in Sources(job[p].vm)
    /\ pc[p] = "delete_volumes" => vols[x] # {} /\ UsedBy(x) = {}
TrashOwn == \A p \in Proc, x \in CallVol : x \in job[p].trash => Discarding(p, x)

HandsInv == OnePlace /\ InUse /\ EphTable /\ MadeOwn /\ TrashOwn

-----------------------------------------------------------------------------
(* What the steps of a process do to these volumes *)

SameVols == \A x \in CallVol : vols'[x] = vols[x]

OthersRest(p) == \A q \in Proc \ {p} : job'[q] = job[q] /\ pc'[q] = pc[q]

HoldsSrc(p) == job'[p].src \in CallVol =>
    job'[p].src = job[p].src /\ job'[p].vm = job[p].vm /\ pc'[p] \in ConfigRequests

HoldsTrash(p) == job'[p].trash # {} =>
    job'[p].trash \subseteq job[p].trash /\ job'[p].vm = job[p].vm /\ pc'[p] \in ConfigTrash

Carries(p) ==
    /\ UNCHANGED devs /\ SameVols /\ HoldsSrc(p) /\ HoldsTrash(p)
    /\ \/ UNCHANGED host
       \/ /\ job[p].vm \in VM /\ job'[p].src \notin CallVol
          /\ \E n \in Node : host' = [host EXCEPT ![job[p].vm] = n]

MakesVolume(p) == \E x \in CallVol, n \in Node :
    /\ UNCHANGED <<devs, host>> /\ vols[x] = {} /\ vols' = [vols EXCEPT ![x] = {n}]
    /\ \A q \in Proc : job[q].src # x /\ x \notin job[q].trash
    /\ x \in ConfVol => n = host[job[p].vm]
    /\ x \in EphVol => x = EphOf(job[p].vm)
    /\ job'[p].trash = {} /\ job'[p].vm = job[p].vm
    /\ job'[p].src \in CallVol => job'[p].src = x /\ pc'[p] \in ConfigRequests

ListsVolumes(p) ==
    /\ UNCHANGED <<devs, host>> /\ SameVols /\ HoldsSrc(p) /\ job'[p].vm = job[p].vm
    /\ job[p].vm \in VM /\ job'[p].trash \subseteq Sources(job[p].vm)
    /\ job'[p].trash # {} => pc'[p] \in {"config_get", "delete_instance"}

PutsDevice(p) == \E a \in Dev, x \in Vol :
    /\ UNCHANGED host /\ SameVols /\ job[p].vm \in VM
    /\ x \in Backing(a) /\ x = job[p].src
    /\ devs[job[p].vm][a] = None /\ OneDevice(job[p].vm, a, x)
    /\ vols[x] # {}
    /\ job'[p].src \notin CallVol /\ job'[p].trash = {}

TakesDevice(p) == \E a \in Dev :
    /\ UNCHANGED host /\ SameVols /\ job[p].vm \in VM
    /\ OneDevice(job[p].vm, a, None)
    /\ HoldsSrc(p) /\ HoldsTrash(p)

ClearsDevices(p) ==
    /\ SameVols /\ job[p].vm \in VM /\ pc[p] = "delete_instance"
    /\ host' = [host EXCEPT ![job[p].vm] = None]
    /\ devs' = [devs EXCEPT ![job[p].vm] = NoDevices]
    /\ job'[p].vm = job[p].vm /\ job'[p].src \notin CallVol
    /\ job'[p].trash \subseteq job[p].trash
    /\ job'[p].trash # {} => pc'[p] = "delete_volumes"

RemovesVolume(p) == \E x \in job[p].trash :
    /\ UNCHANGED <<devs, host>> /\ UsedBy(x) = {} /\ x \in CallVol
    /\ vols' = [vols EXCEPT ![x] = {}]
    /\ HoldsSrc(p) /\ job'[p].vm = job[p].vm
    /\ job'[p].trash \subseteq job[p].trash \ {x}
    /\ job'[p].trash # {} => pc[p] = "delete_volumes" /\ pc'[p] = "delete_volumes"

Hands(p) ==
    /\ OthersRest(p)
    /\ \/ Carries(p) \/ MakesVolume(p) \/ ListsVolumes(p) \/ PutsDevice(p) \/ TakesDevice(p)
       \/ ClearsDevices(p) \/ RemovesVolume(p)

-----------------------------------------------------------------------------
(* They keep the invariant *)

\* Configuration and ephemeral disks are behind the two devices named for them.
LEMMA TableKinds ==
    ASSUME NEW t \in DevTable
    PROVE  /\ t["config"] \in ConfVol \cup {None} /\ t["ephemeral"] \in EphVol \cup {None}
           /\ \A d \in PersistentDev : t[d] \in Disk \cup {None}
           /\ Dev = {"config", "ephemeral"} \cup PersistentDev
           /\ \A d \in PersistentDev : d # "config" /\ d # "ephemeral"
  BY DEF DevTable, Backing, Dev, PersistentDev

LEMMA UserOf ==
    ASSUME TypeOK, TypeOK', NEW v \in VM, NEW x \in CallVol
    PROVE  /\ v \in UsedBy(x) <=> devs[v]["config"] = x \/ devs[v]["ephemeral"] = x
           /\ (v \in UsedBy(x))' <=> devs'[v]["config"] = x \/ devs'[v]["ephemeral"] = x
           /\ x \in Sources(v) <=> v \in UsedBy(x)
           /\ (x \in Sources(v))' <=> (v \in UsedBy(x))'
<1>1. x \notin Disk \cup {None}
  BY StrongDisjoint DEF CallVol, Vol
<1>2. devs[v] \in DevTable /\ devs'[v] \in DevTable
  BY DEF TypeOK, ServerTypeOK
<1>3. \A t \in DevTable : (\E d \in Dev : t[d] = x) <=> t["config"] = x \/ t["ephemeral"] = x
  BY <1>1, TableKinds
<1>. QED BY <1>1, <1>2, <1>3 DEF UsedBy, Sources

LEMMA VolsAfter ==
    ASSUME TypeOK, NEW x \in CallVol, NEW new, vols' = [vols EXCEPT ![x] = new]
    PROVE  \A y \in CallVol : vols'[y] = IF y = x THEN new ELSE vols[y]
  BY DEF TypeOK, ServerTypeOK, CallVol, Vol


LEMMA SameUsers ==
    ASSUME UNCHANGED devs
    PROVE  /\ \A x : UsedBy(x)' = UsedBy(x)
           /\ \A v : Sources(v)' = Sources(v)
  BY DEF UsedBy, Sources

LEMMA CarriesKeeps ==
    ASSUME TypeOK, OneCallPerVM, HandsInv, NEW p \in Proc, OthersRest(p), Carries(p)
    PROVE  HandsInv'
<1>1. OnePlace' /\ InUse' /\ EphTable'
  BY SameUsers DEF HandsInv, OnePlace, InUse, EphTable, Carries, SameVols
<1>2. \A q \in Proc : job'[q].src \in CallVol =>
          job'[q].src = job[q].src /\ job'[q].vm = job[q].vm /\ pc'[q] \in ConfigRequests
  BY DEF Carries, HoldsSrc, OthersRest, HandsInv, MadeOwn, Holding
<1>3. \A q \in Proc : job'[q].trash \subseteq job[q].trash
  BY DEF Carries, HoldsTrash, OthersRest
<1>4. \A q \in Proc : job'[q].src \in CallVol => host'[job[q].vm] = host[job[q].vm]
  <2>1. \A q \in Proc \ {p} : job[p].vm \in VM => job[q].vm # job[p].vm
    BY ServerAssumption DEF OneCallPerVM
  <2>2. \A q \in Proc : job[q].src \in CallVol => job[q].vm \in VM
    BY VMAt DEF HandsInv, MadeOwn, Holding, ConfigRequests
  <2>. QED BY <1>2, <2>1, <2>2 DEF Carries, TypeOK, ServerTypeOK
<1>5. MadeOwn'
  BY <1>2, <1>3, <1>4, SameUsers DEF HandsInv, MadeOwn, Holding, Carries, SameVols
<1>6. TrashOwn'
  BY <1>3, SameUsers
  DEF HandsInv, TrashOwn, Discarding, Carries, SameVols, HoldsTrash, OthersRest, ConfigTrash, TrashRequests
<1>. QED BY <1>1, <1>5, <1>6 DEF HandsInv

LEMMA MakesKeeps ==
    ASSUME TypeOK, TypeOK', OneCallPerVM, HandsInv, NEW p \in Proc, OthersRest(p), MakesVolume(p)
    PROVE  HandsInv'
<1>0. PICK x \in CallVol, n \in Node :
        /\ UNCHANGED <<devs, host>> /\ vols[x] = {} /\ vols' = [vols EXCEPT ![x] = {n}]
        /\ \A q \in Proc : job[q].src # x /\ x \notin job[q].trash
        /\ x \in ConfVol => n = host[job[p].vm]
        /\ x \in EphVol => x = EphOf(job[p].vm)
        /\ job'[p].trash = {} /\ job'[p].vm = job[p].vm
        /\ job'[p].src \in CallVol => job'[p].src = x /\ pc'[p] \in ConfigRequests
  BY DEF MakesVolume
<1>1. \A y \in CallVol : vols'[y] = IF y = x THEN {n} ELSE vols[y]
  <2>1. vols' = [vols EXCEPT ![x] = {n}] /\ x \in CallVol
    BY <1>0
  <2>. QED BY <2>1, VolsAfter
<1>2. UsedBy(x) = {}
  BY <1>0 DEF HandsInv, InUse, UsedBy
<1>3. OnePlace' /\ InUse' /\ EphTable'
  BY <1>0, <1>1, SameUsers DEF HandsInv, OnePlace, InUse, EphTable
<1>4. \A q \in Proc : job'[q].trash \subseteq job[q].trash
  BY <1>0 DEF OthersRest
<1>5. MadeOwn'
  <2>1. ASSUME NEW q \in Proc, q # p, job'[q].src \in CallVol
        PROVE  Holding(q)'
    BY <1>0, <1>1, <1>4, <2>1, SameUsers DEF HandsInv, MadeOwn, Holding, OthersRest
  <2>2. ASSUME job'[p].src \in CallVol
        PROVE  Holding(p)'
    BY <1>0, <1>1, <1>2, <1>4, <2>2, SameUsers DEF OthersRest, Holding
  <2>. QED BY <2>1, <2>2 DEF MadeOwn
<1>6. TrashOwn'
  BY <1>0, <1>1, <1>4, SameUsers DEF HandsInv, TrashOwn, Discarding, OthersRest
<1>. QED BY <1>3, <1>5, <1>6 DEF HandsInv

LEMMA ListsKeeps ==
    ASSUME TypeOK, TypeOK', OneCallPerVM, HandsInv, NEW p \in Proc, OthersRest(p), ListsVolumes(p)
    PROVE  HandsInv'
<1>1. OnePlace' /\ InUse' /\ EphTable'
  BY SameUsers DEF HandsInv, OnePlace, InUse, EphTable, ListsVolumes, SameVols
<1>2. \A q \in Proc : job'[q].src \in CallVol =>
          job'[q].src = job[q].src /\ job'[q].vm = job[q].vm /\ pc'[q] \in ConfigRequests
  BY DEF ListsVolumes, HoldsSrc, OthersRest, HandsInv, MadeOwn, Holding
<1>3. \A x \in CallVol : x \in job'[p].trash => UsedBy(x) = {job[p].vm} /\ x \in Sources(job[p].vm)
  BY DEF ListsVolumes, HandsInv, InUse
<1>4. ASSUME NEW x \in CallVol, x \in job'[p].trash, NEW q \in Proc, q # p
      PROVE  x \notin job'[q].trash
  <2>1. job'[q] = job[q] /\ job[p].vm \in VM
    BY <1>4 DEF OthersRest, ListsVolumes
  <2>2. job[q].vm # job[p].vm
    BY <1>4, <2>1, ServerAssumption DEF OneCallPerVM
  <2>. QED BY <1>3, <1>4, <2>1, <2>2 DEF HandsInv, TrashOwn, Discarding
<1>5. MadeOwn'
  <2>1. \A q \in Proc : job[q].src \in CallVol => job[q].src \notin job'[p].trash
    BY <1>3, SameUsers DEF HandsInv, MadeOwn, Holding
  <2>2. \A q, r \in Proc : job[q].src \in CallVol => job[q].src \notin job'[r].trash
    BY <2>1 DEF HandsInv, MadeOwn, Holding, OthersRest
  <2>. QED BY <1>2, <2>2, SameUsers DEF HandsInv, MadeOwn, Holding, ListsVolumes, SameVols
<1>6. TrashOwn'
  <2>1. ASSUME NEW x \in CallVol, x \in job'[p].trash, x \in EphVol PROVE x = EphOf(job[p].vm)
    <3>1. devs[job[p].vm]["config"] = x \/ devs[job[p].vm]["ephemeral"] = x
      BY <1>3, <2>1, UserOf DEF ListsVolumes
    <3>. QED BY <2>1, <3>1, TableKinds, DevsType, StrongDisjoint
         DEF HandsInv, EphTable, ListsVolumes, Vol
  <2>2. ASSUME NEW q \in Proc, q # p, NEW x \in CallVol, x \in job'[q].trash
        PROVE  x \notin job'[p].trash
    BY <1>4, <2>2
  <2>3. ASSUME NEW x \in CallVol, x \in job'[p].trash
        PROVE  Discarding(p, x)'
    BY <1>3, <1>4, <2>1, <2>3, SameUsers DEF ListsVolumes, Discarding, TrashRequests, ConfigTrash
  <2>4. ASSUME NEW q \in Proc, q # p, NEW x \in CallVol, x \in job'[q].trash
        PROVE  Discarding(q, x)'
    BY <2>2, <2>4, SameUsers DEF HandsInv, TrashOwn, Discarding, OthersRest, ListsVolumes, SameVols
  <2>. QED BY <2>3, <2>4 DEF TrashOwn
<1>. QED BY <1>1, <1>5, <1>6 DEF HandsInv

LEMMA RemovesKeeps ==
    ASSUME TypeOK, TypeOK', OneCallPerVM, HandsInv, NEW p \in Proc, OthersRest(p), RemovesVolume(p)
    PROVE  HandsInv'
<1>0. PICK x \in job[p].trash :
        /\ UNCHANGED <<devs, host>> /\ UsedBy(x) = {} /\ x \in CallVol
        /\ vols' = [vols EXCEPT ![x] = {}]
        /\ HoldsSrc(p) /\ job'[p].vm = job[p].vm
        /\ job'[p].trash \subseteq job[p].trash \ {x}
        /\ job'[p].trash # {} => pc[p] = "delete_volumes" /\ pc'[p] = "delete_volumes"
  BY DEF RemovesVolume
<1>1. \A y \in CallVol : vols'[y] = IF y = x THEN {} ELSE vols[y]
  <2>1. vols' = [vols EXCEPT ![x] = {}] /\ x \in CallVol
    BY <1>0
  <2>. QED BY <2>1, VolsAfter
<1>2. OnePlace' /\ EphTable'
  BY <1>0, <1>1, SameUsers DEF HandsInv, OnePlace, EphTable
<1>3. InUse'
  <2>1. \A v \in VM : x \notin Sources(v)
    BY <1>0 DEF UsedBy
  <2>. QED BY <1>0, <1>1, <2>1, SameUsers DEF HandsInv, InUse
<1>4. \A q \in Proc : job'[q].src \in CallVol =>
          job'[q].src = job[q].src /\ job'[q].vm = job[q].vm /\ pc'[q] \in ConfigRequests
  BY <1>0 DEF HoldsSrc, OthersRest, HandsInv, MadeOwn, Holding
<1>5. \A q \in Proc : job'[q].trash \subseteq job[q].trash /\ x \notin job'[q].trash
  BY <1>0 DEF OthersRest, HandsInv, TrashOwn, Discarding
<1>6. MadeOwn'
  BY <1>0, <1>1, <1>4, <1>5, SameUsers DEF HandsInv, MadeOwn, Holding
<1>7. TrashOwn'
  BY <1>0, <1>1, <1>5, SameUsers DEF HandsInv, TrashOwn, Discarding, OthersRest
<1>. QED BY <1>2, <1>3, <1>6, <1>7 DEF HandsInv


LEMMA PutUsers ==
    ASSUME TypeOK, TypeOK', NEW v \in VM, NEW a \in Dev, NEW x \in Vol, x \in Backing(a),
           devs[v][a] = None, OneDevice(v, a, x), NEW w \in VM, NEW y \in CallVol
    PROVE  (w \in UsedBy(y))' <=> w \in UsedBy(y) \/ (w = v /\ y = x)
<1>1. \A b \in Dev : devs'[w][b] = IF w = v /\ b = a THEN x ELSE devs[w][b]
  BY TableAfter
<1>2. y # None /\ y \notin Disk
  BY StrongDisjoint DEF CallVol, Vol
<1>3. a \in {"config", "ephemeral"} \/ x \in Disk
  BY DEF Backing, Dev
<1>4. {"config", "ephemeral"} \subseteq Dev
  BY DEF Dev
<1>. QED BY <1>1, <1>2, <1>3, <1>4, UserOf

LEMMA TakeUsers ==
    ASSUME TypeOK, TypeOK', NEW v \in VM, NEW a \in Dev, OneDevice(v, a, None),
           NEW w \in VM, NEW y \in CallVol
    PROVE  /\ (w \in UsedBy(y))' => w \in UsedBy(y)
           /\ w # v => ((w \in UsedBy(y))' <=> w \in UsedBy(y))
<1>1. \A b \in Dev : devs'[w][b] = IF w = v /\ b = a THEN None ELSE devs[w][b]
  BY TableAfter
<1>2. y # None /\ {"config", "ephemeral"} \subseteq Dev
  BY StrongDisjoint DEF CallVol, Vol, Dev
<1>. QED BY <1>1, <1>2, UserOf

LEMMA ClearUsers ==
    ASSUME TypeOK, TypeOK', NEW v \in VM, devs' = [devs EXCEPT ![v] = NoDevices],
           NEW w \in VM, NEW y \in CallVol
    PROVE  (w \in UsedBy(y))' <=> w \in UsedBy(y) /\ w # v
<1>1. devs'[w] = IF w = v THEN NoDevices ELSE devs[w]
  BY DEF TypeOK, ServerTypeOK
<1>2. y # None /\ {"config", "ephemeral"} \subseteq Dev
  BY StrongDisjoint DEF CallVol, Vol, Dev
<1>. QED BY <1>1, <1>2, UserOf DEF NoDevices

LEMMA UsersAreVMs == \A x : UsedBy(x) \subseteq VM /\ UsedBy(x)' \subseteq VM
  BY DEF UsedBy

LEMMA DiscardVM == ASSUME TypeOK, NEW p \in Proc, NEW x, Discarding(p, x) PROVE job[p].vm \in VM
  BY VMAt DEF Discarding, TrashRequests, ConfigTrash

LEMMA PutsKeeps ==
    ASSUME TypeOK, TypeOK', OneCallPerVM, HandsInv, NEW p \in Proc, OthersRest(p), PutsDevice(p)
    PROVE  HandsInv'
<1>0. PICK a \in Dev, x \in Vol :
        /\ UNCHANGED host /\ SameVols /\ job[p].vm \in VM
        /\ x \in Backing(a) /\ x = job[p].src
        /\ devs[job[p].vm][a] = None /\ OneDevice(job[p].vm, a, x)
        /\ vols[x] # {}
        /\ job'[p].src \notin CallVol /\ job'[p].trash = {}
  BY DEF PutsDevice
<1>1. \A w \in VM, y \in CallVol :
          /\ (w \in UsedBy(y))' <=> w \in UsedBy(y) \/ (w = job[p].vm /\ y = x)
          /\ y \in Sources(w) <=> w \in UsedBy(y)
          /\ (y \in Sources(w))' <=> (w \in UsedBy(y))'
  BY <1>0, PutUsers, UserOf
<1>2. x \in CallVol => Holding(p) /\ UsedBy(x) = {} /\ (x \in EphVol => x = EphOf(job[p].vm))
  BY <1>0 DEF HandsInv, MadeOwn, Holding
<1>3. \A y \in CallVol : y # x => UsedBy(y)' = UsedBy(y)
  BY <1>0, <1>1, UsersAreVMs
<1>4. x \in CallVol => UsedBy(x)' = {job[p].vm}
  BY <1>0, <1>1, <1>2, UsersAreVMs
<1>5. OnePlace'
  BY <1>0 DEF HandsInv, OnePlace, SameVols
<1>6. InUse'
  BY <1>0, <1>1, <1>3, <1>4 DEF HandsInv, InUse, SameVols
<1>7. EphTable'
  <2>1. ASSUME NEW v \in VM PROVE (devs[v]["ephemeral"] \in {None, EphOf(v)})'
    <3>1. devs'[v]["ephemeral"] = IF v = job[p].vm /\ a = "ephemeral" THEN x ELSE devs[v]["ephemeral"]
      BY <1>0, TableAfter DEF Dev
    <3>2. a = "ephemeral" => x \in EphVol
      BY <1>0 DEF Backing
    <3>. QED BY <1>2, <3>1, <3>2 DEF HandsInv, EphTable, CallVol
  <2>. QED BY <2>1 DEF EphTable
<1>8. MadeOwn'
  <2>1. ASSUME NEW q \in Proc, job'[q].src \in CallVol PROVE Holding(q)'
    <3>1. q # p /\ job'[q] = job[q] /\ pc'[q] = pc[q]
      BY <1>0, <2>1 DEF OthersRest
    <3>2. Holding(q) /\ job[q].src # x
      BY <1>0, <2>1, <3>1 DEF HandsInv, MadeOwn, Holding
    <3>3. \A r \in Proc : job'[r].trash \subseteq job[r].trash
      BY <1>0 DEF OthersRest
    <3>4. \A r \in Proc : r # q => job'[r].src # job[q].src
      BY <1>0, <2>1, <3>1, <3>2 DEF OthersRest, Holding
    <3>. QED BY <1>0, <1>3, <2>1, <3>1, <3>2, <3>3, <3>4 DEF Holding, SameVols
  <2>. QED BY <2>1 DEF MadeOwn
<1>9. TrashOwn'
  <2>1. ASSUME NEW q \in Proc, NEW y \in CallVol, y \in job'[q].trash PROVE Discarding(q, y)'
    <3>1. q # p /\ job'[q] = job[q] /\ pc'[q] = pc[q]
      BY <1>0, <2>1 DEF OthersRest
    <3>2. y # x /\ Discarding(q, y)
      BY <1>0, <1>2, <2>1, <3>1 DEF HandsInv, TrashOwn, Holding
    <3>3. \A r \in Proc : job'[r].trash \subseteq job[r].trash
      BY <1>0 DEF OthersRest
    <3>4. \A w \in VM : y \in Sources(w) => (y \in Sources(w))'
      BY <1>1
    <3>5. job[q].vm \in VM /\ job'[q].vm = job[q].vm
      BY <3>1, <3>2, DiscardVM
    <3>6. pc[q] = "delete_instance" => (y \in Sources(job[q].vm))'
      <4>. SUFFICES ASSUME pc[q] = "delete_instance" PROVE (y \in Sources(job[q].vm))'
        OBVIOUS
      <4>1. PICK w \in VM : w = job[q].vm
        BY <3>5
      <4>2. (y \in Sources(w))'
        BY <3>2, <3>4, <4>1 DEF Discarding
      <4>. QED BY <3>1, <4>1, <4>2 DEF Sources
    <3>. QED BY <1>0, <1>3, <3>1, <3>2, <3>3, <3>6 DEF Discarding, SameVols
  <2>. QED BY <2>1 DEF TrashOwn
<1>. QED BY <1>5, <1>6, <1>7, <1>8, <1>9 DEF HandsInv


LEMMA TakesKeeps ==
    ASSUME TypeOK, TypeOK', OneCallPerVM, HandsInv, NEW p \in Proc, OthersRest(p), TakesDevice(p)
    PROVE  HandsInv'
<1>0. PICK a \in Dev :
        /\ UNCHANGED host /\ SameVols /\ job[p].vm \in VM
        /\ OneDevice(job[p].vm, a, None)
        /\ HoldsSrc(p) /\ HoldsTrash(p)
  BY DEF TakesDevice
<1>1. \A w \in VM, y \in CallVol :
          /\ (w \in UsedBy(y))' => w \in UsedBy(y)
          /\ w # job[p].vm => ((w \in UsedBy(y))' <=> w \in UsedBy(y))
          /\ y \in Sources(w) <=> w \in UsedBy(y)
          /\ (y \in Sources(w))' <=> (w \in UsedBy(y))'
  BY <1>0, TakeUsers, UserOf
<1>2. \A y \in CallVol : UsedBy(y)' \subseteq UsedBy(y)
  BY <1>1, UsersAreVMs
<1>3. OnePlace'
  BY <1>0 DEF HandsInv, OnePlace, SameVols
<1>4. InUse'
  <2>1. ASSUME NEW v \in VM, NEW x \in CallVol, (x \in Sources(v))'
        PROVE  vols'[x] # {} /\ UsedBy(x)' = {v}
    <3>1. vols[x] # {} /\ UsedBy(x) = {v} /\ (v \in UsedBy(x))'
      BY <1>1, <2>1 DEF HandsInv, InUse
    <3>. QED BY <1>0, <1>2, <3>1 DEF SameVols
  <2>. QED BY <2>1 DEF InUse
<1>5. EphTable'
  <2>1. \A v \in VM : devs'[v]["ephemeral"] \in {None, devs[v]["ephemeral"]}
    BY <1>0, TableAfter DEF Dev
  <2>. QED BY <2>1 DEF HandsInv, EphTable
<1>6. \A q \in Proc : job'[q].trash \subseteq job[q].trash
  BY <1>0 DEF HoldsTrash, OthersRest
<1>7. MadeOwn'
  <2>1. \A q \in Proc : job'[q].src \in CallVol =>
            job'[q].src = job[q].src /\ job'[q].vm = job[q].vm /\ pc'[q] \in ConfigRequests
    BY <1>0 DEF HoldsSrc, OthersRest, HandsInv, MadeOwn, Holding
  <2>. QED BY <1>0, <1>2, <1>6, <2>1 DEF HandsInv, MadeOwn, Holding, SameVols
<1>8. TrashOwn'
  <2>1. ASSUME NEW q \in Proc, NEW y \in CallVol, y \in job'[q].trash PROVE Discarding(q, y)'
    <3>1. Discarding(q, y) /\ job'[q].vm = job[q].vm /\ job[q].vm \in VM
      BY <1>0, <1>6, <2>1, DiscardVM DEF HandsInv, TrashOwn, HoldsTrash, OthersRest
    <3>2. CASE q = p
      BY <1>0, <1>2, <1>6, <2>1, <3>1, <3>2
      DEF Discarding, SameVols, HoldsTrash, ConfigTrash, TrashRequests
    <3>3. CASE q # p
      <4>1. job[q].vm # job[p].vm /\ pc'[q] = pc[q]
        BY <1>0, <3>1, <3>3, ServerAssumption DEF OneCallPerVM, OthersRest
      <4>. QED BY <1>0, <1>1, <1>2, <1>6, <3>1, <4>1 DEF Discarding, SameVols
    <3>. QED BY <3>2, <3>3
  <2>. QED BY <2>1 DEF TrashOwn
<1>. QED BY <1>3, <1>4, <1>5, <1>7, <1>8 DEF HandsInv

LEMMA ClearsKeeps ==
    ASSUME TypeOK, TypeOK', OneCallPerVM, HandsInv, NEW p \in Proc, OthersRest(p), ClearsDevices(p)
    PROVE  HandsInv'
<1>. USE DEF ClearsDevices
<1>1. \A w \in VM, y \in CallVol :
          /\ (w \in UsedBy(y))' <=> w \in UsedBy(y) /\ w # job[p].vm
          /\ y \in Sources(w) <=> w \in UsedBy(y)
          /\ (y \in Sources(w))' <=> (w \in UsedBy(y))'
  BY ClearUsers, UserOf
<1>2. \A y \in CallVol : UsedBy(y)' = UsedBy(y) \ {job[p].vm}
  BY <1>1, UsersAreVMs
<1>3. OnePlace'
  BY DEF HandsInv, OnePlace, SameVols
<1>4. InUse'
  <2>1. ASSUME NEW v \in VM, NEW x \in CallVol, (x \in Sources(v))'
        PROVE  vols'[x] # {} /\ UsedBy(x)' = {v}
    <3>1. vols[x] # {} /\ UsedBy(x) = {v} /\ v # job[p].vm
      BY <1>1, <2>1 DEF HandsInv, InUse
    <3>. QED BY <1>2, <3>1 DEF SameVols
  <2>. QED BY <2>1 DEF InUse
<1>5. EphTable'
  <2>1. \A v \in VM : devs'[v]["ephemeral"] \in {None, devs[v]["ephemeral"]}
    BY DEF TypeOK, ServerTypeOK, NoDevices, Dev
  <2>. QED BY <2>1 DEF HandsInv, EphTable
<1>6. \A q \in Proc : job'[q].trash \subseteq job[q].trash /\ job'[q].vm = job[q].vm
  BY DEF OthersRest
<1>7. MadeOwn'
  <2>1. ASSUME NEW q \in Proc, job'[q].src \in CallVol PROVE Holding(q)'
    <3>1. q # p /\ job'[q] = job[q] /\ pc'[q] = pc[q] /\ Holding(q)
      BY <2>1 DEF OthersRest, HandsInv, MadeOwn
    <3>2. job[q].vm \in VM /\ job[q].vm # job[p].vm
      BY <3>1, VMAt, ServerAssumption DEF Holding, ConfigRequests, OneCallPerVM
    <3>3. host'[job[q].vm] = host[job[q].vm]
      BY <3>2 DEF TypeOK, ServerTypeOK
    <3>4. \A r \in Proc : r # q => job'[r].src # job'[q].src
      BY <2>1, <3>1 DEF OthersRest, Holding
    <3>. QED BY <1>2, <1>6, <2>1, <3>1, <3>3, <3>4 DEF Holding, SameVols
  <2>. QED BY <2>1 DEF MadeOwn
<1>8. TrashOwn'
  <2>1. ASSUME NEW q \in Proc, NEW y \in CallVol, y \in job'[q].trash PROVE Discarding(q, y)'
    <3>1. Discarding(q, y) /\ job'[q].vm = job[q].vm /\ job[q].vm \in VM
      BY <1>6, <2>1, DiscardVM DEF HandsInv, TrashOwn
    <3>2. CASE q = p
      <4>1. pc'[p] = "delete_volumes" /\ y \in Sources(job[p].vm)
        BY <2>1, <3>1, <3>2 DEF Discarding
      <4>2. vols[y] # {} /\ UsedBy(y) = {job[p].vm}
        BY <4>1 DEF HandsInv, InUse
      <4>3. UsedBy(y)' = {} /\ vols'[y] # {}
        BY <1>2, <4>2 DEF SameVols
      <4>. QED BY <1>6, <3>1, <3>2, <4>1, <4>3 DEF Discarding, TrashRequests
    <3>3. CASE q # p
      <4>1. job[q].vm # job[p].vm /\ pc'[q] = pc[q]
        BY <3>1, <3>3, ServerAssumption DEF OneCallPerVM, OthersRest
      <4>. QED BY <1>1, <1>2, <1>6, <3>1, <4>1 DEF Discarding, SameVols
    <3>. QED BY <3>2, <3>3
  <2>. QED BY <2>1 DEF TrashOwn
<1>. QED BY <1>3, <1>4, <1>5, <1>7, <1>8 DEF HandsInv

LEMMA HandsKeep ==
    ASSUME TypeOK, TypeOK', OneCallPerVM, HandsInv, NEW p \in Proc, Hands(p)
    PROVE  HandsInv'
  BY CarriesKeeps, MakesKeeps, ListsKeeps, PutsKeeps, TakesKeeps, ClearsKeeps, RemovesKeeps DEF Hands

-----------------------------------------------------------------------------
(* Every step of a call is one of them *)

\* A call has nothing in hand but at the requests about its configuration disk.
LEMMA EmptyHands ==
    ASSUME TypeOK, HandsInv, NEW p \in Proc
    PROVE  /\ pc[p] \notin ConfigRequests => job[p].src \notin CallVol
           /\ pc[p] \notin TrashRequests => job[p].trash = {}
           /\ job[p].trash \subseteq CallVol
           /\ None \notin CallVol /\ Disk \cap CallVol = {}
<1>1. job[p].trash \subseteq CallVol
  BY Here DEF Job, CallVol
<1>. QED BY <1>1, StrongDisjoint DEF HandsInv, MadeOwn, Holding, TrashOwn, Discarding, CallVol, Vol

LEMMA AbortCarries ==
    ASSUME TypeOK, HandsInv, NEW p \in Proc, Abort(p)
    PROVE  /\ OthersRest(p) /\ job'[p] = Bare(p) /\ HoldsSrc(p) /\ HoldsTrash(p)
           /\ job'[p].src \notin CallVol /\ job'[p].trash = {} /\ job'[p].vm = job[p].vm
<1>1. OthersRest(p) /\ job'[p] = Bare(p)
  BY DEF Abort, Goto, OthersRest, TypeOK
<1>2. Bare(p).src = None /\ Bare(p).trash = {} /\ Bare(p).vm = job[p].vm
  BY DEF Bare, NoJob
<1>. QED BY <1>1, <1>2, EmptyHands DEF HoldsSrc, HoldsTrash

LEMMA GotoOthers ==
    ASSUME TypeOK, NEW p \in Proc, NEW next, NEW work, Goto(p, next, work)
    PROVE  OthersRest(p) /\ pc'[p] = next /\ job'[p] = work
  BY DEF Goto, OthersRest, TypeOK

\* A request that leaves the tables and these volumes alone.
LEMMA QuietHands ==
    ASSUME TypeOK, HandsInv, NEW p \in Proc, NEW next, NEW work,
           Goto(p, next, work) \/ Abort(p),
           UNCHANGED <<devs, host>>, SameVols, work.vm = job[p].vm,
           work.src \in CallVol => work.src = job[p].src /\ next \in ConfigRequests,
           work.trash # {} => work.trash \subseteq job[p].trash /\ next \in ConfigTrash
    PROVE  Hands(p)
<1>1. CASE Abort(p)
  BY <1>1, AbortCarries DEF Hands, Carries
<1>2. CASE Goto(p, next, work)
  BY <1>2, GotoOthers DEF Hands, Carries, HoldsSrc, HoldsTrash
<1>. QED BY <1>1, <1>2

LEMMA ReadHands ==
    ASSUME TypeOK, HandsInv, NEW p \in Proc, NEW ok, NEW next, NEW work,
           Read(p, ok, next, work), work.vm = job[p].vm,
           work.src \in CallVol => work.src = job[p].src /\ next \in ConfigRequests,
           work.trash # {} => work.trash \subseteq job[p].trash /\ next \in ConfigTrash
    PROVE  Hands(p)
<1>1. (Goto(p, next, work) \/ Abort(p)) /\ UNCHANGED <<devs, host>> /\ SameVols
  BY DEF Read, Request, server, SameVols
<1>. QED BY <1>1, QuietHands

\* The requests of a call that has nothing in hand.
Plain == {"locate", "locate_vm", "start_vm", "detach_get", "read_env", "colocate", "has_vm", "stop_vm",
          "write_env", "copy_volume", "drop_source", "delete_file", "create_disk", "delete_disk"}

LEMMA PlainHands ==
    ASSUME TypeOK, HandsInv, NEW p \in Proc, pc[p] \in Plain, NEW next, NEW work,
           Goto(p, next, work) \/ Abort(p),
           UNCHANGED <<devs, host>>, SameVols, work.vm = job[p].vm,
           work.src \in {job[p].src, job[p].disk, None}, work.trash \in {job[p].trash, {}}
    PROVE  Hands(p)
<1>1. job[p].src \notin CallVol /\ job[p].trash = {}
  BY EmptyHands DEF Plain, ConfigRequests, TrashRequests, ConfigTrash
<1>2. job[p].disk \notin CallVol /\ None \notin CallVol
  BY EmptyHands, Here DEF Job
<1>. QED BY <1>1, <1>2, QuietHands

LEMMA PlainStepsHand ==
    ASSUME TypeOK, HandsInv, NEW p \in Proc,
           \/ Locate(p) \/ StartVM(p) \/ DetachGet(p) \/ WriteEnv(p) \/ ReadEnv(p) \/ Colocate(p)
           \/ CopyVolumeStep(p) \/ DropSource(p) \/ HasVM(p) \/ StopVM(p) \/ DeleteFile(p)
           \/ CreateDisk(p) \/ DeleteDisk(p)
    PROVE  Hands(p)
<1>. DEFINE j == job[p]
            Fits(work) == /\ work.vm = j.vm /\ work.src \in {j.src, j.disk, None}
                          /\ work.trash \in {j.trash, {}}
<1>0. j \in Job
  BY Here
<1>1. Fits(j) /\ Fits(Bare(p))
  BY DEF Bare, NoJob
<1>2. CASE Locate(p)
  <2>1. pc[p] \in Plain /\ Fits([j EXCEPT !.node = host[j.vm]])
    BY <1>0, <1>2 DEF Locate, Plain, Job
  <2>2. PICK next \in AfterLocate(p) : Read(p, Exists(j.vm), next, [j EXCEPT !.node = host[j.vm]])
    BY <1>2 DEF Locate
  <2>. QED BY <2>1, <2>2, PlainHands DEF Read, Request, server, SameVols
<1>3. CASE StartVM(p)
  BY <1>1, <1>3, PlainHands DEF StartVM, Plain, Request, StartInstance, server, SameVols
<1>4. CASE DetachGet(p)
  <2>1. \A d : Fits([j EXCEPT !.dev = d, !.seen = devs[j.vm]])
    BY <1>0 DEF Job
  <2>2. \/ Read(p, Exists(j.vm), "read_env", j)
        \/ \E d : Read(p, Exists(j.vm), "detach_put", [j EXCEPT !.dev = d, !.seen = devs[j.vm]])
    BY <1>4 DEF DetachGet
  <2>3. pc[p] \in Plain
    BY <1>4 DEF DetachGet, Plain
  <2>. QED BY <1>1, <2>1, <2>2, <2>3, PlainHands DEF Read, Request, server, SameVols
<1>5. CASE WriteEnv(p)
  BY <1>1, <1>5, PlainHands DEF WriteEnv, Plain, server, SameVols
<1>6. CASE ReadEnv(p)
  <2>. DEFINE e == file[j.vm]
  <2>1. /\ Fits([j EXCEPT !.dev = FreeSlot(e), !.src = j.disk, !.env = e])
        /\ Fits([j EXCEPT !.env = [e EXCEPT ![j.disk] = None]])
    BY <1>0 DEF Job
  <2>2. \E ok : \/ Read(p, ok, "colocate", [j EXCEPT !.dev = FreeSlot(e), !.src = j.disk, !.env = e])
               \/ Read(p, ok, "write_env", [j EXCEPT !.env = [e EXCEPT ![j.disk] = None]])
    BY <1>6 DEF ReadEnv
  <2>3. pc[p] \in Plain
    BY <1>6 DEF ReadEnv, Plain
  <2>. QED BY <1>1, <2>1, <2>2, <2>3, PlainHands DEF Read, Request, server, SameVols
<1>7. CASE Colocate(p)
  <2>1. \A n : Fits([j EXCEPT !.node = n, !.to = host[j.vm]])
    BY <1>0 DEF Job
  <2>2. \/ \E ok, next : Read(p, ok, next, j)
        \/ \E n : Read(p, Exists(j.vm), "copy_volume", [j EXCEPT !.node = n, !.to = host[j.vm]])
    BY <1>7 DEF Colocate
  <2>3. pc[p] \in Plain
    BY <1>7 DEF Colocate, Plain
  <2>. QED BY <1>1, <2>1, <2>2, <2>3, PlainHands DEF Read, Request, server, SameVols
<1>8. CASE CopyVolumeStep(p)
  <2>1. SameVols \/ vols' = [vols EXCEPT ![j.disk] = @ \cup {j.to}]
    BY <1>8 DEF CopyVolumeStep, Request, CopyVolume, server, SameVols
  <2>2. SameVols
    BY <1>0, <2>1, EmptyHands DEF SameVols, TypeOK, ServerTypeOK, Job, CallVol, Vol
  <2>. QED BY <1>1, <1>8, <2>2, PlainHands DEF CopyVolumeStep, Plain, Request, CopyVolume, server
<1>9. CASE DropSource(p)
  <2>1. pc[p] \in Plain /\ Fits([j EXCEPT !.node = None, !.to = None])
    BY <1>0, <1>9 DEF DropSource, Plain, Job
  <2>2. SameVols \/ vols' = [vols EXCEPT ![j.disk] = @ \ {j.node}]
    BY <1>9 DEF DropSource, Request, DropCopy, server, SameVols
  <2>3. SameVols
    BY <1>0, <2>2, EmptyHands DEF SameVols, TypeOK, ServerTypeOK, Job, CallVol, Vol
  <2>. QED BY <1>9, <2>1, <2>3, PlainHands DEF DropSource, Request, DropCopy, server
<1>10. CASE HasVM(p)
  BY <1>1, <1>10, PlainHands DEF HasVM, Plain, Read, Request, server, SameVols
<1>11. CASE StopVM(p)
  BY <1>1, <1>11, PlainHands DEF StopVM, Plain, Request, StopInstance, server, SameVols
<1>12. CASE DeleteFile(p)
  BY <1>1, <1>12, PlainHands DEF DeleteFile, Plain, server, SameVols
<1>13. CASE CreateDisk(p)
  <2>1. SameVols \/ \E new : vols' = [vols EXCEPT ![j.disk] = new]
    BY <1>13 DEF CreateDisk, Request, CreateVolume, server, SameVols
  <2>2. SameVols
    BY <1>0, <2>1, EmptyHands DEF SameVols, TypeOK, ServerTypeOK, Job, CallVol, Vol
  <2>. QED BY <1>1, <1>13, <2>2, PlainHands DEF CreateDisk, Plain, Request, CreateVolume, server
<1>14. CASE DeleteDisk(p)
  <2>1. SameVols \/ \E new : vols' = [vols EXCEPT ![j.disk] = new]
    BY <1>14 DEF DeleteDisk, Request, DeleteVolume, server, SameVols
  <2>2. SameVols
    BY <1>0, <2>1, EmptyHands DEF SameVols, TypeOK, ServerTypeOK, Job, CallVol, Vol
  <2>. QED BY <1>1, <1>14, <2>2, PlainHands DEF DeleteDisk, Plain, Request, DeleteVolume, server
<1>. QED BY <1>2, <1>3, <1>4, <1>5, <1>6, <1>7, <1>8, <1>9, <1>10, <1>11, <1>12, <1>13, <1>14

LEMMA ConfigStepsHand ==
    ASSUME TypeOK, HandsInv, NEW p \in Proc, AttachGet(p) \/ ConfigGet(p) \/ CheckStopped(p)
    PROVE  Hands(p)
<1>. DEFINE j == job[p]
            read == [j EXCEPT !.seen = devs[j.vm]]
            kept == [j EXCEPT !.trash = {}]
<1>1. /\ read.vm = j.vm /\ read.src = j.src /\ read.trash = j.trash
      /\ kept.vm = j.vm /\ kept.src = j.src /\ kept.trash = {}
  BY Here DEF Job
<1>. HIDE DEF read, kept
<1>2. UNCHANGED <<devs, host>> /\ SameVols
  BY DEF AttachGet, ConfigGet, CheckStopped, Read, Request, server, SameVols
<1>3. CASE AttachGet(p)
  <2>1. j.trash = {} /\ (Goto(p, "attach_put", read) \/ Abort(p))
    BY <1>3, EmptyHands DEF AttachGet, Read, Request, TrashRequests, ConfigTrash, read
  <2>. QED BY <1>1, <1>2, <2>1, QuietHands DEF ConfigRequests
<1>4. CASE ConfigGet(p)
  <2>1. Goto(p, "detach_put", read) \/ Goto(p, "check_stopped", j) \/ Abort(p)
    BY <1>4 DEF ConfigGet, Read, Request, read
  <2>. QED BY <1>1, <1>2, <2>1, QuietHands DEF ConfigRequests, ConfigTrash
<1>5. CASE CheckStopped(p)
  <2>1. Goto(p, "attach_get", kept) \/ Goto(p, "delete_config", j) \/ Abort(p)
    BY <1>5 DEF CheckStopped, Read, Request, kept
  <2>. QED BY <1>1, <1>2, <2>1, QuietHands DEF ConfigRequests, ConfigTrash
<1>. QED BY <1>3, <1>4, <1>5

LEMMA CreateInstanceHands ==
    ASSUME TypeOK, HandsInv, NEW p \in Proc, CreateInstanceStep(p)
    PROVE  Hands(p)
<1>. DEFINE j == job[p]
<1>1. j.vm \in VM /\ j.src \notin CallVol /\ j.trash = {}
  BY VMAt, EmptyHands DEF CreateInstanceStep, ConfigRequests, TrashRequests, ConfigTrash
<1>2. PICK n \in Node : Request(p, ~Exists(j.vm), CreateInstance(j.vm, n), "locate", j)
  BY DEF CreateInstanceStep
<1>3. /\ UNCHANGED devs /\ SameVols
      /\ UNCHANGED host \/ host' = [host EXCEPT ![j.vm] = n]
      /\ Goto(p, "locate", j) \/ Abort(p)
  BY <1>2 DEF Request, CreateInstance, server, SameVols
<1>4. OthersRest(p) /\ HoldsSrc(p) /\ HoldsTrash(p) /\ job'[p].src \notin CallVol
  BY <1>1, <1>3, GotoOthers, AbortCarries DEF HoldsSrc, HoldsTrash
<1>. QED BY <1>1, <1>3, <1>4 DEF Hands, Carries

LEMMA CreateEphemeralHands ==
    ASSUME TypeOK, OneCallPerVM, HandsInv, NEW p \in Proc, CreateEphemeral(p)
    PROVE  Hands(p)
<1>. DEFINE j == job[p]
            x == EphOf(j.vm)
            work == [j EXCEPT !.node = None, !.dev = "ephemeral", !.src = x]
<1>0. pc[p] = "create_ephemeral" /\ Request(p, vols[x] = {}, CreateVolume(x, j.node), "attach_get", work)
  BY DEF CreateEphemeral
<1>1. j.vm \in VM /\ j.node \in Node /\ x \in EphVol
  BY <1>0, VMAt, Here DEF JobOK, Job, EphVol
<1>2. j.src \notin CallVol /\ j.trash = {} /\ x \in CallVol /\ x \notin ConfVol
  BY <1>0, <1>1, EmptyHands, StrongDisjoint DEF ConfigRequests, TrashRequests, ConfigTrash, CallVol
<1>3. work.vm = j.vm /\ work.src = x /\ work.trash = j.trash
  BY Here DEF Job
<1>4. ASSUME NEW q \in Proc PROVE job[q].src # x /\ x \notin job[q].trash
  <2>1. \A w : EphOf(w) = x => w = j.vm
    BY DEF EphOf
  <2>2. job[q].vm = j.vm => q = p
    BY <1>1, ServerAssumption DEF OneCallPerVM
  <2>. QED BY <1>1, <1>2, <2>1, <2>2 DEF HandsInv, MadeOwn, Holding, TrashOwn, Discarding
<1>. HIDE DEF work
<1>5. CASE UNCHANGED server /\ Abort(p)
  BY <1>5, AbortCarries DEF Hands, Carries, server, SameVols
<1>6. CASE vols[x] = {} /\ CreateVolume(x, j.node) /\ (Goto(p, "attach_get", work) \/ Abort(p))
  <2>1. OthersRest(p) /\ job'[p].vm = j.vm /\ job'[p].trash = {}
    BY <1>2, <1>3, <1>6, GotoOthers, AbortCarries
  <2>2. job'[p].src \in CallVol => job'[p].src = x /\ pc'[p] \in ConfigRequests
    BY <1>3, <1>6, GotoOthers, AbortCarries DEF ConfigRequests
  <2>3. MakesVolume(p)
    BY <1>1, <1>2, <1>4, <1>6, <2>1, <2>2 DEF MakesVolume, CreateVolume
  <2>. QED BY <2>1, <2>3 DEF Hands
<1>. QED BY <1>0, <1>5, <1>6 DEF Request

\* What CreateISO is told is where the instance is.
NodeIsHost == \A p \in Proc : pc[p] = "create_config" => job[p].node = host[job[p].vm]

LEMMA CreateConfigHands ==
    ASSUME TypeOK, NodeIsHost, HandsInv, NEW p \in Proc, CreateConfig(p)
    PROVE  Hands(p)
<1>. DEFINE j == job[p]
<1>1. PICK c \in ConfVol :
          /\ Fresh(c)
          /\ Request(p, TRUE, CreateISO(c, j.node, j.env), "find_config",
                     [Bare(p) EXCEPT !.dev = "config", !.src = c])
  BY DEF CreateConfig
<1>. DEFINE work == [Bare(p) EXCEPT !.dev = "config", !.src = c]
<1>2. /\ pc[p] = "create_config" /\ j.node = host[j.vm] /\ j.node \in Node
      /\ c \in CallVol /\ c \notin EphVol
  BY Here, StrongDisjoint DEF CreateConfig, NodeIsHost, JobOK, Job, CallVol
<1>3. work.vm = j.vm /\ work.src = c /\ work.trash = {}
  BY DEF Bare, NoJob
<1>. HIDE DEF work
<1>4. CASE UNCHANGED server /\ Abort(p)
  BY <1>4, AbortCarries DEF Hands, Carries, server, SameVols
<1>5. CASE CreateISO(c, j.node, j.env) /\ (Goto(p, "find_config", work) \/ Abort(p))
  <2>1. OthersRest(p) /\ job'[p].vm = j.vm /\ job'[p].trash = {}
    BY <1>3, <1>5, GotoOthers, AbortCarries
  <2>2. job'[p].src \in CallVol => job'[p].src = c /\ pc'[p] \in ConfigRequests
    BY <1>3, <1>5, GotoOthers, AbortCarries DEF ConfigRequests
  <2>3. MakesVolume(p)
    BY <1>1, <1>2, <1>5, <2>1, <2>2 DEF MakesVolume, CreateISO, Fresh
  <2>. QED BY <2>1, <2>3 DEF Hands
<1>. QED BY <1>1, <1>4, <1>5 DEF Request, work

LEMMA FindConfigHands ==
    ASSUME TypeOK, HandsInv, NEW p \in Proc, FindConfig(p)
    PROVE  Hands(p)
<1>. DEFINE j == job[p]
            old == devs[j.vm]["config"]
            next == IF old = None THEN "attach_get" ELSE "config_get"
            work == [j EXCEPT !.trash = {old} \ {None}]
<1>1. j.vm \in VM /\ Read(p, Exists(j.vm), next, work)
  BY VMAt DEF FindConfig
<1>2. /\ work.vm = j.vm /\ work.src = j.src /\ work.trash = {old} \ {None}
      /\ work.trash \subseteq Sources(j.vm)
      /\ next \in ConfigRequests /\ (work.trash # {} => next = "config_get")
  BY Here DEF Job, Sources, Dev, ConfigRequests
<1>. HIDE DEF work, next
<1>3. (Goto(p, next, work) \/ Abort(p)) /\ UNCHANGED <<devs, host>> /\ SameVols
  BY <1>1 DEF Read, Request, server, SameVols
<1>4. CASE Abort(p)
  BY <1>3, <1>4, AbortCarries DEF Hands, Carries
<1>5. CASE Goto(p, next, work)
  BY <1>1, <1>2, <1>3, <1>5, GotoOthers DEF Hands, ListsVolumes, HoldsSrc
<1>. QED BY <1>3, <1>4, <1>5

LEMMA ListDisksHands ==
    ASSUME TypeOK, HandsInv, NEW p \in Proc, ListDisks(p)
    PROVE  Hands(p)
<1>. DEFINE j == job[p]
            work == [j EXCEPT !.trash = {devs[j.vm]["config"], devs[j.vm]["ephemeral"]} \ {None}]
<1>1. j.vm \in VM /\ Read(p, Exists(j.vm), "delete_instance", work) /\ j.src \notin CallVol
  BY VMAt, EmptyHands DEF ListDisks, ConfigRequests
<1>2. work.vm = j.vm /\ work.src = j.src /\ work.trash \subseteq Sources(j.vm)
  BY Here DEF Job, Sources, Dev
<1>. HIDE DEF work
<1>3. (Goto(p, "delete_instance", work) \/ Abort(p)) /\ UNCHANGED <<devs, host>> /\ SameVols
  BY <1>1 DEF Read, Request, server, SameVols
<1>4. CASE Abort(p)
  BY <1>3, <1>4, AbortCarries DEF Hands, Carries
<1>5. CASE Goto(p, "delete_instance", work)
  BY <1>1, <1>2, <1>3, <1>5, GotoOthers DEF Hands, ListsVolumes, HoldsSrc
<1>. QED BY <1>3, <1>4, <1>5

\* The etag: the device is added to the table that was read, where its name is free.
LEMMA AttachPutHands ==
    ASSUME TypeOK, NameFree, HandsInv, NEW p \in Proc, AttachPut(p)
    PROVE  Hands(p)
<1>. DEFINE j == job[p]
            v == job[p].vm
            table == [j.seen EXCEPT ![j.dev] = j.src]
            next == AfterAttach(p)
            work == IF j.dev = "config" THEN Bare(p) ELSE [Bare(p) EXCEPT !.env = WithAttached(j)]
<1>1. /\ pc[p] = "attach_put" /\ v \in VM /\ j.trash = {}
      /\ j.seen[j.dev] = None /\ j.src # None /\ j.src \in Vol /\ j.dev \in Dev
      /\ j.src \in Backing(j.dev)
  <2>1. pc[p] = "attach_put" /\ j \in Job /\ JobOK(pc[p], j)
    BY Here DEF AttachPut
  <2>. QED BY <2>1, VMAt, EmptyHands DEF NameFree, JobOK, Job, TrashRequests, ConfigTrash
<1>2. Request(p, devs[v] = j.seen /\ CanPutDevices(v, table), PutDevices(v, table), next, work)
  BY DEF AttachPut
<1>3. work.vm = v /\ work.src = None /\ work.trash = {}
  BY DEF Bare, NoJob
<1>. HIDE DEF work, next
<1>4. CASE UNCHANGED server /\ Abort(p)
  BY <1>4, AbortCarries DEF Hands, Carries, server, SameVols
<1>5. CASE /\ devs[v] = j.seen /\ CanPutDevices(v, table) /\ PutDevices(v, table)
           /\ Goto(p, next, work) \/ Abort(p)
  <2>1. OthersRest(p) /\ job'[p].src \notin CallVol /\ job'[p].trash = {}
    BY <1>3, <1>5, GotoOthers, AbortCarries, EmptyHands
  <2>2. UNCHANGED host /\ SameVols /\ OneDevice(v, j.dev, j.src) /\ devs[v][j.dev] = None
    BY <1>1, <1>5 DEF PutDevices, SameVols, OneDevice
  <2>3. table[j.dev] = j.src
    BY <1>1, <1>5, DevsType DEF DevTable
  <2>4. vols[j.src] # {}
    BY <1>1, <1>5, <2>2, <2>3 DEF CanPutDevices
  <2>. QED BY <1>1, <2>1, <2>2, <2>4 DEF Hands, PutsDevice
<1>. QED BY <1>2, <1>4, <1>5 DEF Request

LEMMA DetachPutHands ==
    ASSUME TypeOK, TableRead, HandsInv, NEW p \in Proc, DetachPut(p)
    PROVE  Hands(p)
<1>. DEFINE j == job[p]
            v == job[p].vm
            table == [j.seen EXCEPT ![j.dev] = None]
            next == IF j.dev = "config" THEN "check_stopped" ELSE "read_env"
            work == IF j.dev = "config" THEN [j EXCEPT !.seen = None] ELSE Bare(p)
<1>1. /\ pc[p] = "detach_put" /\ j \in Job /\ v \in VM /\ j.dev \in Dev /\ j.seen = devs[v]
  BY Here, VMAt DEF DetachPut, TableRead, Found, JobOK, Dev, PersistentDev
<1>2. Request(p, CanPutDevices(v, table), PutDevices(v, table), next, work)
  BY DEF DetachPut
<1>3. /\ work.vm = v /\ work.src \in {None, j.src} /\ work.trash \subseteq j.trash
      /\ work.src \in CallVol \/ work.trash # {} => work.src = j.src /\ next = "check_stopped"
  BY <1>1, EmptyHands DEF Bare, NoJob, Job
<1>. HIDE DEF work, next
<1>4. CASE UNCHANGED server /\ Abort(p)
  BY <1>4, AbortCarries DEF Hands, Carries, server, SameVols
<1>5. CASE PutDevices(v, table) /\ (Goto(p, next, work) \/ Abort(p))
  <2>1. OthersRest(p) /\ HoldsSrc(p) /\ HoldsTrash(p)
    BY <1>3, <1>5, GotoOthers, AbortCarries DEF HoldsSrc, HoldsTrash, ConfigRequests, ConfigTrash
  <2>2. UNCHANGED host /\ SameVols /\ OneDevice(v, j.dev, None)
    BY <1>1, <1>5 DEF PutDevices, SameVols, OneDevice
  <2>. QED BY <1>1, <2>1, <2>2 DEF Hands, TakesDevice
<1>. QED BY <1>2, <1>4, <1>5 DEF Request

LEMMA DeleteInstanceHands ==
    ASSUME TypeOK, HandsInv, NEW p \in Proc, DeleteInstanceStep(p)
    PROVE  Hands(p)
<1>. DEFINE j == job[p]
            next == IF j.trash = {} THEN "delete_file" ELSE "delete_volumes"
<1>1. pc[p] = "delete_instance" /\ j.vm \in VM /\ j.src \notin CallVol
  BY VMAt, EmptyHands DEF DeleteInstanceStep, ConfigRequests
<1>2. Request(p, CanDeleteInstance(j.vm), DeleteInstance(j.vm), next, j)
  BY DEF DeleteInstanceStep
<1>3. CASE UNCHANGED server /\ Abort(p)
  BY <1>3, AbortCarries DEF Hands, Carries, server, SameVols
<1>4. CASE DeleteInstance(j.vm) /\ (Goto(p, next, j) \/ Abort(p))
  <2>1. /\ OthersRest(p) /\ job'[p].vm = j.vm /\ job'[p].src \notin CallVol
        /\ job'[p].trash \subseteq j.trash /\ (job'[p].trash # {} => pc'[p] = "delete_volumes")
    BY <1>1, <1>4, GotoOthers, AbortCarries
  <2>. QED BY <1>1, <1>4, <2>1 DEF Hands, ClearsDevices, DeleteInstance, SameVols
<1>. QED BY <1>2, <1>3, <1>4 DEF Request

LEMMA DeleteConfigHands ==
    ASSUME TypeOK, HandsInv, NEW p \in Proc, DeleteConfig(p)
    PROVE  Hands(p)
<1>. DEFINE j == job[p]
            work == [j EXCEPT !.trash = {}]
<1>1. PICK c \in j.trash : Request(p, CanDeleteVolume(c), DeleteVolume(c), "attach_get", work)
  BY DEF DeleteConfig
<1>2. work.vm = j.vm /\ work.src = j.src /\ work.trash = {} /\ c \in CallVol
  BY Here, EmptyHands DEF Job
<1>. HIDE DEF work
<1>3. CASE UNCHANGED server /\ Abort(p)
  BY <1>3, AbortCarries DEF Hands, Carries, server, SameVols
<1>4. CASE CanDeleteVolume(c) /\ DeleteVolume(c) /\ (Goto(p, "attach_get", work) \/ Abort(p))
  <2>1. OthersRest(p) /\ HoldsSrc(p) /\ job'[p].trash = {} /\ job'[p].vm = j.vm
    BY <1>2, <1>4, GotoOthers, AbortCarries DEF HoldsSrc, ConfigRequests
  <2>. QED BY <1>2, <1>4, <2>1 DEF Hands, RemovesVolume, CanDeleteVolume, DeleteVolume
<1>. QED BY <1>1, <1>3, <1>4 DEF Request

LEMMA DeleteVolumesHands ==
    ASSUME TypeOK, HandsInv, NEW p \in Proc, DeleteVolumes(p)
    PROVE  Hands(p)
<1>. DEFINE j == job[p]
<1>1. PICK x \in j.trash :
          Request(p, CanDeleteVolume(x), DeleteVolume(x),
                  IF j.trash = {x} THEN "delete_file" ELSE "delete_volumes",
                  [j EXCEPT !.trash = @ \ {x}])
  BY DEF DeleteVolumes
<1>. DEFINE next == IF j.trash = {x} THEN "delete_file" ELSE "delete_volumes"
            work == [j EXCEPT !.trash = @ \ {x}]
<1>2. /\ work.vm = j.vm /\ work.src = j.src /\ work.trash = j.trash \ {x} /\ x \in CallVol
      /\ work.trash # {} => next = "delete_volumes"
      /\ pc[p] = "delete_volumes" /\ j.src \notin CallVol
  BY Here, EmptyHands DEF Job, DeleteVolumes, ConfigRequests
<1>3. Request(p, CanDeleteVolume(x), DeleteVolume(x), next, work)
  BY <1>1
<1>. HIDE DEF work, next
<1>4. CASE UNCHANGED server /\ Abort(p)
  BY <1>4, AbortCarries DEF Hands, Carries, server, SameVols
<1>5. CASE CanDeleteVolume(x) /\ DeleteVolume(x) /\ (Goto(p, next, work) \/ Abort(p))
  <2>1. /\ OthersRest(p) /\ HoldsSrc(p) /\ job'[p].vm = j.vm
        /\ job'[p].trash \subseteq j.trash \ {x}
        /\ job'[p].trash # {} => pc[p] = "delete_volumes" /\ pc'[p] = "delete_volumes"
    BY <1>2, <1>5, GotoOthers, AbortCarries DEF HoldsSrc
  <2>. QED BY <1>2, <1>5, <2>1 DEF Hands, RemovesVolume, CanDeleteVolume, DeleteVolume
<1>. QED BY <1>3, <1>4, <1>5 DEF Request

LEMMA StepHands ==
    ASSUME TypeOK, NameFree, OneCallPerVM, TableRead, NodeIsHost, HandsInv,
           NEW p \in Proc, Step(p), ~Reply(p)
    PROVE  Hands(p)
  BY PlainStepsHand, ConfigStepsHand, CreateInstanceHands, CreateEphemeralHands, CreateConfigHands,
     FindConfigHands, ListDisksHands, AttachPutHands, DetachPutHands, DeleteInstanceHands,
     DeleteConfigHands, DeleteVolumesHands
  DEF Step

-----------------------------------------------------------------------------
(* What a step leaves of the other VMs, and of the failures so far *)

LEMMA HandsLocal ==
    ASSUME TypeOK, NEW p \in Proc, Hands(p), NEW v \in VM, v # job[p].vm
    PROVE  host'[v] = host[v] /\ devs'[v] = devs[v]
<1>1. CASE Carries(p) \/ MakesVolume(p) \/ ListsVolumes(p) \/ RemovesVolume(p) \/ ClearsDevices(p)
  BY <1>1 DEF Carries, MakesVolume, ListsVolumes, RemovesVolume, ClearsDevices, TypeOK, ServerTypeOK
<1>2. CASE PutsDevice(p) \/ TakesDevice(p)
  BY <1>2 DEF PutsDevice, TakesDevice, OneDevice, TypeOK, ServerTypeOK
<1>. QED BY <1>1, <1>2 DEF Hands

LEMMA StepIs ==
    ASSUME NEW p \in Proc, Step(p)
    PROVE  /\ pc[p] = "create_instance" => CreateInstanceStep(p)
           /\ pc[p] \in {"locate", "locate_vm"} => Locate(p)
           /\ pc[p] = "create_ephemeral" => CreateEphemeral(p)
           /\ pc[p] = "start_vm" => StartVM(p)
           /\ pc[p] = "attach_get" => AttachGet(p)
           /\ pc[p] = "attach_put" => AttachPut(p)
           /\ pc[p] = "detach_put" => DetachPut(p)
           /\ pc[p] = "write_env" => WriteEnv(p)
           /\ pc[p] = "create_config" => CreateConfig(p)
           /\ pc[p] = "find_config" => FindConfig(p)
           /\ pc[p] = "has_vm" => HasVM(p)
           /\ pc[p] = "stop_vm" => StopVM(p)
           /\ pc[p] = "list_disks" => ListDisks(p)
           /\ pc[p] = "delete_instance" => DeleteInstanceStep(p)
           /\ pc[p] = "delete_volumes" => DeleteVolumes(p)
           /\ pc[p] = "delete_file" => DeleteFile(p)
           /\ pc[p] \in {"ok", "failed"} => Reply(p)
           /\ pc[p] # "idle"
  BY DEF Step, CreateInstanceStep, Locate, CreateEphemeral, StartVM, AttachGet, AttachPut,
         ConfigGet, DetachGet, DetachPut, WriteEnv, CreateConfig, FindConfig, CheckStopped,
         DeleteConfig, ReadEnv, Colocate, CopyVolumeStep, DropSource, HasVM, StopVM, ListDisks,
         DeleteInstanceStep, DeleteVolumes, DeleteFile, CreateDisk, DeleteDisk, Reply

LEMMA StepRuns ==
    ASSUME TypeOK, NEW p \in Proc, Step(p)
    PROVE  /\ \/ UNCHANGED running
              \/ running' = running \cup {job[p].vm} \/ running' = running \ {job[p].vm}
           /\ UNCHANGED faults \/ Fault
           /\ UNCHANGED todo
<1>1. CASE CreateInstanceStep(p) \/ CreateEphemeral(p) \/ StartVM(p) \/ AttachPut(p) \/ DetachPut(p)
           \/ CreateConfig(p) \/ DeleteConfig(p) \/ CopyVolumeStep(p) \/ DropSource(p) \/ StopVM(p)
           \/ DeleteInstanceStep(p) \/ DeleteVolumes(p) \/ CreateDisk(p) \/ DeleteDisk(p)
  BY <1>1 DEF CreateInstanceStep, CreateEphemeral, StartVM, AttachPut, DetachPut, CreateConfig,
     DeleteConfig, CopyVolumeStep, DropSource, StopVM, DeleteInstanceStep, DeleteVolumes, CreateDisk,
     DeleteDisk, Request, server, CreateInstance, CreateVolume, StartInstance, PutDevices, CreateISO,
     DeleteVolume, CopyVolume, DropCopy, StopInstance, DeleteInstance
<1>2. CASE Locate(p) \/ AttachGet(p) \/ ConfigGet(p) \/ DetachGet(p) \/ FindConfig(p) \/ CheckStopped(p)
           \/ ReadEnv(p) \/ Colocate(p) \/ HasVM(p) \/ ListDisks(p)
  BY <1>2 DEF Locate, AttachGet, ConfigGet, DetachGet, FindConfig, CheckStopped, ReadEnv, Colocate,
     HasVM, ListDisks, Read, Request, server
<1>3. CASE WriteEnv(p) \/ DeleteFile(p) \/ Reply(p)
  BY <1>3 DEF WriteEnv, DeleteFile, Reply, server
<1>. QED BY <1>1, <1>2, <1>3 DEF Step

\* The faults so far are never fewer.
LEMMA FaultsGrow == TypeOK /\ (UNCHANGED faults \/ Fault) => faults' \in Nat /\ faults' >= faults
  BY DEF TypeOK, Fault

-----------------------------------------------------------------------------
(* The requests of create_vm: only a fault makes one fail *)

ForwardRequests == {"locate", "create_ephemeral", "attach_get", "attach_put", "write_env", "locate_vm",
                    "create_config", "find_config", "start_vm"}

\* There is a VM, without a configuration disk until the last but one request.
Building(p) ==
    /\ pc[p] \in ForwardRequests
    /\ Exists(job[p].vm)
    /\ pc[p] # "start_vm" => devs[job[p].vm]["config"] = None
    /\ pc[p] = "attach_put" => job[p].seen = devs[job[p].vm]

\* A request has failed, and the rollback has come this far.
Undoing(p) ==
    /\ pc[p] \in DeleteRequests /\ faults >= 1
    /\ pc[p] \in {"stop_vm", "list_disks", "delete_instance"} => Exists(job[p].vm)
    /\ pc[p] \in {"list_disks", "delete_instance"} => job[p].vm \notin running
    /\ pc[p] \in {"delete_volumes", "delete_file"} => ~Exists(job[p].vm)

Creates(p) == pc[p] \in {"create_instance", "ok", "failed"} \/ Building(p) \/ Undoing(p)
CreateInv == \A p \in Proc : job[p].op = "create_vm" => Creates(p)

\* How a call of create_vm may fail.
FailsWell(p) ==
    pc'[p] = "failed" =>
        \/ pc[p] \in {"create_instance", "create_ephemeral"} \/ job[p].dev = "ephemeral"
        \/ faults' >= 2
        \/ host'[job[p].vm] = None /\ file'[job[p].vm] = Absent

Goes(p) == Creates(p)' /\ FailsWell(p)

\* A request on the way forward fails by a fault, and that is rolled back.
LEMMA FaultUndoes ==
    ASSUME TypeOK, NEW p \in Proc, job[p].op = "create_vm", Building(p), SourceIsOwn,
           Abort(p), Fault
    PROVE  Goes(p)
<1>1. faults' >= 1
  BY DEF Fault, TypeOK
<1>2. CASE RollsBack(p)
  <2>1. pc'[p] = "has_vm"
    BY <1>2, GotoOthers DEF Abort
  <2>. QED BY <1>1, <2>1 DEF Goes, Creates, Undoing, DeleteRequests, FailsWell
<1>3. CASE ~RollsBack(p)
  <2>1. pc'[p] = "failed"
    BY <1>3, GotoOthers DEF Abort
  <2>2. pc[p] = "create_ephemeral" \/ (pc[p] \in {"attach_get", "attach_put"} /\ job[p].dev # "config")
    BY <1>3 DEF RollsBack, Building, ForwardRequests
  <2>3. pc[p] = "create_ephemeral" \/ job[p].dev = "ephemeral"
    <3>1. SUFFICES ASSUME pc[p] \in {"attach_get", "attach_put"}, job[p].dev # "config"
                   PROVE  job[p].dev = "ephemeral"
      BY <2>2
    <3>2. job[p].src \in Backing(job[p].dev) /\ job[p].dev \in Dev
      BY <3>1, Here DEF JobOK, Job
    <3>3. job[p].src \notin Disk
      BY DEF SourceIsOwn
    <3>. QED BY <3>1, <3>2, <3>3 DEF Backing, Dev
  <2>. QED BY <2>1, <2>3 DEF Goes, Creates, FailsWell
<1>. QED BY <1>2, <1>3

\* A request of the rollback that fails is a second fault.
LEMMA FaultTwice ==
    ASSUME TypeOK, NEW p \in Proc, job[p].op = "create_vm", Undoing(p), Abort(p), Fault
    PROVE  Goes(p)
<1>1. faults' >= 2
  BY DEF Fault, TypeOK, Undoing
<1>2. pc'[p] = "failed"
  BY GotoOthers DEF Abort, RollsBack, Undoing, DeleteRequests
<1>. QED BY <1>1, <1>2 DEF Goes, Creates, FailsWell

\* With the answer that is expected, or after a fault.
LEMMA GoesForward ==
    ASSUME TypeOK, SourceIsOwn, NEW p \in Proc, job[p].op = "create_vm", Building(p),
           NEW next, NEW work, Goto(p, next, work), work.vm = job[p].vm,
           next = "ok" \/ (/\ next \in ForwardRequests /\ host'[job[p].vm] # None
                           /\ next # "start_vm" => devs'[job[p].vm]["config"] = None
                           /\ next = "attach_put" => work.seen = devs'[job[p].vm])
    PROVE  Goes(p)
<1>1. pc'[p] = next /\ job'[p] = work
  BY GotoOthers
<1>. QED BY <1>1 DEF Goes, Creates, Building, FailsWell, Exists, ForwardRequests

LEMMA GoesBack ==
    ASSUME TypeOK, NEW p \in Proc, job[p].op = "create_vm", Undoing(p),
           NEW next, NEW work, Goto(p, next, work), work.vm = job[p].vm,
           UNCHANGED faults, next \in DeleteRequests,
           next \in {"stop_vm", "list_disks", "delete_instance"} => host'[job[p].vm] # None,
           next \in {"list_disks", "delete_instance"} => job[p].vm \notin running',
           next \in {"delete_volumes", "delete_file"} => host'[job[p].vm] = None
    PROVE  Goes(p)
<1>1. pc'[p] = next /\ job'[p] = work
  BY GotoOthers
<1>. QED BY <1>1 DEF Goes, Creates, Undoing, FailsWell, Exists, DeleteRequests

LEMMA BuildSteps ==
    ASSUME TypeOK, SourceIsOwn, NEW p \in Proc, job[p].op = "create_vm", Building(p), Step(p),
           pc[p] # "attach_put"
    PROVE  Goes(p)
<1>. DEFINE j == job[p]
<1>0. j.vm \in VM /\ j \in Job /\ pc[p] \in ForwardRequests
      /\ Exists(j.vm) /\ (pc[p] # "start_vm" => devs[j.vm]["config"] = None)
  BY Here, VMAt DEF Building, ForwardRequests
<1>1. CASE pc[p] \in {"locate", "locate_vm"}
  <2>. DEFINE work == [j EXCEPT !.node = host[j.vm]]
  <2>1. PICK next \in AfterLocate(p) : Read(p, Exists(j.vm), next, work)
    BY <1>1, StepIs DEF Locate
  <2>2. next \in {"create_ephemeral", "write_env", "create_config"} /\ work.vm = j.vm
    BY <1>0, <1>1 DEF AfterLocate, Job
  <2>. HIDE DEF work
  <2>3. CASE Abort(p) /\ Fault
    BY <2>3, FaultUndoes
  <2>4. CASE Goto(p, next, work) /\ UNCHANGED server
    BY <1>0, <1>1, <2>2, <2>4, GoesForward DEF server, Exists, ForwardRequests
  <2>. QED BY <1>0, <2>1, <2>3, <2>4 DEF Read, Request
<1>2. CASE pc[p] = "create_ephemeral"
  <2>. DEFINE x == EphOf(j.vm)
              work == [j EXCEPT !.node = None, !.dev = "ephemeral", !.src = x]
  <2>1. Request(p, vols[x] = {}, CreateVolume(x, j.node), "attach_get", work)
    BY <1>2, StepIs DEF CreateEphemeral
  <2>2. work.vm = j.vm
    BY <1>0 DEF Job
  <2>. HIDE DEF work
  <2>3. CASE Abort(p)
    <3>1. pc'[p] = "failed"
      BY <1>2, <2>3, GotoOthers DEF Abort, RollsBack
    <3>. QED BY <1>2, <3>1 DEF Goes, Creates, FailsWell
  <2>4. CASE Goto(p, "attach_get", work) /\ CreateVolume(x, j.node)
    BY <1>0, <1>2, <2>2, <2>4, GoesForward DEF CreateVolume, Exists, ForwardRequests
  <2>. QED BY <2>1, <2>3, <2>4 DEF Request
<1>3. CASE pc[p] = "attach_get"
  <2>. DEFINE work == [j EXCEPT !.seen = devs[j.vm]]
  <2>1. Read(p, Exists(j.vm) /\ devs[j.vm][j.dev] = None, "attach_put", work)
    BY <1>3, StepIs DEF AttachGet
  <2>2. work.vm = j.vm /\ work.seen = devs[j.vm]
    BY <1>0 DEF Job
  <2>. HIDE DEF work
  <2>3. CASE Abort(p) /\ Fault
    BY <2>3, FaultUndoes
  <2>4. CASE Goto(p, "attach_put", work) /\ UNCHANGED server
    BY <1>0, <1>3, <2>2, <2>4, GoesForward DEF server, Exists, ForwardRequests
  <2>5. CASE j.dev = "ephemeral" /\ Abort(p)
    <3>1. pc'[p] = "failed"
      BY <1>3, <2>5, GotoOthers DEF Abort, RollsBack
    <3>. QED BY <2>5, <3>1 DEF Goes, Creates, FailsWell
  <2>6. j.dev \in {"config", "ephemeral"}
    BY <1>0, <1>3, Here DEF JobOK, Job, Backing, Dev, SourceIsOwn
  <2>. QED BY <1>0, <1>3, <2>1, <2>3, <2>4, <2>5, <2>6 DEF Read, Request
<1>4. CASE pc[p] = "write_env"
  <2>1. (Goto(p, "locate_vm", j) /\ UNCHANGED server) \/ (Abort(p) /\ Fault)
    BY <1>4, StepIs DEF WriteEnv
  <2>. QED BY <1>0, <1>4, <2>1, FaultUndoes, GoesForward DEF server, Exists, ForwardRequests
<1>5. CASE pc[p] = "create_config"
  <2>1. PICK c \in ConfVol : Request(p, TRUE, CreateISO(c, j.node, j.env), "find_config",
                                     [Bare(p) EXCEPT !.dev = "config", !.src = c])
    BY <1>5, StepIs DEF CreateConfig
  <2>. DEFINE work == [Bare(p) EXCEPT !.dev = "config", !.src = c]
  <2>2. work.vm = j.vm
    BY DEF Bare, NoJob
  <2>3. \/ Abort(p) /\ Fault
        \/ Goto(p, "find_config", work) /\ CreateISO(c, j.node, j.env)
    BY <2>1 DEF Request
  <2>. HIDE DEF work
  <2>. QED BY <1>0, <1>5, <2>2, <2>3, FaultUndoes, GoesForward DEF CreateISO, Exists, ForwardRequests
<1>6. CASE pc[p] = "find_config"
  <2>. DEFINE work == [j EXCEPT !.trash = {devs[j.vm]["config"]} \ {None}]
  <2>1. Read(p, Exists(j.vm), "attach_get", work)
    BY <1>0, <1>6, StepIs DEF FindConfig
  <2>2. work.vm = j.vm
    BY <1>0 DEF Job
  <2>3. (Goto(p, "attach_get", work) /\ UNCHANGED server) \/ (Abort(p) /\ Fault)
    BY <1>0, <2>1 DEF Read, Request
  <2>. HIDE DEF work
  <2>. QED BY <1>0, <1>6, <2>2, <2>3, FaultUndoes, GoesForward DEF server, Exists, ForwardRequests
<1>7. CASE pc[p] = "start_vm"
  <2>1. Goto(p, "ok", Bare(p)) \/ (Abort(p) /\ Fault)
    BY <1>0, <1>7, StepIs DEF StartVM, Request
  <2>2. Bare(p).vm = j.vm
    BY DEF Bare, NoJob
  <2>. QED BY <2>1, <2>2, FaultUndoes, GoesForward
<1>. QED BY <1>0, <1>1, <1>2, <1>3, <1>4, <1>5, <1>6, <1>7 DEF ForwardRequests

\* AttachDevice is not refused: the volume is where the instance is, and nobody else's.
LEMMA InsertSteps ==
    ASSUME TypeOK, SourceIsOwn, NameFree, HandsInv, NEW p \in Proc, job[p].op = "create_vm",
           Building(p), Step(p), pc[p] = "attach_put"
    PROVE  Goes(p)
<1>. DEFINE j == job[p]
            v == job[p].vm
            table == [j.seen EXCEPT ![j.dev] = j.src]
            next == AfterAttach(p)
            work == IF j.dev = "config" THEN Bare(p) ELSE [Bare(p) EXCEPT !.env = WithAttached(j)]
<1>1. /\ j \in Job /\ v \in VM /\ Exists(v) /\ devs[v]["config"] = None /\ j.seen = devs[v]
      /\ j.dev \in {"config", "ephemeral"} /\ j.src \in Backing(j.dev)
  <2>1. j \in Job /\ JobOK(pc[p], j) /\ v \in VM
    BY Here, VMAt
  <2>2. j.src # None /\ j.dev \in Dev /\ j.src \in Backing(j.dev) /\ j.src \notin Disk
    BY <2>1 DEF JobOK, Job, SourceIsOwn
  <2>. QED BY <2>1, <2>2 DEF Building, Backing, Dev
<1>2. Request(p, devs[v] = j.seen /\ CanPutDevices(v, table), PutDevices(v, table), next, work)
  BY StepIs DEF AttachPut
<1>3. work.vm = v
  BY DEF Bare, NoJob
<1>4. next = IF j.dev = "config" THEN "start_vm" ELSE "write_env"
  BY DEF AfterAttach
<1>. HIDE DEF work, next
<1>5. CASE Goto(p, next, work) /\ PutDevices(v, table)
  <2>1. devs'[v] = table /\ host'[v] # None
    BY <1>1, <1>5 DEF PutDevices, TypeOK, ServerTypeOK, Exists
  <2>2. j.dev # "config" => table["config"] = None
    BY <1>1, DevsType DEF DevTable, Dev
  <2>. QED BY <1>3, <1>4, <1>5, <2>1, <2>2, GoesForward DEF ForwardRequests
<1>6. CASE Abort(p) /\ j.dev = "ephemeral"
  <2>1. pc'[p] = "failed"
    BY <1>6, GotoOthers DEF Abort, RollsBack
  <2>. QED BY <1>6, <2>1 DEF Goes, Creates, FailsWell
<1>7. CASE j.dev = "config"
  <2>1. j.src \in ConfVol /\ j.src \in CallVol /\ j.src # None
    BY <1>1, <1>7, EmptyHands DEF Backing, CallVol
  <2>2. vols[j.src] = {host[v]} /\ UsedBy(j.src) = {}
    BY <2>1 DEF HandsInv, MadeOwn, Holding
  <2>3. \A d \in Dev : table[d] = IF d = "config" THEN j.src ELSE devs[v][d]
    BY <1>1, <1>7, DevsType DEF DevTable
  <2>4. CanPutDevices(v, table)
    <3>1. ASSUME NEW d \in Dev, table[d] \notin {None, devs[v][d]}
          PROVE  host[v] \in vols[table[d]] /\ UsedBy(table[d]) \subseteq {v}
      BY <2>2, <2>3, <3>1
    <3>. QED BY <1>1, <3>1 DEF CanPutDevices
  <2>5. Abort(p) => Fault
    <3>1. ASSUME Abort(p), ~Fault PROVE FALSE
      <4>1. Goto(p, next, work)
        BY <1>1, <1>2, <2>4, <3>1 DEF Request
      <4>2. pc'[p] = "has_vm" /\ pc'[p] = "start_vm"
        BY <1>4, <1>7, <3>1, <4>1, GotoOthers DEF Abort, RollsBack
      <4>. QED BY <4>2
    <3>. QED BY <3>1
  <2>. QED BY <1>1, <1>2, <1>5, <2>5, FaultUndoes DEF Request
<1>. QED BY <1>1, <1>2, <1>5, <1>6, <1>7 DEF Request

\* DeleteVM is not refused either: what it deletes is there, and nobody uses it any more.
LEMMA UndoSteps ==
    ASSUME TypeOK, HandsInv, NEW p \in Proc, job[p].op = "create_vm", Undoing(p), Step(p)
    PROVE  Goes(p)
<1>. DEFINE j == job[p]
<1>0. /\ j \in Job /\ pc[p] \in DeleteRequests /\ j.vm \in VM
      /\ pc[p] \in {"stop_vm", "list_disks", "delete_instance"} => Exists(j.vm)
      /\ pc[p] \in {"list_disks", "delete_instance"} => j.vm \notin running
      /\ pc[p] \in {"delete_volumes", "delete_file"} => ~Exists(j.vm)
  BY Here, VMAt DEF Undoing, DeleteRequests
<1>1. CASE pc[p] = "has_vm"
  <2>1. \/ Abort(p) /\ Fault
        \/ /\ Goto(p, IF Exists(j.vm) THEN "stop_vm" ELSE "delete_file", j)
           /\ UNCHANGED <<server, faults>>
    BY <1>1, StepIs DEF HasVM, Read, Request
  <2>. QED BY <2>1, FaultTwice, GoesBack DEF server, Exists, DeleteRequests
<1>2. CASE pc[p] = "stop_vm"
  <2>1. \/ Abort(p) /\ Fault
        \/ Goto(p, "list_disks", j) /\ StopInstance(j.vm) /\ UNCHANGED faults
    BY <1>0, <1>2, StepIs DEF StopVM, Request
  <2>2. CASE Goto(p, "list_disks", j) /\ StopInstance(j.vm) /\ UNCHANGED faults
    <3>1. host'[j.vm] # None /\ j.vm \notin running'
      BY <1>0, <1>2, <2>2 DEF StopInstance, Exists
    <3>. QED BY <2>2, <3>1, GoesBack DEF DeleteRequests
  <2>. QED BY <2>1, <2>2, FaultTwice
<1>3. CASE pc[p] = "list_disks"
  <2>. DEFINE work == [j EXCEPT !.trash = {devs[j.vm]["config"], devs[j.vm]["ephemeral"]} \ {None}]
  <2>1. \/ Abort(p) /\ Fault
        \/ Goto(p, "delete_instance", work) /\ UNCHANGED <<server, faults>>
    BY <1>0, <1>3, StepIs DEF ListDisks, Read, Request
  <2>2. work.vm = j.vm
    BY <1>0 DEF Job
  <2>. HIDE DEF work
  <2>3. CASE Goto(p, "delete_instance", work) /\ UNCHANGED <<server, faults>>
    <3>1. host'[j.vm] # None /\ j.vm \notin running'
      BY <1>0, <1>3, <2>3 DEF server, Exists
    <3>. QED BY <2>2, <2>3, <3>1, GoesBack DEF DeleteRequests
  <2>. QED BY <2>1, <2>3, FaultTwice
<1>4. CASE pc[p] = "delete_instance"
  <2>. DEFINE next == IF j.trash = {} THEN "delete_file" ELSE "delete_volumes"
  <2>1. \/ Abort(p) /\ Fault
        \/ Goto(p, next, j) /\ DeleteInstance(j.vm) /\ UNCHANGED faults
    BY <1>0, <1>4, StepIs DEF DeleteInstanceStep, CanDeleteInstance, Request
  <2>2. CASE Goto(p, next, j) /\ DeleteInstance(j.vm) /\ UNCHANGED faults
    <3>1. host'[j.vm] = None
      BY <1>0, <2>2 DEF DeleteInstance, TypeOK, ServerTypeOK
    <3>. QED BY <2>2, <3>1, GoesBack DEF DeleteRequests
  <2>. QED BY <2>1, <2>2, FaultTwice
<1>5. CASE pc[p] = "delete_volumes"
  <2>1. PICK x \in j.trash :
          Request(p, CanDeleteVolume(x), DeleteVolume(x),
                  IF j.trash = {x} THEN "delete_file" ELSE "delete_volumes",
                  [j EXCEPT !.trash = @ \ {x}])
    BY <1>5, StepIs DEF DeleteVolumes
  <2>. DEFINE next == IF j.trash = {x} THEN "delete_file" ELSE "delete_volumes"
              work == [j EXCEPT !.trash = @ \ {x}]
  <2>2. x \in CallVol /\ vols[x] # {} /\ UsedBy(x) = {}
    BY <1>5, EmptyHands DEF HandsInv, TrashOwn, Discarding
  <2>3. CanDeleteVolume(x)
    <3>1. PICK n \in vols[x] : n \in Node
      BY <2>2 DEF TypeOK, ServerTypeOK, CallVol, Vol
    <3>2. vols[x] = {n}
      BY <2>2, <3>1 DEF HandsInv, OnePlace
    <3>. QED BY <2>2, <3>1, <3>2 DEF CanDeleteVolume, Located
  <2>4. work.vm = j.vm
    BY <1>0 DEF Job
  <2>5. \/ Abort(p) /\ Fault
        \/ Goto(p, next, work) /\ DeleteVolume(x) /\ UNCHANGED faults
    BY <2>1, <2>3 DEF Request
  <2>. HIDE DEF work
  <2>6. CASE Goto(p, next, work) /\ DeleteVolume(x) /\ UNCHANGED faults
    <3>1. host'[j.vm] = None
      BY <1>0, <1>5, <2>6 DEF DeleteVolume, Exists
    <3>. QED BY <2>4, <2>6, <3>1, GoesBack DEF DeleteRequests
  <2>. QED BY <2>5, <2>6, FaultTwice
<1>6. CASE pc[p] = "delete_file"
  <2>1. \/ Abort(p) /\ Fault
        \/ /\ Goto(p, "failed", Bare(p)) /\ file' = [file EXCEPT ![j.vm] = Absent]
           /\ UNCHANGED server
    BY <1>6, StepIs DEF DeleteFile
  <2>2. CASE /\ Goto(p, "failed", Bare(p)) /\ file' = [file EXCEPT ![j.vm] = Absent]
             /\ UNCHANGED server
    <3>1. host'[j.vm] = None /\ file'[j.vm] = Absent
      BY <1>0, <1>6, <2>2 DEF server, Exists, TypeOK
    <3>. QED BY <2>2, <3>1, GotoOthers DEF Goes, Creates, FailsWell
  <2>. QED BY <2>1, <2>2, FaultTwice
<1>. QED BY <1>0, <1>1, <1>2, <1>3, <1>4, <1>5, <1>6 DEF DeleteRequests

LEMMA CreateSteps ==
    ASSUME TypeOK, SourceIsOwn, GoneIsBare, NameFree, HandsInv, CreateInv,
           NEW p \in Proc, job[p].op = "create_vm", Step(p), ~Reply(p)
    PROVE  Goes(p)
<1>1. CASE pc[p] = "create_instance"
  <2>. DEFINE v == job[p].vm
  <2>1. PICK n \in Node : Request(p, ~Exists(v), CreateInstance(v, n), "locate", job[p])
    BY <1>1, StepIs DEF CreateInstanceStep
  <2>2. v \in VM
    BY <1>1, VMAt
  <2>3. CASE Abort(p)
    <3>1. pc'[p] = "failed"
      BY <1>1, <2>3, GotoOthers DEF Abort, RollsBack
    <3>. QED BY <1>1, <3>1 DEF Goes, Creates, FailsWell
  <2>4. CASE Goto(p, "locate", job[p]) /\ ~Exists(v) /\ CreateInstance(v, n)
    <3>1. host'[v] # None /\ pc'[p] = "locate" /\ job'[p] = job[p]
      BY <2>2, <2>4, GotoOthers, ServerAssumption DEF CreateInstance, TypeOK, ServerTypeOK
    <3>2. devs'[v]["config"] = None
      BY <2>2, <2>4 DEF CreateInstance, GoneIsBare, NoDevices, Dev
    <3>. QED BY <3>1, <3>2 DEF Goes, Creates, Building, FailsWell, Exists, ForwardRequests
  <2>. QED BY <2>1, <2>3, <2>4 DEF Request
<1>2. CASE pc[p] # "create_instance"
  <2>1. Building(p) \/ Undoing(p)
    BY <1>2, StepIs DEF CreateInv, Creates
  <2>. QED BY <2>1, BuildSteps, InsertSteps, UndoSteps
<1>. QED BY <1>1, <1>2

-----------------------------------------------------------------------------
(* The invariant is inductive, where the cleanup does not run *)

NoCleanup == todo = {}
RollInv == HandsInv /\ NodeIsHost /\ CreateInv /\ NoCleanup

\* A call is where it was while another one makes a step.
LEMMA OtherCreates ==
    ASSUME TypeOK, OneCallPerVM, CreateInv, NEW p \in Proc, NEW q \in Proc, q # p, Hands(p),
           running' \in {running, running \cup {job[p].vm}, running \ {job[p].vm}},
           UNCHANGED faults \/ Fault, job[q].op = "create_vm"
    PROVE  Creates(q)'
<1>1. job'[q] = job[q] /\ pc'[q] = pc[q]
  BY DEF Hands, OthersRest
<1>2. job[q].vm \in VM /\ job[q].vm # job[p].vm
  BY Here, ServerAssumption DEF JobOK, OneCallPerVM, VMOps
<1>3. /\ host'[job[q].vm] = host[job[q].vm] /\ devs'[job[q].vm] = devs[job[q].vm]
      /\ job[q].vm \in running' <=> job[q].vm \in running
  BY <1>2, HandsLocal
<1>4. faults >= 1 => faults' >= 1
  BY FaultsGrow DEF TypeOK
<1>. QED BY <1>1, <1>3, <1>4 DEF CreateInv, Creates, Building, Undoing, Exists

LEMMA OtherHosts ==
    ASSUME TypeOK, OneCallPerVM, NodeIsHost, NEW p \in Proc, Hands(p),
           pc'[p] = "create_config" => job'[p].node = host'[job'[p].vm]
    PROVE  NodeIsHost'
<1>1. ASSUME NEW q \in Proc, q # p, pc'[q] = "create_config" PROVE job'[q].node = host'[job'[q].vm]
  <2>1. job'[q] = job[q] /\ pc'[q] = pc[q]
    BY <1>1 DEF Hands, OthersRest
  <2>2. job[q].vm \in VM /\ job[q].vm # job[p].vm
    BY <1>1, <2>1, VMAt, ServerAssumption DEF OneCallPerVM
  <2>. QED BY <1>1, <2>1, <2>2, HandsLocal DEF NodeIsHost
<1>. QED BY <1>1 DEF NodeIsHost

\* CreateISO comes right after the look for the instance.
LEMMA LocatedHost ==
    ASSUME TypeOK, ConfigAt, SourceIsOwn, NameFree, NEW p \in Proc, Step(p), ~Reply(p),
           pc'[p] = "create_config"
    PROVE  job'[p].node = host'[job'[p].vm]
<1>. DEFINE j == job[p]
            work == [j EXCEPT !.node = host[j.vm]]
<1>1. pc[p] = "locate_vm"
  <2>1. Handles(p)
    BY StepHandles
  <2>. QED BY <2>1 DEF Handles, Passes, Flows, ReadsFile, WritesFile, TearsFile, BurnsDisk, NotesDisk,
     InsertsDisk, ForgetsFile
<1>2. PICK next \in AfterLocate(p) : Read(p, Exists(j.vm), next, work)
  BY <1>1, StepIs DEF Locate
<1>3. ~Abort(p)
  BY GotoOthers DEF Abort
<1>4. Goto(p, next, work) /\ UNCHANGED server
  BY <1>2, <1>3 DEF Read, Request
<1>5. work.vm = j.vm /\ work.node = host[j.vm]
  BY Here DEF Job
<1>. QED BY <1>4, <1>5, GotoOthers DEF server

LEMMA StepRolls ==
    ASSUME DiskInv, DiskInv', NameFree, RefInv, RollInv, NEW p \in Proc, Step(p), ~Reply(p)
    PROVE  /\ HandsInv' /\ NodeIsHost' /\ CreateInv'
           /\ job[p].op = "create_vm" => FailsWell(p)
<1>0. /\ TypeOK /\ TypeOK' /\ OneCallPerVM /\ GoneIsBare /\ TableRead /\ SourceIsOwn /\ ConfigAt
      /\ HandsInv /\ NodeIsHost /\ CreateInv
  BY DEF DiskInv, RefInv, RollInv
<1>1. Hands(p)
  BY <1>0, StepHands
<1>2. job[p].op = "create_vm" => Goes(p)
  BY <1>0, CreateSteps
<1>3. job'[p].op = job[p].op
  BY <1>0, StepMoves, MovesSame
<1>4. CreateInv'
  <2>1. ASSUME NEW q \in Proc, job'[q].op = "create_vm" PROVE Creates(q)'
    <3>1. CASE q = p
      BY <1>2, <1>3, <2>1, <3>1 DEF Goes
    <3>2. CASE q # p
      BY <1>0, <1>1, <2>1, <3>2, StepRuns, OtherCreates DEF Hands, OthersRest
    <3>. QED BY <3>1, <3>2
  <2>. QED BY <2>1 DEF CreateInv
<1>. QED BY <1>0, <1>1, <1>2, <1>4, HandsKeep, OtherHosts, LocatedHost DEF Goes

\* A call that begins or ends has nothing in hand.
LEMMA EmptyRolls ==
    ASSUME DiskInv, DiskInv', RefInv, RollInv, NEW p \in Proc, OthersRest(p), UNCHANGED server,
           UNCHANGED faults \/ Fault, job'[p].src = None, job'[p].trash = {},
           pc'[p] # "create_config", job'[p].op = "create_vm" => pc'[p] = "create_instance"
    PROVE  HandsInv' /\ NodeIsHost' /\ CreateInv'
<1>0. TypeOK /\ TypeOK' /\ OneCallPerVM /\ HandsInv /\ NodeIsHost /\ CreateInv
  BY DEF DiskInv, RefInv, RollInv
<1>1. Hands(p)
  BY <1>0, EmptyHands DEF Hands, Carries, server, SameVols, HoldsSrc, HoldsTrash
<1>2. CreateInv'
  <2>1. ASSUME NEW q \in Proc, job'[q].op = "create_vm" PROVE Creates(q)'
    <3>1. CASE q = p
      BY <2>1, <3>1 DEF Creates
    <3>2. CASE q # p
      BY <1>0, <1>1, <2>1, <3>2, OtherCreates DEF Hands, OthersRest, server
    <3>. QED BY <3>1, <3>2
  <2>. QED BY <2>1 DEF CreateInv
<1>. QED BY <1>0, <1>1, <1>2, HandsKeep, OtherHosts

LEMMA EndRolls ==
    ASSUME DiskInv, DiskInv', RefInv, RollInv, NEW p \in Proc, Reply(p) \/ Crash(p)
    PROVE  HandsInv' /\ NodeIsHost' /\ CreateInv'
<1>1. Goto(p, "idle", NoJob) /\ UNCHANGED server /\ (UNCHANGED faults \/ Fault)
  BY DEF Reply, Crash
<1>2. NoJob.src = None /\ NoJob.trash = {} /\ NoJob.op # "create_vm"
  BY LifecycleAssumption DEF NoJob, AllOps, VMOps
<1>. QED BY <1>1, <1>2, GotoOthers, EmptyRolls DEF DiskInv

LEMMA CallRolls ==
    ASSUME DiskInv, DiskInv', RefInv, RollInv, NEW p \in Proc, NEW op \in VMOps \cup DiskOps,
           NEW v, NEW d, NEW env, Call(p, op, v, d, env)
    PROVE  HandsInv' /\ NodeIsHost' /\ CreateInv'
<1>. DEFINE work == [NoJob EXCEPT !.op = op, !.vm = v, !.disk = d, !.env = env]
<1>1. Goto(p, Start[op], work) /\ UNCHANGED <<server, faults>>
  BY DEF Call
<1>2. work.src = None /\ work.trash = {} /\ work.op = op
  BY DEF NoJob
<1>. HIDE DEF work
<1>3. Start[op] # "create_config" /\ (op = "create_vm" => Start[op] = "create_instance")
  BY DEF Start, VMOps, DiskOps
<1>. QED BY <1>1, <1>2, <1>3, GotoOthers, EmptyRolls DEF DiskInv

LEMMA DirectorRolls ==
    ASSUME DiskInv, DiskInv', RefInv, RollInv, NEW p \in Proc, Director(p)
    PROVE  HandsInv' /\ NodeIsHost' /\ CreateInv'
  BY CallRolls DEF Director, CallCreateVM, CallDeleteVM, CallCreateDisk, CallDeleteDisk, CallAttachDisk,
     CallDetachDisk, VMOps, DiskOps

LEMMA SameRolls ==
    ASSUME UNCHANGED vars, RollInv PROVE RollInv'
  BY DEF vars, server, cpiVars, RollInv, HandsInv, OnePlace, InUse, EphTable, MadeOwn, Holding, TrashOwn,
     Discarding, NodeIsHost, CreateInv, Creates, Building, Undoing, NoCleanup, UsedBy, Sources, Exists

LEMMA RollInvNext ==
    ASSUME "cleanup" \notin Ops, DiskInv, DiskInv', NameFree, RefInv, RollInv, [Next]_vars
    PROVE  RollInv'
<1>1. ~Cleanup /\ ~CleanupKilled
  BY DEF RollInv, NoCleanup, Cleanup, CleanupScan, CleanupDelete, CleanupKilled
<1>2. ASSUME NEW p \in Proc, Step(p) \/ Director(p) \/ Crash(p)
      PROVE  HandsInv' /\ NodeIsHost' /\ CreateInv'
  BY <1>2, StepRolls, EndRolls, DirectorRolls
<1>3. ASSUME NEW p \in Proc, Step(p) \/ Director(p) \/ Crash(p)
      PROVE  NoCleanup'
  <2>1. CASE Step(p) /\ ~Reply(p)
    BY <2>1, StepRuns DEF DiskInv, RollInv, NoCleanup
  <2>2. CASE Reply(p) \/ Director(p) \/ Crash(p)
    BY <2>2 DEF Reply, Crash, Director, CallCreateVM, CallDeleteVM, CallCreateDisk, CallDeleteDisk,
       CallAttachDisk, CallDetachDisk, Call, RollInv, NoCleanup
  <2>. QED BY <1>3, <2>1, <2>2
<1>. QED BY <1>1, <1>2, <1>3, SameRolls DEF Next, RollInv

LEMMA RollInvInit == Init => RollInv
<1>. SUFFICES ASSUME Init PROVE RollInv
  OBVIOUS
<1>1. /\ \A p \in Proc : job[p] = NoJob /\ pc[p] = "idle"
      /\ NoJob.src = None /\ NoJob.trash = {} /\ NoJob.op = None /\ None # "create_vm"
      /\ \A v \in VM : \A x : x \notin Sources(v)
      /\ \A v \in VM : devs[v]["ephemeral"] = None
      /\ \A x \in CallVol : vols[x] = {}
  BY LifecycleAssumption
  DEF Init, ServerInit, NoJob, NoDevices, Sources, Dev, CallVol, Vol, AllOps, VMOps
<1>2. None \notin CallVol
  BY ServerAssumption DEF CallVol, Vol
<1>3. OnePlace /\ InUse /\ EphTable /\ MadeOwn /\ TrashOwn
  BY <1>1, <1>2 DEF OnePlace, InUse, EphTable, MadeOwn, TrashOwn
<1>. QED BY <1>1, <1>3 DEF Init, RollInv, HandsInv, NodeIsHost, CreateInv, NoCleanup

RolledBack ==
    \A p \in Proc :
        /\ job[p].op = "create_vm" /\ pc[p] # "failed" /\ pc'[p] = "failed" /\ faults' <= 1
        /\ pc[p] \notin {"create_instance", "create_ephemeral"} /\ job[p].dev # "ephemeral"
        => host'[job[p].vm] = None /\ file'[job[p].vm] = Absent

LEMMA FailsRolledBack ==
    ASSUME "cleanup" \notin Ops, DiskInv, NameFree, RefInv, RollInv, [Next]_vars
    PROVE  RolledBack
<1>0. TypeOK /\ DiskInv'
  BY DiskInvNext DEF DiskInv
<1>. SUFFICES ASSUME NEW p \in Proc, job[p].op = "create_vm", pc[p] # "failed", pc'[p] = "failed",
                     faults' <= 1, pc[p] \notin {"create_instance", "create_ephemeral"},
                     job[p].dev # "ephemeral"
              PROVE  host'[job[p].vm] = None /\ file'[job[p].vm] = Absent
  BY DEF RolledBack
<1>1. PICK q \in Proc : Step(q) \/ Director(q) \/ Crash(q)
  BY DEF Next, Cleanup, CleanupScan, CleanupDelete, CleanupKilled, vars, cpiVars
<1>2. q = p
  BY <1>1, OthersStay
<1>3. ~Director(p) /\ ~Crash(p) /\ ~Reply(p)
  <2>1. Reply(p) \/ Crash(p) => pc'[p] = "idle"
    BY <1>0, GotoOthers DEF Reply, Crash
  <2>2. \A op \in VMOps \cup DiskOps : \A v, d, env : Call(p, op, v, d, env) => pc'[p] = Start[op]
    BY <1>0, GotoOthers DEF Call
  <2>3. \A op \in VMOps \cup DiskOps : Start[op] # "failed"
    BY DEF Start, VMOps, DiskOps
  <2>4. ~Director(p)
    BY <2>2, <2>3 DEF Director, CallCreateVM, CallDeleteVM, CallCreateDisk, CallDeleteDisk,
       CallAttachDisk, CallDetachDisk, VMOps, DiskOps
  <2>. QED BY <2>1, <2>4
<1>4. FailsWell(p)
  BY <1>0, <1>1, <1>2, <1>3, StepRolls
<1>5. faults' \in Nat
  BY <1>0, <1>1, <1>2, <1>3, StepRuns, FaultsGrow
<1>. QED BY <1>4, <1>5 DEF FailsWell

\* A create_vm that fails, in a request its deferred DeleteVM answers for, leaves neither a VM nor
\* an agent.json, wherever the one failure struck and whether or not that request took effect.
\* (The daily cleanup may take a configuration disk just made, which is then a second failure.)
THEOREM RollsBackCompletely == ASSUME ~Overlap, "cleanup" \notin Ops PROVE Spec => RollbackComplete
<1>1. Init => Inv /\ RollInv
  BY DiskInvInit, RefInvInit, SetInvInit, RollInvInit DEF Init, NameFree, Inv
<1>2. Inv /\ RollInv /\ [Next]_vars => (Inv /\ RollInv)'
  BY DiskInvNext, NameFreeNext, RefInvNext, SetInvNext, RollInvNext DEF Inv
<1>3. Inv /\ RollInv /\ [Next]_vars => [RolledBack]_vars
  BY FailsRolledBack DEF Inv
<1>. QED BY <1>1, <1>2, <1>3, PTL DEF Spec, RollbackComplete, RolledBack

-----------------------------------------------------------------------------
(* The detach functions undo nothing *)

DetachesOne ==
    \A p \in Proc : pc[p] = "detach_put" /\ devs' # devs /\ pc'[p] # pc[p] =>
        \A v \in VM, d \in Dev : devs'[v][d] # devs[v][d] =>
            v = job[p].vm /\ d = job[p].dev /\ devs'[v][d] = None

LEMMA DetachTakes == DiskInv /\ TableRead /\ [Next]_vars => DetachesOne
<1>. SUFFICES ASSUME DiskInv, TableRead, [Next]_vars,
                     NEW p \in Proc, pc[p] = "detach_put", devs' # devs, pc'[p] # pc[p],
                     NEW v \in VM, NEW d \in Dev, devs'[v][d] # devs[v][d]
              PROVE  v = job[p].vm /\ d = job[p].dev /\ devs'[v][d] = None
  BY DEF DetachesOne
<1>. DEFINE j == job[p]
            table == [j.seen EXCEPT ![j.dev] = None]
<1>1. DetachPut(p)
  <2>1. PICK q \in Proc : Step(q) \/ Director(q) \/ Crash(q)
    BY DEF Next, Cleanup, CleanupScan, CleanupDelete, CleanupKilled, vars, cpiVars
  <2>2. q = p
    BY <2>1, OthersStay
  <2>3. ~Director(p) /\ ~Crash(p)
    BY DEF Director, CallCreateVM, CallDeleteVM, CallCreateDisk, CallDeleteDisk,
           CallAttachDisk, CallDetachDisk, Call, Crash, server
  <2>. QED BY <2>1, <2>2, <2>3, StepIs
<1>2. devs' = [devs EXCEPT ![j.vm] = table]
  BY <1>1 DEF DetachPut, Request, PutDevices, server
<1>3. j.vm \in VM /\ j.seen = devs[j.vm]
  BY VMAt DEF DiskInv, TableRead, Found
<1>4. v = j.vm /\ devs'[v] = table
  BY <1>2, <1>3 DEF DiskInv, TypeOK, ServerTypeOK
<1>5. devs[v] \in [Dev -> Vol \cup {None}]
  BY DevsType DEF DiskInv, DevTable
<1>. QED BY <1>3, <1>4, <1>5

\* A detach function takes the device it is about and no other, although its update would be
\* accepted whatever happened to the table since it was read: one call works on a VM at a time.
THEOREM DetachTakesOne == ASSUME ~Overlap PROVE Spec => DetachKeepsOthers
<1>1. Inv => DiskInv /\ TableRead
  BY DEF Inv, RefInv
<1>2. Inv /\ [Next]_vars => [DetachesOne]_vars
  BY <1>1, DetachTakes
<1>3. Spec => [][DetachesOne]_vars
  BY <1>2, AlwaysInv, PTL DEF Spec
<1>. QED BY <1>3 DEF DetachKeepsOthers, DetachesOne

===============================================================================
