-------------------------- MODULE VMRefinement_proofs --------------------------
(***************************************************************************)
(* VMLifecycle implements CPIContract for every number of VMs, disks,      *)
(* members and processes, where the director runs one call on a VM at a    *)
(* time: with requests that fail before or after they took effect, killed  *)
(* processes, and the cleanup beside all of it.                            *)
(***************************************************************************)
EXTENDS VMRefinement, VMLifecycle_proofs

LEMMA NoneNoDev == None \notin Dev /\ None \notin Vol /\ None \notin VM /\ None \notin Disk
  BY ServerAssumption, LifecycleAssumption DEF Vol

-----------------------------------------------------------------------------
(* The inductive invariant *)

Stage(p) == StageOf(pc[p], job[p])

Clean(v) == trust[v] = "clean"

\* One call works on a VM at a time.
OneCallPerVM == \A p, q \in Proc : p # q /\ job[p].vm # None => job[q].vm # job[p].vm

\* A device table belongs to an instance.
GoneIsBare == \A v \in VM : ~Exists(v) => devs[v] = NoDevices

\* The detach functions write back what is there but for one device.
Found(j) == j.seen = devs[j.vm] /\ (j.dev # "config" => j.seen[j.dev] = j.disk)
TableRead == \A p \in Proc : pc[p] = "detach_put" => Found(job[p])

\* A call attaches the volume it made, or its disk.
SourceIsOwn == \A p \in Proc :
    /\ job[p].src \in EphVol => job[p].op = "create_vm"
    /\ job[p].src \in Disk => job[p].op = "attach_disk" /\ job[p].src = job[p].disk

\* The requests that are about the configuration disk.
ConfigRequests == {"find_config", "config_get", "detach_put", "check_stopped", "delete_config",
                   "attach_get", "attach_put"}
ConfigAt == \A p \in Proc : job[p].dev = "config" => pc[p] \in ConfigRequests

\* What a call on a VM that no call has failed on has found or brought about.
DeleteDone == \A p \in Proc :
    job[p].op = "delete_vm" /\ Stage(p) = "done" => ~Exists(job[p].vm)
DetachDone == \A p \in Proc :
    job[p].op = "detach_disk" /\ Stage(p) = "done" /\ Clean(job[p].vm) =>
        job[p].disk \notin Sources(job[p].vm)
AttachAsked == \A p \in Proc :
    job[p].op = "attach_disk" /\ Stage(p) = "asked" /\ Clean(job[p].vm) =>
        job[p].disk \notin Sources(job[p].vm)

\* The director's view of where the disks are.
Once == \A v \in VM : Clean(v) =>
    \A a, b \in Dev : devs[v][a] \in Disk /\ devs[v][a] = devs[v][b] => a = b
Owned == \A v \in VM, d \in Disk : Clean(v) /\ d \in Sources(v) => owner[d] = v
CallOwns == \A p \in Proc :
    job[p].op \in {"attach_disk", "detach_disk"} => owner[job[p].disk] = job[p].vm
UnsureMarred == \A d \in unsure :
    /\ owner[d] \in VM
    /\ \/ ~Clean(owner[d])
       \/ \E p \in Proc : job[p].op \in {"attach_disk", "detach_disk"} /\ job[p].disk = d

RefInv ==
    /\ OneCallPerVM /\ GoneIsBare /\ TableRead /\ SourceIsOwn /\ ConfigAt
    /\ DeleteDone /\ DetachDone /\ AttachAsked
    /\ Once /\ Owned /\ CallOwns /\ UnsureMarred

-----------------------------------------------------------------------------
(* What the steps of a call do to instances, device tables and disks *)

\* A step of p that changes no other process and goes on with the same call.
SameCall(p) ==
    /\ \A q \in Proc \ {p} : job'[q] = job[q] /\ pc'[q] = pc[q]
    /\ job'[p].op = job[p].op /\ job'[p].vm = job[p].vm /\ job'[p].disk = job[p].disk
    /\ pc[p] \notin {"idle", "ok", "failed"}
    /\ pc'[p] # "idle"
    /\ UNCHANGED director

\* A request of p has failed: the call has, or create_vm turns to its rollback.
GivesUp(p) ==
    \/ Stage(p)' = "failed"
    \/ job[p].op = "create_vm" /\ Stage(p) = "done" /\ Stage(p)' = "undoing"

GoesOn(p) == Stage(p)' = Stage(p) \/ GivesUp(p)

\* The moment a call takes effect, and its request may still fail.
TakesEffect(p) == Stage(p) = "asked" /\ Stage(p)' \in {"done", "failed"}

SrcOK(p, work) ==
    /\ work.src \in EphVol => work.src = job[p].src \/ job[p].op = "create_vm"
    /\ work.src \in Disk =>
           work.src = job[p].src \/ (job[p].op = "attach_disk" /\ work.src = job[p].disk)

SameInstances == UNCHANGED <<host, devs>>

SameThere == \A d \in Disk : vols'[d] = {} <=> vols[d] = {}

OneDevice(v, a, x) == devs' = [devs EXCEPT ![v] = [devs[v] EXCEPT ![a] = x]]

Rests(p) == SameInstances /\ SameThere /\ GoesOn(p)

\* There is nothing left to do.
Skips(p) ==
    /\ SameInstances /\ SameThere
    /\ Stage(p) = "asked" /\ Stage(p)' = "done"
    /\ \/ job[p].op = "delete_vm" /\ ~Exists(job[p].vm)
       \/ job[p].op = "detach_disk" /\ job[p].disk \notin Sources(job[p].vm)

MakesVM(p) ==
    /\ job[p].op = "create_vm" /\ TakesEffect(p)
    /\ ~Exists(job[p].vm)
    /\ \E n \in Node : host' = [host EXCEPT ![job[p].vm] = n]
    /\ UNCHANGED devs /\ SameThere

ClearsVM(p) ==
    /\ \/ job[p].op = "delete_vm" /\ TakesEffect(p)
       \/ job[p].op = "create_vm" /\ Stage(p) = "undoing" /\ Stage(p)' \in {"undoing", "failed"}
    /\ host' = [host EXCEPT ![job[p].vm] = None]
    /\ devs' = [devs EXCEPT ![job[p].vm] = NoDevices]
    /\ SameThere

Attaches(p) == \E a \in PersistentDev :
    /\ job[p].op = "attach_disk" /\ TakesEffect(p)
    /\ Exists(job[p].vm) /\ vols[job[p].disk] # {} /\ UsedBy(job[p].disk) \subseteq {job[p].vm}
    /\ devs[job[p].vm][a] = None /\ OneDevice(job[p].vm, a, job[p].disk)
    /\ UNCHANGED host /\ SameThere

Detaches(p) == \E a \in PersistentDev :
    /\ job[p].op = "detach_disk" /\ TakesEffect(p) /\ Exists(job[p].vm)
    /\ devs[job[p].vm][a] = job[p].disk /\ OneDevice(job[p].vm, a, None)
    /\ UNCHANGED host /\ SameThere

\* The configuration disk or the ephemeral disk changes places.
Equips(p) == \E a \in Dev \ PersistentDev, x \in ConfVol \cup EphVol \cup {None} :
    /\ job[p].vm \in VM /\ Exists(job[p].vm)
    /\ OneDevice(job[p].vm, a, x) /\ x \in Backing(a) \cup {None}
    /\ UNCHANGED host /\ SameThere /\ GoesOn(p)

MakesDisk(p) ==
    /\ job[p].op = "create_disk" /\ TakesEffect(p) /\ SameInstances
    /\ vols[job[p].disk] = {} /\ vols'[job[p].disk] # {}
    /\ \A d \in Disk \ {job[p].disk} : vols'[d] = vols[d]

RemovesDisk(p) ==
    /\ job[p].op = "delete_disk" /\ TakesEffect(p) /\ SameInstances
    /\ vols'[job[p].disk] = {} /\ UsedBy(job[p].disk) = {}
    /\ \A d \in Disk \ {job[p].disk} : vols'[d] = vols[d]

Moves(p) ==
    /\ SameCall(p)
    /\ \/ Rests(p) \/ Skips(p) \/ MakesVM(p) \/ ClearsVM(p)
       \/ Attaches(p) \/ Detaches(p) \/ Equips(p) \/ MakesDisk(p) \/ RemovesDisk(p)
    /\ job'[p].dev = "config" => pc'[p] \in ConfigRequests
    /\ pc'[p] = "detach_put" => SameInstances /\ Found(job'[p])
    /\ SrcOK(p, job'[p])

-----------------------------------------------------------------------------
(* Stages *)

LEMMA StageAt ==
    ASSUME TypeOK, NEW p \in Proc, pc[p] \notin {"idle", "failed"}
    PROVE  /\ pc[p] \in Before(job[p].op) /\ job[p].dev # "config" => Stage(p) = "asked"
           /\ (pc[p] \notin Before(job[p].op) \/ job[p].dev = "config")
              /\ ~(job[p].op = "create_vm" /\ pc[p] \in DeleteRequests) => Stage(p) = "done"
           /\ job[p].op = "create_vm" /\ pc[p] \in DeleteRequests /\ pc[p] # "create_instance" =>
                  Stage(p) = "undoing"
  BY DEF Stage, StageOf, Before, DeleteRequests

LEMMA AfterGoto ==
    ASSUME TypeOK, NEW p \in Proc, NEW next, NEW work, Goto(p, next, work)
    PROVE  /\ pc'[p] = next /\ job'[p] = work
           /\ \A q \in Proc \ {p} : job'[q] = job[q] /\ pc'[q] = pc[q]
  BY DEF Goto, TypeOK

LEMMA AbortStage ==
    ASSUME TypeOK, NEW p \in Proc, pc[p] \notin {"idle", "ok", "failed"}, Abort(p), UNCHANGED director
    PROVE  /\ SameCall(p) /\ GivesUp(p)
           /\ pc'[p] \in {"has_vm", "failed"} /\ job'[p].dev # "config" /\ SrcOK(p, job'[p])
<1>1. /\ Bare(p).op = job[p].op /\ Bare(p).vm = job[p].vm /\ Bare(p).disk = job[p].disk
      /\ Bare(p).dev = None /\ None # "config" /\ SrcOK(p, Bare(p))
  BY NoneNoDev DEF Bare, NoJob, Dev, SrcOK, Vol
<1>2. CASE RollsBack(p)
  <2>1. job[p].op = "create_vm" /\ Goto(p, "has_vm", Bare(p))
    BY <1>2 DEF RollsBack, Abort
  <2>2. Stage(p) = "done"
    BY <1>2, <2>1 DEF RollsBack, Stage, StageOf, Before, DeleteRequests
  <2>3. pc'[p] = "has_vm" /\ job'[p] = Bare(p)
    BY <2>1, AfterGoto
  <2>4. Stage(p)' = "undoing"
    BY <1>1, <2>1, <2>3 DEF Stage, StageOf, Before, DeleteRequests
  <2>. QED BY <1>1, <2>1, <2>2, <2>3, <2>4, AfterGoto DEF SameCall, GivesUp
<1>3. CASE ~RollsBack(p)
  <2>1. Goto(p, "failed", Bare(p))
    BY <1>3 DEF Abort
  <2>. QED BY <1>1, <2>1, AfterGoto 
     DEF SameCall, GivesUp, Stage, StageOf, Before, DeleteRequests
<1>. QED BY <1>2, <1>3

LEMMA SrcSame == \A p \in Proc : SrcOK(p, job[p])
  BY DEF SrcOK

\* A call that goes on, at the stage of its next request.
LEMMA NextStage ==
    ASSUME TypeOK, NEW p \in Proc, pc[p] \notin {"idle", "ok", "failed"}, NEW next, NEW work,
           work.op = job[p].op, work.vm = job[p].vm, work.disk = job[p].disk,
           Goto(p, next, work), next # "idle", UNCHANGED director
    PROVE  SameCall(p) /\ Stage(p)' = StageOf(next, work) /\ pc'[p] = next /\ job'[p] = work
  BY AfterGoto DEF SameCall, Stage

\* A request that changes no instance, no table and no disk.
LEMMA RequestRests ==
    ASSUME TypeOK, NEW p \in Proc, pc[p] \notin {"idle", "ok", "failed"}, NEW next, NEW work,
           work.op = job[p].op, work.vm = job[p].vm, work.disk = job[p].disk,
           Goto(p, next, work) \/ Abort(p), next # "idle",
           work.dev = "config" => next \in ConfigRequests,
           next = "detach_put" => Found(work), SrcOK(p, work),
           UNCHANGED director, SameInstances, SameThere,
           StageOf(next, work) = Stage(p)
    PROVE  Moves(p)
<1>1. CASE Abort(p)
  BY <1>1, AbortStage DEF Moves, Rests, GoesOn
<1>2. CASE Goto(p, next, work)
  BY <1>2, NextStage DEF Moves, Rests, GoesOn
<1>. QED BY <1>1, <1>2

LEMMA ReadRests ==
    ASSUME TypeOK, NEW p \in Proc, pc[p] \notin {"idle", "ok", "failed"}, NEW ok, NEW next, NEW work,
           work.op = job[p].op, work.vm = job[p].vm, work.disk = job[p].disk,
           Read(p, ok, next, work), next # "idle",
           work.dev = "config" => next \in ConfigRequests,
           next = "detach_put" => Found(work), SrcOK(p, work),
           StageOf(next, work) = Stage(p)
    PROVE  Moves(p)
<1>1. (Goto(p, next, work) \/ Abort(p)) /\ UNCHANGED director /\ SameInstances /\ SameThere
  BY DEF Read, Request, server, SameInstances, SameThere
<1>. QED BY <1>1, RequestRests

\* A request that fails without an effect.
LEMMA FailRests ==
    ASSUME TypeOK, NEW p \in Proc, pc[p] \notin {"idle", "ok", "failed"}, Abort(p),
           UNCHANGED <<server, director>>
    PROVE  Moves(p)
  BY AbortStage DEF Moves, Rests, GoesOn, SameInstances, SameThere, server, director

-----------------------------------------------------------------------------
(* Requests that leave the instances, their devices and the disks as they are *)

LEMMA OtherDisks ==
    ASSUME TypeOK, NEW x \in ConfVol \cup EphVol,
           UNCHANGED vols \/ \E new : vols' = [vols EXCEPT ![x] = new]
    PROVE  SameThere
  BY StrongDisjoint DEF SameThere, TypeOK, ServerTypeOK, Vol

LEMMA LocateRests == ASSUME TypeOK, ConfigAt, NEW p \in Proc, Locate(p) PROVE Moves(p)
<1>. DEFINE j == job[p]
            work == [j EXCEPT !.node = host[j.vm]]
<1>1. /\ j \in Job /\ j.dev # "config" /\ pc[p] \in {"locate", "locate_vm"}
      /\ pc[p] = "locate" => j.op \in {"create_vm", "create_disk"}
      /\ pc[p] = "locate_vm" => j.op \in {"create_vm", "attach_disk", "detach_disk"}
  BY Here DEF Locate, ConfigAt, ConfigRequests, JobOK, Job, RequestsOf, WriteRequests,
              DeleteRequests, VMOps, DiskOps
<1>2. PICK next \in AfterLocate(p) : Read(p, Exists(j.vm), next, work)
  BY DEF Locate
<1>3. work.op = j.op /\ work.vm = j.vm /\ work.disk = j.disk /\ work.dev = j.dev /\ SrcOK(p, work)
  BY <1>1 DEF Job, SrcOK
<1>4. next \in {"create_config", "create_disk", "create_ephemeral", "write_env"}
  BY DEF AfterLocate
<1>5. StageOf(next, work) = Stage(p)
  BY <1>1, <1>3, <1>4 DEF AfterLocate, Stage, StageOf, Before, DeleteRequests
<1>. HIDE DEF work
<1>. QED BY <1>1, <1>2, <1>3, <1>4, <1>5, ReadRests

LEMMA AttachGetRests == ASSUME TypeOK, ConfigAt, NEW p \in Proc, AttachGet(p) PROVE Moves(p)
<1>. DEFINE j == job[p]
            work == [j EXCEPT !.seen = devs[j.vm]]
<1>1. /\ pc[p] = "attach_get" /\ \E ok : Read(p, ok, "attach_put", work)
      /\ j \in Job /\ j.op \in {"create_vm", "attach_disk", "detach_disk"}
  BY Here, OpAt DEF AttachGet, WriteRequests
<1>2. work.op = j.op /\ work.vm = j.vm /\ work.disk = j.disk /\ work.dev = j.dev /\ SrcOK(p, work)
  BY <1>1 DEF Job, SrcOK
<1>3. StageOf("attach_put", work) = Stage(p)
  BY <1>1, <1>2 DEF Stage, StageOf, Before, DeleteRequests
<1>. HIDE DEF work
<1>. QED BY <1>1, <1>2, <1>3, ReadRests DEF ConfigRequests

LEMMA ConfigGetRests == ASSUME TypeOK, ConfigAt, NEW p \in Proc, ConfigGet(p) PROVE Moves(p)
<1>. DEFINE j == job[p]
            there == devs[j.vm]["config"] # None
            next == IF there THEN "detach_put" ELSE "check_stopped"
            work == IF there THEN [j EXCEPT !.seen = devs[j.vm]] ELSE j
<1>1. /\ pc[p] = "config_get" /\ \E ok : Read(p, ok, next, work)
      /\ j \in Job /\ j.op \in {"create_vm", "attach_disk", "detach_disk"} /\ j.dev = "config"
  BY Here, OpAt DEF ConfigGet, WriteRequests, JobOK
<1>2. /\ work.op = j.op /\ work.vm = j.vm /\ work.disk = j.disk /\ work.dev = j.dev
      /\ next = "detach_put" => Found(work)
      /\ next \in {"detach_put", "check_stopped"} /\ SrcOK(p, work)
  BY <1>1 DEF Job, Found, SrcOK
<1>. HIDE DEF work, next
<1>3. StageOf(next, work) = Stage(p)
  BY <1>1, <1>2 DEF Stage, StageOf, Before, DeleteRequests
<1>. QED BY <1>1, <1>2, <1>3, ReadRests, SrcSame DEF ConfigRequests

LEMMA FindConfigRests == ASSUME TypeOK, ConfigAt, NEW p \in Proc, FindConfig(p) PROVE Moves(p)
<1>. DEFINE j == job[p]
            old == devs[j.vm]["config"]
            next == IF old = None THEN "attach_get" ELSE "config_get"
            work == [j EXCEPT !.trash = {old} \ {None}]
<1>1. /\ pc[p] = "find_config" /\ \E ok : Read(p, ok, next, work)
      /\ j \in Job /\ j.op \in {"create_vm", "attach_disk", "detach_disk"} /\ j.dev = "config"
  BY Here, OpAt DEF FindConfig, WriteRequests, JobOK
<1>2. /\ work.op = j.op /\ work.vm = j.vm /\ work.disk = j.disk /\ work.dev = j.dev
      /\ next \in {"attach_get", "config_get"} /\ SrcOK(p, work)
  BY <1>1 DEF Job, SrcOK
<1>. HIDE DEF work, next
<1>3. StageOf(next, work) = Stage(p)
  BY <1>1, <1>2 DEF Stage, StageOf, Before, DeleteRequests
<1>. QED BY <1>1, <1>2, <1>3, ReadRests DEF ConfigRequests

LEMMA CheckStoppedRests == ASSUME TypeOK, ConfigAt, NEW p \in Proc, CheckStopped(p) PROVE Moves(p)
<1>. DEFINE j == job[p]
            work == [j EXCEPT !.trash = {}]
<1>1. /\ pc[p] = "check_stopped"
      /\ \E ok : Read(p, ok, "attach_get", work) \/ Read(p, ok, "delete_config", j)
      /\ j \in Job /\ j.op \in {"create_vm", "attach_disk", "detach_disk"} /\ j.dev = "config"
  BY Here, OpAt DEF CheckStopped, WriteRequests, JobOK
<1>2. work.op = j.op /\ work.vm = j.vm /\ work.disk = j.disk /\ work.dev = j.dev /\ SrcOK(p, work)
  BY <1>1 DEF Job, SrcOK
<1>. HIDE DEF work
<1>3. StageOf("attach_get", work) = Stage(p) /\ StageOf("delete_config", j) = Stage(p)
  BY <1>1, <1>2 DEF Stage, StageOf, Before, DeleteRequests
<1>. QED BY <1>1, <1>2, <1>3, ReadRests, SrcSame DEF ConfigRequests

LEMMA ReadEnvRests == ASSUME TypeOK, ConfigAt, NEW p \in Proc, ReadEnv(p) PROVE Moves(p)
<1>. DEFINE j == job[p]
            e == file[j.vm]
            attach == [j EXCEPT !.dev = FreeSlot(e), !.src = j.disk, !.env = e]
            detach == [j EXCEPT !.env = [e EXCEPT ![j.disk] = None]]
<1>1. /\ pc[p] = "read_env" /\ j \in Job /\ j.dev # "config"
      /\ \E ok : \/ j.op = "attach_disk" /\ Read(p, ok, "colocate", attach)
                 \/ j.op = "detach_disk" /\ Read(p, ok, "write_env", detach)
  BY Here DEF ReadEnv, ConfigAt, ConfigRequests
<1>2. FreeSlot(e) # "config"
  BY NoneNoDev DEF FreeSlot, Dev
<1>3. /\ attach.op = j.op /\ attach.vm = j.vm /\ attach.disk = j.disk /\ attach.dev # "config"
      /\ detach.op = j.op /\ detach.vm = j.vm /\ detach.disk = j.disk /\ detach.dev = j.dev
      /\ SrcOK(p, detach) /\ (j.op = "attach_disk" => SrcOK(p, attach))
  BY <1>1, <1>2, StrongDisjoint, NoneNoDev DEF Job, SrcOK, Vol
<1>. HIDE DEF attach, detach
<1>4. /\ j.op = "attach_disk" => StageOf("colocate", attach) = Stage(p)
      /\ j.op = "detach_disk" => StageOf("write_env", detach) = Stage(p)
  BY <1>1, <1>3 DEF Stage, StageOf, Before, DeleteRequests
<1>. QED BY <1>1, <1>3, <1>4, ReadRests

LEMMA ColocateRests == ASSUME TypeOK, ConfigAt, NEW p \in Proc, Colocate(p) PROVE Moves(p)
<1>. DEFINE j == job[p]
            work(n) == [j EXCEPT !.node = n, !.to = host[j.vm]]
<1>1. /\ pc[p] = "colocate" /\ j \in Job /\ j.op = "attach_disk" /\ j.dev # "config"
  BY Here, OpAt DEF Colocate, ConfigAt, ConfigRequests
<1>2. CASE \E ok : Read(p, ok, "attach_get", j)
  <2>1. StageOf("attach_get", j) = Stage(p)
    BY <1>1 DEF Stage, StageOf, Before, DeleteRequests
  <2>. QED BY <1>1, <1>2, <2>1, ReadRests, SrcSame
<1>3. ASSUME NEW n \in Node, NEW ok, Read(p, ok, "copy_volume", work(n)) PROVE Moves(p)
  <2>1. /\ work(n).op = j.op /\ work(n).vm = j.vm /\ work(n).disk = j.disk
        /\ work(n).dev = j.dev /\ SrcOK(p, work(n))
    BY <1>1 DEF Job, SrcOK
  <2>2. Read(p, ok, "copy_volume", work(n))
    BY <1>3
  <2>. HIDE DEF work
  <2>3. StageOf("copy_volume", work(n)) = Stage(p)
    BY <1>1, <2>1 DEF Stage, StageOf, Before, DeleteRequests
  <2>. QED BY <1>1, <2>1, <2>2, <2>3, ReadRests, SrcSame
<1>4. CASE Read(p, FALSE, "failed", j)
  <2>1. Abort(p) /\ UNCHANGED <<server, director>>
    BY <1>4 DEF Read, Request
  <2>. QED BY <1>1, <2>1, FailRests
<1>. QED BY <1>2, <1>3, <1>4 DEF Colocate

LEMMA WriteEnvRests == ASSUME TypeOK, ConfigAt, NEW p \in Proc, WriteEnv(p) PROVE Moves(p)
<1>1. /\ pc[p] = "write_env" /\ job[p].op \in {"create_vm", "attach_disk", "detach_disk"}
      /\ Goto(p, "locate_vm", job[p]) \/ Abort(p)
      /\ UNCHANGED <<server, director>> /\ job[p].dev # "config"
  BY OpAt DEF WriteEnv, WriteRequests, ConfigAt, ConfigRequests
<1>2. SameInstances /\ SameThere
  BY <1>1 DEF server, SameInstances, SameThere
<1>3. StageOf("locate_vm", job[p]) = Stage(p)
  BY <1>1 DEF Stage, StageOf, Before, DeleteRequests
<1>. QED BY <1>1, <1>2, <1>3, RequestRests, SrcSame DEF director

LEMMA CreateConfigRests == ASSUME TypeOK, ConfigAt, NEW p \in Proc, CreateConfig(p) PROVE Moves(p)
<1>. DEFINE j == job[p]
            work(c) == [Bare(p) EXCEPT !.dev = "config", !.src = c]
<1>1. PICK c \in ConfVol :
         Request(p, TRUE, CreateISO(c, j.node, j.env), "find_config", work(c))
  BY DEF CreateConfig
<1>2. pc[p] = "create_config" /\ j.op \in {"create_vm", "attach_disk", "detach_disk"} /\ j.dev # "config"
  BY OpAt DEF CreateConfig, WriteRequests, ConfigAt, ConfigRequests
<1>3. /\ work(c).op = j.op /\ work(c).vm = j.vm /\ work(c).disk = j.disk /\ work(c).dev = "config" /\ SrcOK(p, work(c))
  BY StrongDisjoint DEF Bare, NoJob, SrcOK
<1>. HIDE DEF work
<1>4. /\ Goto(p, "find_config", work(c)) \/ Abort(p)
      /\ UNCHANGED director /\ SameInstances
      /\ UNCHANGED vols \/ \E new : vols' = [vols EXCEPT ![c] = new]
  BY <1>1 DEF Request, CreateISO, server, SameInstances
<1>5. SameThere
  BY <1>4, OtherDisks
<1>6. StageOf("find_config", work(c)) = Stage(p)
  BY <1>2, <1>3 DEF Stage, StageOf, Before, DeleteRequests
<1>. QED BY <1>2, <1>3, <1>4, <1>5, <1>6, RequestRests DEF ConfigRequests

LEMMA DeleteConfigRests == ASSUME TypeOK, ConfigAt, NEW p \in Proc, DeleteConfig(p) PROVE Moves(p)
<1>. DEFINE j == job[p]
            work == [j EXCEPT !.trash = {}]
<1>1. PICK c \in j.trash : Request(p, CanDeleteVolume(c), DeleteVolume(c), "attach_get", work)
  BY DEF DeleteConfig
<1>2. /\ pc[p] = "delete_config" /\ j.op \in {"create_vm", "attach_disk", "detach_disk"}
      /\ j \in Job /\ j.dev = "config" /\ c \in ConfVol \cup EphVol
  BY OpAt, Here DEF DeleteConfig, WriteRequests, JobOK, Job
<1>3. /\ work.op = j.op /\ work.vm = j.vm /\ work.disk = j.disk /\ work.dev = j.dev /\ SrcOK(p, work)
  BY <1>2 DEF Job, SrcOK
<1>. HIDE DEF work
<1>4. /\ Goto(p, "attach_get", work) \/ Abort(p)
      /\ UNCHANGED director /\ SameInstances
      /\ UNCHANGED vols \/ \E new : vols' = [vols EXCEPT ![c] = new]
  BY <1>1 DEF Request, DeleteVolume, server, SameInstances
<1>5. SameThere
  BY <1>2, <1>4, OtherDisks
<1>6. StageOf("attach_get", work) = Stage(p)
  BY <1>2, <1>3 DEF Stage, StageOf, Before, DeleteRequests
<1>. QED BY <1>2, <1>3, <1>4, <1>5, <1>6, RequestRests DEF ConfigRequests

LEMMA CreateEphemeralRests == ASSUME TypeOK, ConfigAt, NEW p \in Proc, CreateEphemeral(p) PROVE Moves(p)
<1>. DEFINE j == job[p]
            x == EphOf(j.vm)
            work == [j EXCEPT !.node = None, !.dev = "ephemeral", !.src = x]
<1>1. /\ Request(p, vols[x] = {}, CreateVolume(x, j.node), "attach_get", work)
      /\ pc[p] = "create_ephemeral" /\ j.op = "create_vm" /\ j \in Job /\ x \in EphVol
  BY OpAt, Here, VMAt DEF CreateEphemeral, EphVol
<1>2. /\ work.op = j.op /\ work.vm = j.vm /\ work.disk = j.disk /\ work.dev = "ephemeral" /\ SrcOK(p, work)
  BY <1>1, StrongDisjoint DEF Job, SrcOK
<1>. HIDE DEF work
<1>3. /\ Goto(p, "attach_get", work) \/ Abort(p)
      /\ UNCHANGED director /\ SameInstances
      /\ UNCHANGED vols \/ \E new : vols' = [vols EXCEPT ![x] = new]
  BY <1>1 DEF Request, CreateVolume, server, SameInstances
<1>4. SameThere
  BY <1>1, <1>3, OtherDisks
<1>5. StageOf("attach_get", work) = Stage(p)
  BY <1>1, <1>2 DEF Stage, StageOf, Before, DeleteRequests
<1>. QED BY <1>1, <1>2, <1>3, <1>4, <1>5, RequestRests DEF ConfigRequests

LEMMA StartVMRests == ASSUME TypeOK, ConfigAt, NEW p \in Proc, StartVM(p) PROVE Moves(p)
<1>1. /\ pc[p] = "start_vm" /\ job[p].op = "create_vm"
      /\ Goto(p, "ok", Bare(p)) \/ Abort(p)
      /\ UNCHANGED director /\ SameInstances /\ SameThere
  BY OpAt DEF StartVM, Request, StartInstance, server, SameInstances, SameThere
<1>2. /\ Bare(p).op = job[p].op /\ Bare(p).vm = job[p].vm /\ Bare(p).disk = job[p].disk
      /\ Bare(p).dev # "config" /\ SrcOK(p, Bare(p))
  BY NoneNoDev DEF Bare, NoJob, Dev, SrcOK, Vol
<1>3. StageOf("ok", Bare(p)) = Stage(p)
  BY <1>1, <1>2 DEF Stage, StageOf, Before, DeleteRequests
<1>. QED BY <1>1, <1>2, <1>3, RequestRests

-----------------------------------------------------------------------------
(* delete_vm and the rollback *)

LEMMA AtDelete ==
    ASSUME TypeOK, ConfigAt, NEW p \in Proc, pc[p] \in DeleteRequests
    PROVE  /\ job[p].op \in {"create_vm", "delete_vm"} /\ job[p].vm \in VM
           /\ job[p].dev # "config" /\ job[p] \in Job
           /\ Stage(p) = IF job[p].op = "create_vm" THEN "undoing"
                         ELSE IF pc[p] \in Before("delete_vm") THEN "asked" ELSE "done"
  BY OpAt, VMAt, Here DEF DeleteRequests, ConfigAt, ConfigRequests, Stage, StageOf, Before

LEMMA HasVMMoves == ASSUME TypeOK, ConfigAt, NEW p \in Proc, HasVM(p) PROVE Moves(p)
<1>. DEFINE j == job[p]
            next == IF Exists(j.vm) THEN "stop_vm" ELSE "delete_file"
<1>1. pc[p] = "has_vm" /\ Read(p, TRUE, next, j)
  BY DEF HasVM
<1>2. /\ j.op \in {"create_vm", "delete_vm"} /\ j.dev # "config"
      /\ Stage(p) = IF j.op = "create_vm" THEN "undoing" ELSE "asked"
  BY <1>1, AtDelete DEF DeleteRequests, Before
<1>3. CASE Exists(j.vm) \/ j.op = "create_vm"
  <2>1. StageOf(next, j) = Stage(p)
    BY <1>2, <1>3 DEF StageOf, Before, DeleteRequests
  <2>. QED BY <1>1, <1>2, <2>1, ReadRests, SrcSame
<1>4. CASE ~Exists(j.vm) /\ j.op = "delete_vm"
  <2>1. /\ Goto(p, "delete_file", j) \/ Abort(p)
        /\ UNCHANGED <<server, director>> /\ SameInstances /\ SameThere
    BY <1>1, <1>4 DEF Read, Request, SameInstances, SameThere, server
  <2>2. CASE Abort(p)
    BY <1>1, <2>1, <2>2, FailRests
  <2>3. CASE Goto(p, "delete_file", j)
    <3>1. SameCall(p) /\ Stage(p)' = StageOf("delete_file", j) /\ pc'[p] = "delete_file" /\ job'[p] = j
      BY <1>1, <2>1, <2>3, NextStage, SrcSame DEF director
    <3>2. StageOf("delete_file", j) = "done"
      BY <1>4 DEF StageOf, Before, DeleteRequests
    <3>. QED BY <1>2, <1>4, <2>1, <3>1, <3>2, SrcSame DEF Moves, Skips
  <2>. QED BY <2>1, <2>2, <2>3
<1>. QED BY <1>2, <1>3, <1>4

LEMMA StopVMRests == ASSUME TypeOK, ConfigAt, NEW p \in Proc, StopVM(p) PROVE Moves(p)
<1>1. /\ pc[p] = "stop_vm"
      /\ Goto(p, "list_disks", job[p]) \/ Abort(p)
      /\ UNCHANGED director /\ SameInstances /\ SameThere
  BY DEF StopVM, Request, StopInstance, server, SameInstances, SameThere
<1>2. /\ job[p].op \in {"create_vm", "delete_vm"} /\ job[p].dev # "config"
      /\ Stage(p) = IF job[p].op = "create_vm" THEN "undoing" ELSE "asked"
  BY <1>1, AtDelete DEF DeleteRequests, Before
<1>3. StageOf("list_disks", job[p]) = Stage(p)
  BY <1>2 DEF StageOf, Before, DeleteRequests
<1>. QED BY <1>1, <1>2, <1>3, RequestRests, SrcSame

LEMMA ListDisksRests == ASSUME TypeOK, ConfigAt, NEW p \in Proc, ListDisks(p) PROVE Moves(p)
<1>. DEFINE j == job[p]
            work == [j EXCEPT !.trash = {devs[j.vm]["config"], devs[j.vm]["ephemeral"]} \ {None}]
<1>1. pc[p] = "list_disks" /\ Read(p, Exists(j.vm), "delete_instance", work)
  BY DEF ListDisks
<1>2. /\ j.op \in {"create_vm", "delete_vm"} /\ j.dev # "config" /\ j \in Job
      /\ Stage(p) = IF j.op = "create_vm" THEN "undoing" ELSE "asked"
  BY <1>1, AtDelete DEF DeleteRequests, Before
<1>3. work.op = j.op /\ work.vm = j.vm /\ work.disk = j.disk /\ work.dev = j.dev /\ SrcOK(p, work)
  BY <1>2 DEF Job, SrcOK
<1>. HIDE DEF work
<1>4. StageOf("delete_instance", work) = Stage(p)
  BY <1>2, <1>3 DEF StageOf, Before, DeleteRequests
<1>. QED BY <1>1, <1>2, <1>3, <1>4, ReadRests

LEMMA DeleteInstanceMoves == ASSUME TypeOK, ConfigAt, NEW p \in Proc, DeleteInstanceStep(p) PROVE Moves(p)
<1>. DEFINE j == job[p]
            next == IF j.trash = {} THEN "delete_file" ELSE "delete_volumes"
<1>1. pc[p] = "delete_instance" /\ Request(p, CanDeleteInstance(j.vm), DeleteInstance(j.vm), next, j)
  BY DEF DeleteInstanceStep
<1>2. /\ j.op \in {"create_vm", "delete_vm"} /\ j.dev # "config"
      /\ Stage(p) = IF j.op = "create_vm" THEN "undoing" ELSE "asked"
  BY <1>1, AtDelete DEF DeleteRequests, Before
<1>3. StageOf(next, j) = IF j.op = "create_vm" THEN "undoing" ELSE "done"
  BY <1>2 DEF StageOf, Before, DeleteRequests
<1>4. CASE Abort(p) /\ UNCHANGED server
  BY <1>1, <1>4, FailRests DEF Request
<1>5. CASE DeleteInstance(j.vm) /\ (Goto(p, next, j) \/ Abort(p))
  <2>1. UNCHANGED director /\ SameThere
    BY <1>1, <1>5 DEF Request, DeleteInstance, SameThere
  <2>2. /\ SameCall(p) /\ pc'[p] # "detach_put" /\ job'[p].dev # "config" /\ SrcOK(p, job'[p])
        /\ Stage(p)' \in {StageOf(next, j), "failed"}
    <3>1. CASE Abort(p)
      BY <1>1, <1>2, <2>1, <3>1, AbortStage DEF GivesUp
    <3>2. CASE Goto(p, next, j)
      BY <1>1, <1>2, <2>1, <3>2, NextStage, SrcSame
    <3>. QED BY <1>5, <3>1, <3>2
  <2>. QED BY <1>2, <1>3, <1>5, <2>1, <2>2 DEF Moves, ClearsVM, TakesEffect, DeleteInstance
<1>. QED BY <1>1, <1>4, <1>5 DEF Request

LEMMA DeleteVolumesRests == ASSUME TypeOK, ConfigAt, NEW p \in Proc, DeleteVolumes(p) PROVE Moves(p)
<1>. DEFINE j == job[p]
            next(x) == IF j.trash = {x} THEN "delete_file" ELSE "delete_volumes"
            work(x) == [j EXCEPT !.trash = @ \ {x}]
<1>1. PICK x \in j.trash : Request(p, CanDeleteVolume(x), DeleteVolume(x), next(x), work(x))
  BY DEF DeleteVolumes
<1>2. /\ pc[p] = "delete_volumes" /\ j.op \in {"create_vm", "delete_vm"} /\ j.dev # "config"
      /\ Stage(p) = IF j.op = "create_vm" THEN "undoing" ELSE "done"
      /\ j \in Job /\ x \in ConfVol \cup EphVol
  BY AtDelete DEF DeleteVolumes, DeleteRequests, Before, Job
<1>3. /\ work(x).op = j.op /\ work(x).vm = j.vm /\ work(x).disk = j.disk /\ work(x).dev = j.dev
      /\ next(x) \in {"delete_file", "delete_volumes"} /\ SrcOK(p, work(x))
  BY <1>2 DEF Job, SrcOK
<1>. HIDE DEF work, next
<1>4. /\ Goto(p, next(x), work(x)) \/ Abort(p)
      /\ UNCHANGED director /\ SameInstances
      /\ UNCHANGED vols \/ \E new : vols' = [vols EXCEPT ![x] = new]
  BY <1>1 DEF Request, DeleteVolume, server, SameInstances
<1>5. SameThere
  BY <1>2, <1>4, OtherDisks
<1>6. StageOf(next(x), work(x)) = Stage(p)
  BY <1>2, <1>3 DEF StageOf, Before, DeleteRequests
<1>. QED BY <1>2, <1>3, <1>4, <1>5, <1>6, RequestRests

LEMMA DeleteFileRests == ASSUME TypeOK, ConfigAt, NEW p \in Proc, DeleteFile(p) PROVE Moves(p)
<1>. DEFINE next == IF job[p].op = "delete_vm" THEN "ok" ELSE "failed"
<1>1. /\ pc[p] = "delete_file" /\ (Goto(p, next, Bare(p)) \/ Abort(p))
      /\ UNCHANGED <<server, director>> /\ SameInstances /\ SameThere
  BY DEF DeleteFile, server, SameInstances, SameThere
<1>2. /\ job[p].op \in {"create_vm", "delete_vm"}
      /\ Stage(p) = IF job[p].op = "create_vm" THEN "undoing" ELSE "done"
  BY <1>1, AtDelete DEF DeleteRequests, Before
<1>3. /\ Bare(p).op = job[p].op /\ Bare(p).vm = job[p].vm /\ Bare(p).disk = job[p].disk
      /\ Bare(p).dev # "config" /\ SrcOK(p, Bare(p))
  BY NoneNoDev DEF Bare, NoJob, Dev, SrcOK, Vol
<1>4. CASE Abort(p)
  BY <1>1, <1>4, FailRests
<1>5. CASE Goto(p, next, Bare(p))
  <2>1. SameCall(p) /\ Stage(p)' = StageOf(next, Bare(p)) /\ pc'[p] = next /\ job'[p] = Bare(p)
    BY <1>1, <1>3, <1>5, NextStage DEF director
  <2>2. StageOf(next, Bare(p)) = IF job[p].op = "delete_vm" THEN "done" ELSE "failed"
    BY <1>3 DEF StageOf, Before, DeleteRequests
  <2>. QED BY <1>1, <1>2, <1>3, <2>1, <2>2 DEF Moves, Rests, GoesOn, GivesUp
<1>. QED BY <1>1, <1>4, <1>5

-----------------------------------------------------------------------------
(* The requests with an effect that the contract knows *)

\* The effect of a call that has been asked for, through or not.
LEMMA Effective ==
    ASSUME TypeOK, NEW p \in Proc, Stage(p) = "asked", pc[p] \notin {"idle", "ok", "failed"},
           NEW next, NEW work, next \notin {"idle", "detach_put"},
           work.op = job[p].op, work.vm = job[p].vm, work.disk = job[p].disk,
           work.dev # "config", SrcOK(p, work), StageOf(next, work) = "done",
           Goto(p, next, work) \/ Abort(p), UNCHANGED director
    PROVE  /\ SameCall(p) /\ TakesEffect(p)
           /\ job'[p].dev # "config" /\ pc'[p] # "detach_put" /\ SrcOK(p, job'[p])
<1>1. CASE Abort(p)
  BY <1>1, AbortStage DEF GivesUp, TakesEffect
<1>2. CASE Goto(p, next, work)
  BY <1>2, NextStage DEF TakesEffect
<1>. QED BY <1>1, <1>2

LEMMA BareWork ==
    ASSUME NEW p \in Proc
    PROVE  /\ Bare(p).op = job[p].op /\ Bare(p).vm = job[p].vm /\ Bare(p).disk = job[p].disk
           /\ Bare(p).dev = None /\ None # "config" /\ SrcOK(p, Bare(p))
  BY NoneNoDev DEF Bare, NoJob, Dev, SrcOK, Vol

LEMMA CreateInstanceMoves == ASSUME TypeOK, ConfigAt, NEW p \in Proc, CreateInstanceStep(p) PROVE Moves(p)
<1>. DEFINE j == job[p]
<1>1. PICK n \in Node : Request(p, ~Exists(j.vm), CreateInstance(j.vm, n), "locate", j)
  BY DEF CreateInstanceStep
<1>2. pc[p] = "create_instance" /\ j.op = "create_vm" /\ j.dev # "config"
  BY OpAt DEF CreateInstanceStep, ConfigAt, ConfigRequests
<1>3. Stage(p) = "asked" /\ StageOf("locate", j) = "done"
  BY <1>2 DEF Stage, StageOf, Before, DeleteRequests
<1>4. CASE Abort(p) /\ UNCHANGED server
  BY <1>1, <1>2, <1>4, FailRests DEF Request
<1>5. CASE /\ ~Exists(j.vm) /\ CreateInstance(j.vm, n)
           /\ Goto(p, "locate", j) \/ Abort(p)
  <2>1. /\ SameCall(p) /\ TakesEffect(p)
        /\ job'[p].dev # "config" /\ pc'[p] # "detach_put" /\ SrcOK(p, job'[p])
    BY <1>1, <1>2, <1>3, <1>5, Effective, SrcSame DEF Request
  <2>2. UNCHANGED <<devs, vols>> /\ host' = [host EXCEPT ![j.vm] = n]
    BY <1>5 DEF CreateInstance
  <2>. QED BY <1>2, <1>5, <2>1, <2>2 DEF Moves, MakesVM, SameThere
<1>. QED BY <1>1, <1>4, <1>5 DEF Request

LEMMA CreateDiskMoves == ASSUME TypeOK, ConfigAt, NEW p \in Proc, CreateDisk(p) PROVE Moves(p)
<1>. DEFINE x == job[p].disk
            n == job[p].node
<1>1. Request(p, vols[x] = {}, CreateVolume(x, n), "ok", Bare(p))
  BY DEF CreateDisk
<1>2. pc[p] = "create_disk" /\ job[p].op = "create_disk" /\ job[p].dev # "config" /\ x \in Disk
  BY OpAt, Here DEF CreateDisk, ConfigAt, ConfigRequests, JobOK, DiskOps
<1>3. Stage(p) = "asked" /\ StageOf("ok", Bare(p)) = "done"
  BY <1>2, BareWork DEF Stage, StageOf, Before, DeleteRequests
<1>4. CASE Abort(p) /\ UNCHANGED server
  BY <1>1, <1>2, <1>4, FailRests DEF Request
<1>5. CASE vols[x] = {} /\ CreateVolume(x, n) /\ (Goto(p, "ok", Bare(p)) \/ Abort(p))
  <2>1. /\ SameCall(p) /\ TakesEffect(p)
        /\ job'[p].dev # "config" /\ pc'[p] # "detach_put" /\ SrcOK(p, job'[p])
    BY <1>1, <1>2, <1>3, <1>5, Effective, BareWork DEF Request
  <2>2. SameInstances /\ vols' = [vols EXCEPT ![x] = {n}]
    BY <1>5 DEF CreateVolume, SameInstances
  <2>3. vols'[x] = {n} /\ \A d \in Disk \ {x} : vols'[d] = vols[d]
    BY <1>2, <2>2 DEF TypeOK, ServerTypeOK, Vol
  <2>. QED BY <1>2, <1>5, <2>1, <2>2, <2>3 DEF Moves, MakesDisk
<1>. QED BY <1>1, <1>4, <1>5 DEF Request

LEMMA DeleteDiskMoves == ASSUME TypeOK, ConfigAt, NEW p \in Proc, DeleteDisk(p) PROVE Moves(p)
<1>. DEFINE x == job[p].disk
<1>1. Request(p, CanDeleteVolume(x), DeleteVolume(x), "ok", Bare(p))
  BY DEF DeleteDisk
<1>2. pc[p] = "delete_disk" /\ job[p].op = "delete_disk" /\ job[p].dev # "config" /\ x \in Disk
  BY OpAt, Here DEF DeleteDisk, ConfigAt, ConfigRequests, JobOK, DiskOps
<1>3. Stage(p) = "asked" /\ StageOf("ok", Bare(p)) = "done"
  BY <1>2, BareWork DEF Stage, StageOf, Before, DeleteRequests
<1>4. CASE Abort(p) /\ UNCHANGED server
  BY <1>1, <1>2, <1>4, FailRests DEF Request
<1>5. CASE CanDeleteVolume(x) /\ DeleteVolume(x) /\ (Goto(p, "ok", Bare(p)) \/ Abort(p))
  <2>1. /\ SameCall(p) /\ TakesEffect(p)
        /\ job'[p].dev # "config" /\ pc'[p] # "detach_put" /\ SrcOK(p, job'[p])
    BY <1>1, <1>2, <1>3, <1>5, Effective, BareWork DEF Request
  <2>2. SameInstances /\ vols' = [vols EXCEPT ![x] = {}] /\ UsedBy(x) = {}
    BY <1>5 DEF DeleteVolume, CanDeleteVolume, SameInstances
  <2>3. vols'[x] = {} /\ \A d \in Disk \ {x} : vols'[d] = vols[d]
    BY <1>2, <2>2 DEF TypeOK, ServerTypeOK, Vol
  <2>. QED BY <1>2, <2>1, <2>2, <2>3 DEF Moves, RemovesDisk
<1>. QED BY <1>1, <1>4, <1>5 DEF Request

LEMMA CopyRests == ASSUME TypeOK, ConfigAt, NEW p \in Proc, CopyVolumeStep(p) PROVE Moves(p)
<1>. DEFINE j == job[p]
            x == job[p].disk
<1>1. /\ pc[p] = "copy_volume" /\ j.op = "attach_disk" /\ j.dev # "config" /\ x \in Disk
      /\ Request(p, CanCopyVolume(x, j.node, j.to), CopyVolume(x, j.to), "drop_source", j)
  BY OpAt, Here DEF CopyVolumeStep, ConfigAt, ConfigRequests, JobOK
<1>2. /\ Goto(p, "drop_source", j) \/ Abort(p)
      /\ UNCHANGED director /\ SameInstances
      /\ vols' = vols \/ (vols' = [vols EXCEPT ![x] = @ \cup {j.to}] /\ j.node \in vols[x])
  BY <1>1 DEF Request, CanCopyVolume, CopyVolume, server, SameInstances
<1>3. SameThere
  <2>1. CASE vols' = vols
    BY <2>1 DEF SameThere
  <2>2. CASE vols' = [vols EXCEPT ![x] = @ \cup {j.to}] /\ j.node \in vols[x]
    <3>1. vols'[x] = vols[x] \cup {j.to} /\ \A d \in Disk \ {x} : vols'[d] = vols[d]
      BY <1>1, <2>2 DEF TypeOK, ServerTypeOK, Vol
    <3>. QED BY <2>2, <3>1 DEF SameThere
  <2>. QED BY <1>2, <2>1, <2>2
<1>4. StageOf("drop_source", j) = Stage(p)
  BY <1>1 DEF Stage, StageOf, Before, DeleteRequests
<1>. QED BY <1>1, <1>2, <1>3, <1>4, RequestRests, SrcSame

\* The last copy is never dropped.
LEMMA DropRests ==
    ASSUME TypeOK, SourceHasCopy, ConfigAt, NEW p \in Proc, DropSource(p)
    PROVE  Moves(p)
<1>. DEFINE j == job[p]
            x == job[p].disk
            work == [j EXCEPT !.node = None, !.to = None]
<1>1. /\ pc[p] = "drop_source" /\ j.op = "attach_disk" /\ j.dev # "config" /\ x \in Disk /\ j \in Job
      /\ Request(p, CanDropCopy(x, j.node), DropCopy(x, j.node), "attach_get", work)
  BY OpAt, Here DEF DropSource, ConfigAt, ConfigRequests, JobOK
<1>2. /\ work.op = j.op /\ work.vm = j.vm /\ work.disk = j.disk /\ work.dev = j.dev /\ SrcOK(p, work)
  BY <1>1 DEF Job, SrcOK
<1>. HIDE DEF work
<1>3. /\ Goto(p, "attach_get", work) \/ Abort(p)
      /\ UNCHANGED director /\ SameInstances
      /\ vols' = vols \/ vols' = [vols EXCEPT ![x] = @ \ {j.node}]
  BY <1>1 DEF Request, DropCopy, server, SameInstances
<1>4. SameThere
  <2>1. CASE vols' = vols
    BY <2>1 DEF SameThere
  <2>2. CASE vols' = [vols EXCEPT ![x] = @ \ {j.node}]
    <3>1. vols'[x] = vols[x] \ {j.node} /\ \A d \in Disk \ {x} : vols'[d] = vols[d]
      BY <1>1, <2>2 DEF TypeOK, ServerTypeOK, Vol
    <3>2. \E n \in vols[x] : n # j.node
      BY <1>1 DEF SourceHasCopy
    <3>. QED BY <3>1, <3>2 DEF SameThere
  <2>. QED BY <1>3, <2>1, <2>2
<1>5. StageOf("attach_get", work) = Stage(p)
  BY <1>1, <1>2 DEF Stage, StageOf, Before, DeleteRequests
<1>. QED BY <1>1, <1>2, <1>3, <1>4, <1>5, RequestRests DEF ConfigRequests

LEMMA DetachGetMoves == ASSUME TypeOK, ConfigAt, NEW p \in Proc, DetachGet(p) PROVE Moves(p)
<1>. DEFINE j == job[p]
            v == job[p].vm
            work(d) == [j EXCEPT !.dev = d, !.seen = devs[v]]
<1>1. /\ pc[p] = "detach_get" /\ j.op = "detach_disk" /\ j.dev # "config" /\ j \in Job
      /\ v \in VM /\ j.disk \in Disk /\ devs[v] \in DevTable
  BY OpAt, Here, VMAt, DevsType DEF DetachGet, ConfigAt, ConfigRequests, JobOK
<1>2. Stage(p) = "asked" /\ StageOf("read_env", j) = "done"
  BY <1>1 DEF Stage, StageOf, Before, DeleteRequests
<1>3. ASSUME {d \in Dev : devs[v][d] = j.disk} = {}, Read(p, Exists(v), "read_env", j)
      PROVE  Moves(p)
  <2>1. /\ Goto(p, "read_env", j) \/ Abort(p)
        /\ UNCHANGED <<server, director>> /\ SameInstances /\ SameThere
    BY <1>3 DEF Read, Request, SameInstances, SameThere, server
  <2>2. j.disk \notin Sources(v)
    BY <1>3 DEF Sources
  <2>3. CASE Abort(p)
    BY <1>1, <2>1, <2>3, FailRests
  <2>4. CASE Goto(p, "read_env", j)
    <3>1. SameCall(p) /\ Stage(p)' = "done" /\ pc'[p] = "read_env" /\ job'[p] = j
      BY <1>1, <1>2, <2>1, <2>4, NextStage, SrcSame DEF director
    <3>. QED BY <1>1, <1>2, <2>1, <2>2, <3>1, SrcSame DEF Moves, Skips
  <2>. QED BY <2>1, <2>3, <2>4
<1>4. ASSUME NEW d \in Dev, devs[v][d] = j.disk, Read(p, Exists(v), "detach_put", work(d))
      PROVE  Moves(p)
  <2>1. d # "config"
    BY <1>1, <1>4, StrongDisjoint DEF DevTable, Backing, Dev, Vol
  <2>2. /\ work(d).op = j.op /\ work(d).vm = v /\ work(d).disk = j.disk /\ work(d).dev = d
        /\ SrcOK(p, work(d)) /\ Found(work(d))
    BY <1>1, <1>4 DEF Job, SrcOK, Found
  <2>3. Read(p, Exists(v), "detach_put", work(d))
    BY <1>4
  <2>. HIDE DEF work
  <2>4. StageOf("detach_put", work(d)) = Stage(p)
    BY <1>1, <1>2, <2>1, <2>2 DEF StageOf, Before, DeleteRequests
  <2>. QED BY <1>1, <2>1, <2>2, <2>3, <2>4, ReadRests
<1>. QED BY <1>3, <1>4 DEF DetachGet

\* The table that was read is still there, since no other call works on the VM.
LEMMA DetachPutMoves ==
    ASSUME TypeOK, ConfigAt, TableRead, NEW p \in Proc, DetachPut(p)
    PROVE  Moves(p)
<1>. DEFINE j == job[p]
            v == job[p].vm
            table == [j.seen EXCEPT ![j.dev] = None]
            next == IF j.dev = "config" THEN "check_stopped" ELSE "read_env"
            work == IF j.dev = "config" THEN [j EXCEPT !.seen = None] ELSE Bare(p)
<1>1. /\ pc[p] = "detach_put" /\ j \in Job /\ v \in VM
      /\ j.seen = devs[v]
      /\ j.dev # "config" => devs[v][j.dev] = j.disk /\ j.dev \in PersistentDev /\ j.op = "detach_disk"
      /\ j.op \in {"create_vm", "attach_disk", "detach_disk"}
  BY Here, VMAt, OpAt DEF DetachPut, TableRead, Found, JobOK, WriteRequests
<1>2. /\ Request(p, CanPutDevices(v, table), PutDevices(v, table), next, work)
      /\ next \in {"check_stopped", "read_env"}
  BY DEF DetachPut
<1>3. /\ work.op = j.op /\ work.vm = v /\ work.disk = j.disk /\ SrcOK(p, work)
      /\ IF j.dev = "config" THEN next = "check_stopped" /\ work.dev = "config"
         ELSE next = "read_env" /\ work.dev # "config"
  BY <1>1, BareWork DEF Job, SrcOK
<1>. HIDE DEF work, next
<1>4. CASE Abort(p) /\ UNCHANGED server
  BY <1>1, <1>2, <1>4, FailRests DEF Request
<1>5. CASE CanPutDevices(v, table) /\ PutDevices(v, table) /\ (Goto(p, next, work) \/ Abort(p))
  <2>1. /\ UNCHANGED <<director, host>> /\ SameThere /\ Exists(v)
        /\ OneDevice(v, j.dev, None)
    BY <1>1, <1>2, <1>5 DEF Request, PutDevices, CanPutDevices, SameThere, OneDevice
  <2>2. CASE j.dev = "config"
    <3>1. Stage(p) = "done" /\ StageOf(next, work) = "done"
      BY <1>1, <1>3, <2>2 DEF Stage, StageOf, Before, DeleteRequests
    <3>2. /\ SameCall(p) /\ GoesOn(p) /\ pc'[p] # "detach_put" /\ SrcOK(p, job'[p])
          /\ job'[p].dev = "config" => pc'[p] \in ConfigRequests
      <4>1. CASE Abort(p)
        BY <1>1, <2>1, <4>1, AbortStage DEF GoesOn, director
      <4>2. CASE Goto(p, next, work)
        BY <1>1, <1>2, <1>3, <2>1, <2>2, <3>1, <4>2, NextStage DEF GoesOn, ConfigRequests, director
      <4>. QED BY <1>5, <4>1, <4>2
    <3>. QED BY <1>1, <2>1, <2>2, <3>2 DEF Moves, Equips, Dev, PersistentDev
  <2>3. CASE j.dev # "config"
    <3>1. Stage(p) = "asked" /\ StageOf(next, work) = "done"
      BY <1>1, <1>3, <2>3 DEF Stage, StageOf, Before, DeleteRequests
    <3>2. /\ SameCall(p) /\ TakesEffect(p)
          /\ job'[p].dev # "config" /\ pc'[p] # "detach_put" /\ SrcOK(p, job'[p])
      BY <1>1, <1>3, <1>5, <2>1, <2>3, <3>1, Effective DEF director
    <3>. QED BY <1>1, <2>1, <2>3, <3>2 DEF Moves, Detaches
  <2>. QED BY <2>2, <2>3
<1>. QED BY <1>2, <1>4, <1>5 DEF Request

\* The etag: the table is the one that was read.
LEMMA AttachPutMoves ==
    ASSUME TypeOK, ConfigAt, SourceIsOwn, NameFree, NEW p \in Proc, AttachPut(p)
    PROVE  Moves(p)
<1>. DEFINE j == job[p]
            v == job[p].vm
            table == [j.seen EXCEPT ![j.dev] = j.src]
            next == AfterAttach(p)
            work == IF j.dev = "config" THEN Bare(p) ELSE [Bare(p) EXCEPT !.env = WithAttached(j)]
<1>1. /\ pc[p] = "attach_put" /\ j \in Job /\ v \in VM
      /\ j.seen[j.dev] = None /\ j.src # None /\ j.dev \in Dev /\ j.src \in Backing(j.dev)
      /\ j.op \in {"create_vm", "attach_disk", "detach_disk"}
  <2>1. pc[p] = "attach_put" /\ j \in Job /\ JobOK(pc[p], j)
    BY Here DEF AttachPut
  <2>. QED BY <2>1, VMAt, OpAt DEF NameFree, JobOK, WriteRequests, Job
<1>2. /\ Request(p, devs[v] = j.seen /\ CanPutDevices(v, table), PutDevices(v, table), next, work)
      /\ next \in {"write_env", "start_vm", "ok"}
  BY DEF AttachPut, AfterAttach
<1>3. /\ work.op = j.op /\ work.vm = v /\ work.disk = j.disk /\ work.dev = None /\ None # "config"
      /\ SrcOK(p, work)
      /\ next = "start_vm" => j.op = "create_vm"
  BY <1>1, BareWork DEF Bare, NoJob, SrcOK, AfterAttach
<1>4. StageOf(next, work) = "done"
  BY <1>1, <1>2, <1>3 DEF StageOf, Before, DeleteRequests
<1>. HIDE DEF work, next
<1>5. CASE Abort(p) /\ UNCHANGED server
  BY <1>1, <1>2, <1>5, FailRests DEF Request
<1>6. CASE /\ devs[v] = j.seen /\ CanPutDevices(v, table) /\ PutDevices(v, table)
           /\ Goto(p, next, work) \/ Abort(p)
  <2>1. /\ UNCHANGED <<director, host>> /\ SameThere /\ Exists(v)
        /\ OneDevice(v, j.dev, j.src)
    BY <1>1, <1>2, <1>6 DEF Request, PutDevices, CanPutDevices, SameThere, OneDevice
  <2>2. CASE j.dev \notin PersistentDev
    <3>1. j.src \in ConfVol \cup EphVol /\ (j.dev # "config" => j.op = "create_vm")
      BY <1>1, <2>2 DEF Backing, Dev, SourceIsOwn, PersistentDev
    <3>2. Stage(p) = "done"
      BY <1>1, <3>1 DEF Stage, StageOf, Before, DeleteRequests
    <3>3. /\ SameCall(p) /\ GoesOn(p) /\ pc'[p] # "detach_put" /\ SrcOK(p, job'[p])
          /\ job'[p].dev # "config"
      <4>1. CASE Abort(p)
        BY <1>1, <2>1, <4>1, AbortStage DEF GoesOn, director
      <4>2. CASE Goto(p, next, work)
        BY <1>1, <1>2, <1>3, <1>4, <2>1, <3>2, <4>2, NextStage DEF GoesOn, director
      <4>. QED BY <1>6, <4>1, <4>2
    <3>. QED BY <1>1, <2>1, <2>2, <3>1, <3>3 DEF Moves, Equips
  <2>3. CASE j.dev \in PersistentDev
    <3>1. j.src \in Disk /\ j.op = "attach_disk" /\ j.src = j.disk /\ j.dev # "config"
      BY <1>1, <2>3 DEF Backing, PersistentDev, SourceIsOwn
    <3>2. Stage(p) = "asked"
      BY <1>1, <3>1 DEF Stage, StageOf, Before, DeleteRequests
    <3>3. /\ SameCall(p) /\ TakesEffect(p)
          /\ job'[p].dev # "config" /\ pc'[p] # "detach_put" /\ SrcOK(p, job'[p])
      BY <1>1, <1>2, <1>3, <1>4, <1>6, <2>1, <3>2, Effective DEF director
    <3>4. table[j.dev] = j.src
      BY <1>1, <1>6, DevsType DEF DevTable
    <3>5. vols[j.disk] # {} /\ UsedBy(j.disk) \subseteq {v}
      BY <1>1, <1>6, <3>1, <3>4 DEF CanPutDevices
    <3>. QED BY <1>1, <1>6, <2>1, <2>3, <3>1, <3>3, <3>5 DEF Moves, Attaches
  <2>. QED BY <2>2, <2>3
<1>. QED BY <1>2, <1>5, <1>6 DEF Request

LEMMA StepMoves ==
    ASSUME DiskInv, NameFree, ConfigAt, TableRead, SourceIsOwn, NEW p \in Proc, Step(p), ~Reply(p)
    PROVE  Moves(p)
  BY LocateRests, AttachGetRests, ConfigGetRests, FindConfigRests, CheckStoppedRests, ReadEnvRests,
     ColocateRests, WriteEnvRests, CreateConfigRests, DeleteConfigRests, CreateEphemeralRests,
     StartVMRests, HasVMMoves, StopVMRests, ListDisksRests, DeleteInstanceMoves, DeleteVolumesRests,
     DeleteFileRests, CreateInstanceMoves, CreateDiskMoves, DeleteDiskMoves, CopyRests, DropRests,
     DetachGetMoves, DetachPutMoves, AttachPutMoves
  DEF Step, DiskInv

-----------------------------------------------------------------------------
(* Which disks are on which VMs after a step *)

LEMMA SourcesAre ==
    ASSUME NEW v \in VM, NEW d \in Disk
    PROVE  /\ d \in Sources(v) <=> \E b \in Dev : devs[v][b] = d
           /\ (d \in Sources(v))' <=> \E b \in Dev : devs'[v][b] = d
  BY NoneNoDev DEF Sources

LEMMA TableAfter ==
    ASSUME TypeOK, NEW v \in VM, NEW a \in Dev, NEW x, OneDevice(v, a, x)
    PROVE  \A w \in VM, b \in Dev : devs'[w][b] = IF w = v /\ b = a THEN x ELSE devs[w][b]
<1>1. devs'[v] = [devs[v] EXCEPT ![a] = x] /\ \A w \in VM \ {v} : devs'[w] = devs[w]
  BY DEF OneDevice, TypeOK, ServerTypeOK
<1>2. devs[v] = [b \in Dev |-> devs[v][b]]
  BY DevsType DEF DevTable
<1>. QED BY <1>1, <1>2

LEMMA InVM ==
    ASSUME TypeOK, NEW p \in Proc, job[p].op \in VMOps
    PROVE  job[p].vm \in VM
  BY Here DEF JobOK

\* The steps that change no instance and no disk of an instance.
Elsewhere(p) == Rests(p) \/ Skips(p) \/ Equips(p) \/ MakesDisk(p) \/ RemovesDisk(p)

LEMMA ElsewhereSources ==
    ASSUME TypeOK, NEW p \in Proc, Elsewhere(p), NEW v \in VM, NEW d \in Disk
    PROVE  /\ Exists(v)' <=> Exists(v)
           /\ (d \in Sources(v))' <=> d \in Sources(v)
           /\ v # job[p].vm => devs'[v] = devs[v]
           /\ \A a, b \in Dev : (devs'[v][a] = d <=> devs[v][a] = d)
<1>1. CASE SameInstances
  BY <1>1 DEF SameInstances, Exists, Sources
<1>2. CASE Equips(p)
  <2>1. PICK a \in Dev \ PersistentDev, x \in ConfVol \cup EphVol \cup {None} :
           OneDevice(job[p].vm, a, x) /\ job[p].vm \in VM /\ UNCHANGED host
    BY <1>2 DEF Equips
  <2>2. \A b \in Dev : devs'[v][b] = IF v = job[p].vm /\ b = a THEN x ELSE devs[v][b]
    BY <2>1, TableAfter
  <2>3. x # d /\ devs[v][a] # d
    <3>1. devs[v][a] \in ConfVol \cup EphVol \cup {None}
      BY <2>1, DevsType DEF DevTable, Backing, Dev, PersistentDev
    <3>. QED BY <3>1, StrongDisjoint, NoneNoDev DEF Vol
  <2>4. \A b \in Dev : devs'[v][b] = d <=> devs[v][b] = d
    BY <2>2, <2>3
  <2>5. v # job[p].vm => devs'[v] = devs[v]
    BY <2>1 DEF OneDevice, TypeOK, ServerTypeOK
  <2>. QED BY <2>1, <2>4, <2>5, SourcesAre DEF Exists
<1>. QED BY <1>1, <1>2 DEF Elsewhere, Rests, Skips, MakesDisk, RemovesDisk, SameInstances

LEMMA MakesSources ==
    ASSUME TypeOK, NEW p \in Proc, MakesVM(p), NEW v \in VM, NEW d \in Disk
    PROVE  /\ Exists(v)' <=> Exists(v) \/ v = job[p].vm
           /\ UNCHANGED devs /\ ((d \in Sources(v))' <=> d \in Sources(v))
<1>1. UNCHANGED devs /\ \E n \in Node : host' = [host EXCEPT ![job[p].vm] = n]
  BY DEF MakesVM
<1>2. None \notin Node
  BY ServerAssumption
<1>. QED BY <1>1, <1>2 DEF Exists, Sources, TypeOK, ServerTypeOK

LEMMA ClearsSources ==
    ASSUME TypeOK, NEW p \in Proc, ClearsVM(p), NEW v \in VM, NEW d \in Disk
    PROVE  /\ Exists(v)' <=> Exists(v) /\ v # job[p].vm
           /\ (d \in Sources(v))' <=> d \in Sources(v) /\ v # job[p].vm
           /\ devs'[v] = IF v = job[p].vm THEN NoDevices ELSE devs[v]
<1>1. /\ host' = [host EXCEPT ![job[p].vm] = None]
      /\ devs' = [devs EXCEPT ![job[p].vm] = NoDevices]
  BY DEF ClearsVM
<1>2. devs'[v] = IF v = job[p].vm THEN NoDevices ELSE devs[v]
  BY <1>1 DEF TypeOK, ServerTypeOK
<1>3. \A b \in Dev : NoDevices[b] # d
  BY NoneNoDev DEF NoDevices
<1>4. Exists(v)' <=> Exists(v) /\ v # job[p].vm
  BY <1>1 DEF Exists, TypeOK, ServerTypeOK
<1>. QED BY <1>2, <1>3, <1>4, SourcesAre

LEMMA AttachesSources ==
    ASSUME TypeOK, NEW p \in Proc, Attaches(p), NEW v \in VM, NEW d \in Disk
    PROVE  /\ Exists(v)' <=> Exists(v)
           /\ (d \in Sources(v))' <=> d \in Sources(v) \/ (v = job[p].vm /\ d = job[p].disk)
           /\ v # job[p].vm => devs'[v] = devs[v]
           /\ \A b \in Dev : devs'[v][b] = d /\ ~(v = job[p].vm /\ d = job[p].disk) => devs[v][b] = d
           /\ job[p].disk \notin Sources(job[p].vm) =>
                  \A b, c \in Dev : devs'[v][b] = d /\ devs'[v][c] = d /\ b # c =>
                      devs[v][b] = d /\ devs[v][c] = d
<1>0. job[p].vm \in VM
  BY InVM DEF Attaches, VMOps
<1>1. PICK a \in Dev : /\ devs[job[p].vm][a] = None /\ UNCHANGED host
                       /\ OneDevice(job[p].vm, a, job[p].disk)
  BY DEF Attaches, Dev
<1>2. \A b \in Dev : devs'[v][b] = IF v = job[p].vm /\ b = a THEN job[p].disk ELSE devs[v][b]
  BY <1>0, <1>1, TableAfter
<1>3. v # job[p].vm => devs'[v] = devs[v]
  BY <1>0, <1>1 DEF OneDevice, TypeOK, ServerTypeOK
<1>4. Exists(v)' <=> Exists(v)
  BY <1>1 DEF Exists
<1>. QED BY <1>0, <1>1, <1>2, <1>3, <1>4, SourcesAre, NoneNoDev

LEMMA DetachesSources ==
    ASSUME TypeOK, NEW p \in Proc, Detaches(p), NEW v \in VM, NEW d \in Disk
    PROVE  /\ Exists(v)' <=> Exists(v)
           /\ ~(v = job[p].vm /\ d = job[p].disk) => ((d \in Sources(v))' <=> d \in Sources(v))
           /\ (d \in Sources(v))' => d \in Sources(v)
           /\ Once /\ Clean(job[p].vm) => \A b \in Dev : devs'[job[p].vm][b] # job[p].disk
           /\ v # job[p].vm => devs'[v] = devs[v]
           /\ \A b \in Dev : devs'[v][b] = d => devs[v][b] = d
<1>0. job[p].vm \in VM /\ job[p].disk \in Disk
  BY InVM, Here DEF Detaches, VMOps, JobOK
<1>1. PICK a \in Dev : /\ devs[job[p].vm][a] = job[p].disk /\ UNCHANGED host
                       /\ OneDevice(job[p].vm, a, None)
  BY DEF Detaches, Dev
<1>2. \A w \in VM, b \in Dev : devs'[w][b] = IF w = job[p].vm /\ b = a THEN None ELSE devs[w][b]
  BY <1>0, <1>1, TableAfter
<1>3. v # job[p].vm => devs'[v] = devs[v]
  BY <1>0, <1>1 DEF OneDevice, TypeOK, ServerTypeOK
<1>4. Exists(v)' <=> Exists(v)
  BY <1>1 DEF Exists
<1>5. \A b \in Dev : devs'[v][b] = d => devs[v][b] = d
  BY <1>2, NoneNoDev
<1>6. ~(v = job[p].vm /\ d = job[p].disk) => \A b \in Dev : devs'[v][b] = d <=> devs[v][b] = d
  BY <1>1, <1>2, NoneNoDev
<1>7. Once /\ Clean(job[p].vm) => \A b \in Dev : devs'[job[p].vm][b] # job[p].disk
  BY <1>0, <1>1, <1>2, NoneNoDev DEF Once
<1>. QED BY <1>0, <1>3, <1>4, <1>5, <1>6, <1>7, SourcesAre

-----------------------------------------------------------------------------
(* The invariant is inductive *)

\* A call changes the VM it is about only.
LEMMA MovesLocal ==
    ASSUME TypeOK, NEW p \in Proc, Moves(p), NEW v \in VM, v # job[p].vm
    PROVE  devs'[v] = devs[v] /\ (Exists(v)' <=> Exists(v))
<1>1. CASE SameInstances
  BY <1>1 DEF SameInstances, Exists
<1>2. CASE MakesVM(p)
  BY <1>2 DEF MakesVM, Exists, TypeOK, ServerTypeOK
<1>3. CASE ClearsVM(p)
  BY <1>3 DEF ClearsVM, Exists, TypeOK, ServerTypeOK
<1>4. CASE Attaches(p) \/ Detaches(p) \/ Equips(p)
  BY <1>4 DEF Attaches, Detaches, Equips, OneDevice, Exists, TypeOK, ServerTypeOK
<1>. QED BY <1>1, <1>2, <1>3, <1>4 DEF Moves, Rests, Skips, MakesDisk, RemovesDisk

LEMMA MovesSame ==
    ASSUME NEW p \in Proc, Moves(p), NEW q \in Proc
    PROVE  /\ job'[q].op = job[q].op /\ job'[q].vm = job[q].vm /\ job'[q].disk = job[q].disk
           /\ q # p => job'[q] = job[q] /\ pc'[q] = pc[q] /\ Stage(q)' = Stage(q)
           /\ UNCHANGED director
  BY DEF Moves, SameCall, Stage

\* What a call has done stays true of its VM.
LEMMA MovesDone ==
    ASSUME DiskInv, RefInv, NEW p \in Proc, Moves(p), TypeOK'
    PROVE  DeleteDone' /\ DetachDone' /\ AttachAsked'
<1>1. TypeOK
  BY DEF DiskInv
<1>2. ASSUME NEW q \in Proc, job[q].op = "delete_vm", Stage(q)' = "done"
      PROVE  ~Exists(job[q].vm)'
  <2>1. job[q].vm \in VM /\ job'[q].vm = job[q].vm
    BY <1>1, <1>2, InVM, MovesSame DEF VMOps
  <2>2. CASE q # p
    <3>1. job[q].vm # job[p].vm /\ Stage(q) = "done"
      BY <1>2, <2>1, <2>2, MovesSame, NoneNoDev DEF RefInv, OneCallPerVM
    <3>. QED BY <1>1, <1>2, <2>1, <3>1, MovesLocal DEF RefInv, DeleteDone, Exists
  <2>3. CASE q = p
    <3>1. CASE Rests(p) \/ Equips(p) \/ Skips(p)
      <4>1. ~Exists(job[p].vm)
        BY <1>2, <2>3, <3>1 DEF RefInv, DeleteDone, Rests, Equips, Skips, GoesOn, GivesUp
      <4>. QED BY <2>1, <2>3, <3>1, <4>1 DEF Rests, Equips, Skips, SameInstances, Exists
    <3>2. CASE ClearsVM(p)
      BY <1>1, <2>1, <2>3, <3>2 DEF ClearsVM, Exists, TypeOK, ServerTypeOK
    <3>. QED BY <1>2, <2>3, <3>1, <3>2 DEF Moves, MakesVM, Attaches, Detaches, MakesDisk, RemovesDisk
  <2>. QED BY <2>2, <2>3
<1>3. ASSUME NEW q \in Proc, job[q].op \in {"attach_disk", "detach_disk"},
             q # p, Clean(job[q].vm)
      PROVE  /\ job[q].disk \notin Sources(job[q].vm) =>
                    \A b \in Dev : devs'[job[q].vm][b] # job[q].disk
             /\ job[q].vm \in VM /\ job[q].disk \in Disk
  <2>1. job[q].vm \in VM /\ job[q].disk \in Disk
    BY <1>1, <1>3, InVM, Here DEF VMOps, JobOK
  <2>2. job[q].vm # job[p].vm
    BY <1>3, <2>1, NoneNoDev DEF RefInv, OneCallPerVM
  <2>. QED BY <1>1, <2>1, <2>2, MovesLocal, SourcesAre
<1>4. ASSUME NEW q \in Proc, job[q].op = "detach_disk", Stage(q)' = "done", Clean(job[q].vm)
      PROVE  \A b \in Dev : devs'[job[q].vm][b] # job[q].disk
  <2>1. job[q].vm \in VM /\ job[q].disk \in Disk
    BY <1>1, <1>4, InVM, Here DEF VMOps, JobOK
  <2>2. CASE q # p
    BY <1>3, <1>4, <2>2, MovesSame DEF RefInv, DetachDone
  <2>3. CASE q = p
    <3>1. CASE Rests(p) \/ Equips(p) \/ Skips(p)
      <4>1. job[p].disk \notin Sources(job[p].vm)
        BY <1>4, <2>3, <3>1 DEF RefInv, DetachDone, Rests, Equips, Skips, GoesOn, GivesUp
      <4>. QED BY <1>1, <2>1, <2>3, <3>1, <4>1, ElsewhereSources, SourcesAre DEF Elsewhere
    <3>2. CASE Detaches(p)
      BY <1>1, <1>4, <2>1, <2>3, <3>2, DetachesSources DEF RefInv
    <3>. QED BY <1>4, <2>3, <3>1, <3>2 DEF Moves, MakesVM, ClearsVM, Attaches, MakesDisk, RemovesDisk
  <2>. QED BY <2>2, <2>3
<1>5. ASSUME NEW q \in Proc, job[q].op = "attach_disk", Stage(q)' = "asked", Clean(job[q].vm)
      PROVE  \A b \in Dev : devs'[job[q].vm][b] # job[q].disk
  <2>1. job[q].vm \in VM /\ job[q].disk \in Disk
    BY <1>1, <1>5, InVM, Here DEF VMOps, JobOK
  <2>2. CASE q # p
    BY <1>3, <1>5, <2>2, MovesSame DEF RefInv, AttachAsked
  <2>3. CASE q = p
    <3>1. Rests(p) \/ Equips(p)
      BY <1>5, <2>3 DEF Moves, Skips, MakesVM, ClearsVM, Attaches, Detaches, MakesDisk, RemovesDisk,
                         TakesEffect
    <3>2. job[p].disk \notin Sources(job[p].vm)
      BY <1>5, <2>3, <3>1 DEF RefInv, AttachAsked, Rests, Equips, GoesOn, GivesUp
    <3>. QED BY <1>1, <2>1, <2>3, <3>1, <3>2, ElsewhereSources, SourcesAre DEF Elsewhere
  <2>. QED BY <2>2, <2>3
<1>6. DeleteDone'
  BY <1>2, MovesSame DEF DeleteDone, Exists
<1>7. DetachDone'
  BY <1>4, MovesSame DEF DetachDone, Clean, Sources, director
<1>8. AttachAsked'
  BY <1>5, MovesSame DEF AttachAsked, Clean, Sources, director
<1>. QED BY <1>6, <1>7, <1>8

\* The table of a VM stays as the call on it found it.
LEMMA MovesTables ==
    ASSUME DiskInv, RefInv, NEW p \in Proc, Moves(p), TypeOK'
    PROVE  GoneIsBare' /\ TableRead' /\ Once' /\ Owned'
<1>1. TypeOK
  BY DEF DiskInv
<1>2. GoneIsBare'
  <2>1. ASSUME NEW v \in VM, ~Exists(v)' PROVE devs'[v] = NoDevices
    <3>1. CASE v # job[p].vm
      BY <1>1, <2>1, <3>1, MovesLocal DEF RefInv, GoneIsBare
    <3>2. CASE SameInstances \/ MakesVM(p)
      <4>1. UNCHANGED devs /\ ~Exists(v)
        BY <1>1, <2>1, <3>2, ServerAssumption
        DEF SameInstances, MakesVM, Exists, TypeOK, ServerTypeOK
      <4>. QED BY <4>1 DEF RefInv, GoneIsBare
    <3>3. CASE ClearsVM(p) /\ v = job[p].vm
      BY <1>1, <3>3 DEF ClearsVM, TypeOK, ServerTypeOK
    <3>4. CASE (Attaches(p) \/ Detaches(p) \/ Equips(p)) /\ v = job[p].vm
      BY <2>1, <3>4 DEF Attaches, Detaches, Equips, Exists
    <3>. QED BY <3>1, <3>2, <3>3, <3>4 DEF Moves, Rests, Skips, MakesDisk, RemovesDisk
  <2>. QED BY <2>1 DEF GoneIsBare, Exists
<1>3. TableRead'
  <2>1. ASSUME NEW q \in Proc, pc'[q] = "detach_put"
        PROVE  Found(job'[q]) /\ devs'[job'[q].vm] = devs[job'[q].vm]
    <3>1. CASE q = p
      BY <2>1, <3>1 DEF Moves, SameInstances
    <3>2. CASE q # p
      <4>1. job'[q] = job[q] /\ pc[q] = "detach_put"
        BY <2>1, <3>2, MovesSame
      <4>2. job[q].vm \in VM
        BY <1>1, <4>1, VMAt
      <4>3. job[q].vm # job[p].vm
        BY <3>2, <4>2, NoneNoDev DEF RefInv, OneCallPerVM
      <4>. QED BY <1>1, <4>1, <4>2, <4>3, MovesLocal DEF RefInv, TableRead
    <3>. QED BY <3>1, <3>2
  <2>. QED BY <2>1 DEF TableRead, Found
<1>4. Once'
  <2>1. ASSUME NEW v \in VM, Clean(v), NEW a \in Dev, NEW b \in Dev, NEW d \in Disk,
               devs'[v][a] = d, devs'[v][b] = d
        PROVE  a = b
    <3>1. CASE devs[v][a] = d /\ devs[v][b] = d
      BY <2>1, <3>1 DEF RefInv, Once
    <3>2. CASE Elsewhere(p)
      BY <1>1, <2>1, <3>1, <3>2, ElsewhereSources
    <3>3. CASE MakesVM(p)
      BY <1>1, <2>1, <3>1, <3>3, MakesSources
    <3>4. CASE ClearsVM(p)
      BY <1>1, <2>1, <3>1, <3>4, ClearsSources, NoneNoDev DEF NoDevices
    <3>5. CASE Detaches(p)
      BY <1>1, <2>1, <3>1, <3>5, DetachesSources
    <3>6. CASE Attaches(p)
      <4>1. CASE v = job[p].vm
        <5>1. job[p].disk \notin Sources(job[p].vm)
          BY <2>1, <3>6, <4>1 DEF RefInv, AttachAsked, Attaches, TakesEffect
        <5>. QED BY <1>1, <2>1, <3>1, <3>6, <5>1, AttachesSources
      <4>2. CASE v # job[p].vm
        BY <1>1, <2>1, <3>1, <3>6, <4>2, AttachesSources
      <4>. QED BY <4>1, <4>2
    <3>. QED BY <3>2, <3>3, <3>4, <3>5, <3>6 DEF Moves, Elsewhere
  <2>. QED BY <2>1, MovesSame DEF Once, Clean, director
<1>5. Owned'
  <2>1. ASSUME NEW v \in VM, NEW d \in Disk, Clean(v), (d \in Sources(v))'
        PROVE  owner[d] = v
    <3>1. CASE d \in Sources(v)
      BY <2>1, <3>1 DEF RefInv, Owned
    <3>2. CASE Elsewhere(p) \/ MakesVM(p) \/ ClearsVM(p) \/ Detaches(p)
      BY <1>1, <2>1, <3>1, <3>2, ElsewhereSources, MakesSources, ClearsSources, DetachesSources
    <3>3. CASE Attaches(p)
      BY <1>1, <2>1, <3>1, <3>3, AttachesSources DEF RefInv, CallOwns, Attaches
    <3>. QED BY <3>2, <3>3 DEF Moves, Elsewhere
  <2>. QED BY <2>1, MovesSame DEF Owned, Clean, director, Sources
<1>. QED BY <1>2, <1>3, <1>4, <1>5

LEMMA MovesKeep ==
    ASSUME DiskInv, RefInv, NEW p \in Proc, Moves(p), TypeOK'
    PROVE  RefInv'
<1>1. OneCallPerVM' /\ CallOwns' /\ UnsureMarred'
  BY MovesSame DEF RefInv, OneCallPerVM, CallOwns, UnsureMarred, Clean, director
<1>2. SourceIsOwn'
  BY MovesSame DEF RefInv, SourceIsOwn, Moves, SrcOK
<1>3. ConfigAt'
  BY MovesSame DEF RefInv, ConfigAt, Moves
<1>. QED BY <1>1, <1>2, <1>3, MovesDone, MovesTables DEF RefInv

\* What the director has recorded when it has begun a call about disk d of VM v.
Recorded(op, v, d) ==
    IF op \in {"attach_disk", "detach_disk"}
    THEN /\ v \in VM /\ d \in Disk /\ DiskIdle(d)
         /\ IF op = "attach_disk" THEN owner[d] = None \/ (owner[d] = v /\ d \in unsure)
            ELSE owner[d] = v
         /\ \A x \in Disk : owner'[x] = IF x = d THEN v ELSE owner[x]
         /\ unsure' = unsure \cup {d}
    ELSE UNCHANGED <<owner, unsure>>

LEMMA AfterCall ==
    ASSUME TypeOK, NEW p \in Proc, NEW op \in VMOps \cup DiskOps, NEW v, NEW d, NEW env,
           Call(p, op, v, d, env)
    PROVE  /\ \A q \in Proc \ {p} : job'[q] = job[q] /\ pc'[q] = pc[q] /\ Stage(q)' = Stage(q)
           /\ job[p].op = None /\ job[p].vm = None /\ job[p].disk = None /\ pc[p] = "idle"
           /\ job'[p].op = op /\ job'[p].vm = v /\ job'[p].disk = d
           /\ job'[p].dev = None /\ job'[p].src = None
           /\ pc'[p] = Start[op] /\ pc'[p] \notin {"idle", "failed", "detach_put"}
           /\ Stage(p)' = "asked"
           /\ UNCHANGED <<server, trust>>
<1>. DEFINE work == [NoJob EXCEPT !.op = op, !.vm = v, !.disk = d, !.env = env]
<1>1. /\ Goto(p, Start[op], work) /\ pc[p] = "idle" /\ UNCHANGED <<server, trust>>
      /\ work.op = op /\ work.vm = v /\ work.disk = d /\ work.dev = None /\ work.src = None
  BY DEF Call, NoJob
<1>2. job[p].op = None /\ job[p].vm = None /\ job[p].disk = None
  BY <1>1, Here DEF JobOK, NoJob
<1>. HIDE DEF work
<1>3. /\ \A q \in Proc \ {p} : job'[q] = job[q] /\ pc'[q] = pc[q]
      /\ job'[p] = work /\ pc'[p] = Start[op]
  BY <1>1, AfterGoto
<1>4. Start[op] \notin {"idle", "failed", "detach_put"} /\ Start[op] \in Before(op)
  BY DEF Start, Before, VMOps, DiskOps
<1>5. Stage(p)' = "asked"
  <2>1. work.dev # "config"
    BY <1>1, NoneNoDev DEF Dev
  <2>2. StageOf(Start[op], work) = "asked"
    BY <1>1, <2>1 DEF Start, StageOf, Before, DeleteRequests, VMOps, DiskOps
  <2>. QED BY <1>3, <2>2 DEF Stage
<1>. QED BY <1>1, <1>2, <1>3, <1>4, <1>5 DEF Stage

LEMMA CallRef ==
    ASSUME DiskInv, RefInv, ~Overlap, NEW p \in Proc, NEW op \in VMOps \cup DiskOps,
           NEW v \in VM \cup {None}, NEW d \in Disk \cup {None}, NEW env,
           Call(p, op, v, d, env), Recorded(op, v, d)
    PROVE  RefInv'
<1>0. TypeOK
  BY DEF DiskInv
<1>1. UNCHANGED <<server, trust, host, devs>> /\ \A w \in VM : Sources(w)' = Sources(w)
  BY <1>0, AfterCall DEF server, Sources
<1>2. OneCallPerVM'
  <2>1. v = None \/ VMIdle(v)
    BY DEF Call
  <2>. QED BY <1>0, <2>1, AfterCall DEF RefInv, OneCallPerVM, VMIdle
<1>3. GoneIsBare' /\ Once'
  BY <1>1 DEF RefInv, GoneIsBare, Exists, Once, Clean
<1>4. TableRead' /\ SourceIsOwn' /\ ConfigAt'
  BY <1>0, <1>1, AfterCall, NoneNoDev
  DEF RefInv, TableRead, Found, SourceIsOwn, ConfigAt, Vol, Dev
<1>5. DeleteDone'
  BY <1>0, <1>1, AfterCall DEF RefInv, DeleteDone, Exists
<1>6. DetachDone'
  BY <1>0, <1>1, AfterCall DEF RefInv, DetachDone, Sources, Clean
<1>7. AttachAsked'
  <2>1. ASSUME op = "attach_disk", Clean(v) PROVE v \in VM /\ d \notin Sources(v)
    <3>1. /\ v \in VM /\ d \in Disk /\ DiskIdle(d)
          /\ owner[d] = None \/ (owner[d] = v /\ d \in unsure)
      BY <2>1 DEF Recorded
    <3>2. CASE owner[d] = None
      BY <2>1, <3>1, <3>2, NoneNoDev DEF RefInv, Owned
    <3>3. CASE owner[d] = v /\ d \in unsure
      BY <2>1, <3>1, <3>3 DEF RefInv, UnsureMarred, DiskIdle
    <3>. QED BY <3>1, <3>2, <3>3
  <2>2. ASSUME NEW q \in Proc, job'[q].op = "attach_disk", Stage(q)' = "asked", Clean(job'[q].vm)
        PROVE  job'[q].disk \notin Sources(job'[q].vm)
    BY <1>0, <2>1, <2>2, AfterCall DEF RefInv, AttachAsked
  <2>. QED BY <1>1, <2>2 DEF AttachAsked, Clean, Sources
<1>8. Owned'
  BY <1>1, NoneNoDev DEF RefInv, Owned, Recorded, Clean, Sources
<1>9. CallOwns'
  <2>1. ASSUME NEW q \in Proc, job'[q].op \in {"attach_disk", "detach_disk"}
        PROVE  owner'[job'[q].disk] = job'[q].vm
    <3>1. CASE q = p
      BY <1>0, <2>1, <3>1, AfterCall DEF Recorded
    <3>2. CASE q # p
      <4>1. job'[q] = job[q] /\ job[q].disk \in Disk /\ owner[job[q].disk] = job[q].vm
        BY <1>0, <2>1, <3>2, AfterCall, Here DEF RefInv, CallOwns, JobOK
      <4>. QED BY <4>1 DEF Recorded, DiskIdle
    <3>. QED BY <3>1, <3>2
  <2>. QED BY <2>1 DEF CallOwns
<1>10. UnsureMarred'
  <2>1. ASSUME NEW x \in unsure'
        PROVE  /\ owner'[x] \in VM
               /\ \/ ~Clean(owner'[x])
                  \/ \E q \in Proc : job'[q].op \in {"attach_disk", "detach_disk"} /\ job'[q].disk = x
    <3>1. CASE op \in {"attach_disk", "detach_disk"} /\ x = d
      BY <1>0, <3>1, AfterCall DEF Recorded
    <3>2. CASE ~(op \in {"attach_disk", "detach_disk"} /\ x = d)
      <4>1. x \in unsure /\ owner'[x] = owner[x]
        BY <1>0, <2>1, <3>2 DEF Recorded, TypeOK
      <4>2. ASSUME NEW q \in Proc, job[q].op \in {"attach_disk", "detach_disk"}, job[q].disk = x
            PROVE  job'[q] = job[q]
        BY <1>0, <4>2, AfterCall, LifecycleAssumption DEF AllOps, VMOps
      <4>. QED BY <4>1, <4>2 DEF RefInv, UnsureMarred
    <3>. QED BY <3>1, <3>2
  <2>. QED BY <1>1, <2>1 DEF UnsureMarred, Clean
<1>. QED BY <1>2, <1>3, <1>4, <1>5, <1>6, <1>7, <1>8, <1>9, <1>10 DEF RefInv

\* A call answered without an error is done.
LEMMA GoodIsDone ==
    ASSUME TypeOK, ConfigAt, NEW p \in Proc, pc[p] = "ok"
    PROVE  Stage(p) = "done"
<1>1. job[p].dev # "config" /\ job[p].op # None
  BY Here DEF ConfigAt, ConfigRequests, JobOK
<1>. QED BY <1>1, StageAt DEF Before, DeleteRequests

LEMMA AfterEnd ==
    ASSUME TypeOK, NEW p \in Proc, NEW good \in BOOLEAN,
           Conclude(job[p], good), Goto(p, "idle", NoJob)
    PROVE  /\ \A q \in Proc \ {p} : job'[q] = job[q] /\ pc'[q] = pc[q] /\ Stage(q)' = Stage(q)
           /\ job'[p] = NoJob /\ pc'[p] = "idle" /\ Stage(p)' = None
           /\ \A v \in VM : trust'[v] = "clean" => trust[v] = "clean"
           /\ \A v \in VM : ~good /\ job[p].op \in VMOps /\ v = job[p].vm => trust'[v] # "clean"
           /\ \A d \in Disk : owner'[d] # owner[d] =>
                  /\ good /\ owner'[d] = None
                  /\ \/ job[p].op = "delete_vm" /\ owner[d] = job[p].vm
                     \/ job[p].op = "detach_disk" /\ d = job[p].disk
           /\ unsure' \subseteq unsure
           /\ \A d \in unsure' : owner'[d] = owner[d] /\
                  (job[p].op \in {"attach_disk", "detach_disk"} /\ d = job[p].disk => ~good)
<1>1. /\ \A q \in Proc \ {p} : job'[q] = job[q] /\ pc'[q] = pc[q]
      /\ job'[p] = NoJob /\ pc'[p] = "idle"
  BY AfterGoto
<1>2. Stage(p)' = None
  BY <1>1 DEF Stage, StageOf, Before, DeleteRequests, NoJob
<1>3. /\ \A v \in VM : trust'[v] = "clean" => trust[v] = "clean"
      /\ \A v \in VM : ~good /\ job[p].op \in VMOps /\ v = job[p].vm => trust'[v] # "clean"
  BY DEF Conclude
<1>4. \A d \in Disk : owner'[d] # owner[d] =>
          /\ good /\ owner'[d] = None
          /\ \/ job[p].op = "delete_vm" /\ owner[d] = job[p].vm
             \/ job[p].op = "detach_disk" /\ d = job[p].disk
  BY DEF Conclude
<1>5. /\ unsure' \subseteq unsure
      /\ \A d \in unsure' : owner'[d] = owner[d] /\
             (job[p].op \in {"attach_disk", "detach_disk"} /\ d = job[p].disk => ~good)
  BY DEF Conclude, TypeOK
<1>. QED BY <1>1, <1>2, <1>3, <1>4, <1>5 DEF Stage

LEMMA EndRef ==
    ASSUME DiskInv, RefInv, NEW p \in Proc, NEW good \in BOOLEAN, good => pc[p] = "ok",
           Conclude(job[p], good), Goto(p, "idle", NoJob), UNCHANGED server
    PROVE  RefInv'
<1>0. TypeOK /\ ConfigAt /\ (good => Stage(p) = "done")
  BY GoodIsDone DEF DiskInv, RefInv
<1>1. UNCHANGED <<host, devs>> /\ \A w \in VM : Sources(w)' = Sources(w)
  BY DEF server, Sources
<1>2. NoJob.op = None /\ NoJob.vm = None /\ NoJob.disk = None /\ NoJob.src = None /\ NoJob.dev = None
  BY DEF NoJob
<1>3. OneCallPerVM' /\ GoneIsBare'
  BY <1>0, <1>1, <1>2, AfterEnd DEF RefInv, OneCallPerVM, GoneIsBare, Exists
<1>4. TableRead' /\ SourceIsOwn' /\ ConfigAt'
  BY <1>0, <1>1, <1>2, AfterEnd, NoneNoDev DEF RefInv, TableRead, Found, SourceIsOwn, ConfigAt, Vol, Dev
<1>5. DeleteDone' /\ DetachDone' /\ AttachAsked'
  <2>1. ASSUME NEW q \in Proc, job'[q].op \in VMOps
        PROVE  /\ q # p /\ job'[q] = job[q] /\ Stage(q)' = Stage(q)
               /\ (trust'[job[q].vm] = "clean" => trust[job[q].vm] = "clean")
    <3>1. q # p
      BY <1>0, <1>2, <2>1, AfterEnd, LifecycleAssumption DEF AllOps
    <3>2. job'[q] = job[q] /\ Stage(q)' = Stage(q) /\ job[q].vm \in VM
      BY <1>0, <2>1, <3>1, AfterEnd, InVM
    <3>. QED BY <1>0, <3>1, <3>2, AfterEnd
  <2>. QED BY <1>1, <2>1 DEF RefInv, DeleteDone, DetachDone, AttachAsked, Exists, Clean, Sources, VMOps
<1>6. Once'
  BY <1>0, <1>1, AfterEnd DEF RefInv, Once, Clean
<1>7. Owned'
  <2>1. ASSUME NEW v \in VM, NEW d \in Disk, trust'[v] = "clean", d \in Sources(v) PROVE owner'[d] = v
    <3>1. Clean(v) /\ owner[d] = v
      BY <1>0, <2>1, AfterEnd DEF RefInv, Owned, Clean
    <3>2. ASSUME good, job[p].op = "delete_vm", v = job[p].vm PROVE FALSE
      <4>1. devs[v] = NoDevices
        BY <1>0, <3>2 DEF RefInv, DeleteDone, GoneIsBare
      <4>. QED BY <2>1, <4>1 DEF Sources, NoDevices
    <3>3. ASSUME good, job[p].op = "detach_disk", d = job[p].disk PROVE FALSE
      BY <1>0, <2>1, <3>1, <3>3 DEF RefInv, CallOwns, DetachDone
    <3>. QED BY <1>0, <3>1, <3>2, <3>3, AfterEnd
  <2>. QED BY <1>1, <2>1 DEF Owned, Clean, Sources
<1>8. CallOwns'
  <2>1. ASSUME NEW q \in Proc, job'[q].op \in {"attach_disk", "detach_disk"}
        PROVE  owner'[job'[q].disk] = job'[q].vm
    <3>1. q # p
      BY <1>0, <1>2, <2>1, AfterEnd, LifecycleAssumption DEF AllOps, VMOps
    <3>2. /\ job'[q] = job[q] /\ job[q].vm \in VM /\ job[q].disk \in Disk
          /\ owner[job[q].disk] = job[q].vm
      BY <1>0, <2>1, <3>1, AfterEnd, InVM, Here DEF VMOps, JobOK, RefInv, CallOwns
    <3>3. job[p].vm # job[q].vm /\ job[p].disk # job[q].disk
      BY <3>1, <3>2, NoneNoDev DEF RefInv, OneCallPerVM, DiskInv, OneCallPerDisk
    <3>. QED BY <1>0, <3>2, <3>3, AfterEnd
  <2>. QED BY <2>1 DEF CallOwns
<1>9. UnsureMarred'
  <2>1. ASSUME NEW d \in unsure'
        PROVE  /\ owner'[d] \in VM
               /\ \/ trust'[owner'[d]] # "clean"
                  \/ \E q \in Proc : job'[q].op \in {"attach_disk", "detach_disk"} /\ job'[q].disk = d
    <3>1. d \in unsure /\ owner'[d] = owner[d] /\ owner[d] \in VM
      BY <1>0, <2>1, AfterEnd DEF RefInv, UnsureMarred
    <3>2. CASE ~Clean(owner[d])
      BY <1>0, <3>1, <3>2, AfterEnd DEF Clean
    <3>3. ASSUME NEW q \in Proc, job[q].op \in {"attach_disk", "detach_disk"}, job[q].disk = d
          PROVE  \/ trust'[owner'[d]] # "clean"
                 \/ \E r \in Proc : job'[r].op \in {"attach_disk", "detach_disk"} /\ job'[r].disk = d
      <4>1. CASE q = p
        <5>1. ~good /\ owner[d] = job[p].vm
          BY <1>0, <2>1, <3>3, <4>1, AfterEnd DEF RefInv, CallOwns
        <5>. QED BY <1>0, <3>1, <3>3, <4>1, <5>1, AfterEnd DEF VMOps, Clean
      <4>2. CASE q # p
        BY <1>0, <3>3, <4>2, AfterEnd
      <4>. QED BY <4>1, <4>2
    <3>. QED BY <3>1, <3>2, <3>3 DEF RefInv, UnsureMarred
  <2>. QED BY <2>1 DEF UnsureMarred, Clean
<1>. QED BY <1>3, <1>4, <1>5, <1>6, <1>7, <1>8, <1>9 DEF RefInv

LEMMA DirectorRef ==
    ASSUME DiskInv, RefInv, ~Overlap, NEW p \in Proc, Director(p)
    PROVE  RefInv'
<1>. USE DEF VMOps, DiskOps
<1>1. ASSUME NEW v \in VM, CallCreateVM(p, v) PROVE RefInv'
  BY <1>1, CallRef DEF CallCreateVM, Recorded
<1>2. ASSUME NEW v \in VM, CallDeleteVM(p, v) PROVE RefInv'
  BY <1>2, CallRef DEF CallDeleteVM, Recorded
<1>3. ASSUME NEW v \in VM, NEW d \in Disk, CallCreateDisk(p, v, d) PROVE RefInv'
  BY <1>3, CallRef DEF CallCreateDisk, Recorded
<1>4. ASSUME NEW v \in VM, NEW d \in Disk, CallAttachDisk(p, v, d) PROVE RefInv'
  <2>1. Recorded("attach_disk", v, d)
    BY <1>4 DEF CallAttachDisk, Recorded, DiskInv, TypeOK
  <2>. QED BY <1>4, <2>1, CallRef DEF CallAttachDisk
<1>5. ASSUME NEW v \in VM, NEW d \in Disk, CallDetachDisk(p, v, d) PROVE RefInv'
  <2>1. Recorded("detach_disk", v, d)
    BY <1>5 DEF CallDetachDisk, Recorded, DiskInv, TypeOK
  <2>. QED BY <1>5, <2>1, CallRef DEF CallDetachDisk
<1>6. ASSUME NEW d \in Disk, CallDeleteDisk(p, d) PROVE RefInv'
  BY <1>6, CallRef DEF CallDeleteDisk, Recorded
<1>. QED BY <1>1, <1>2, <1>3, <1>4, <1>5, <1>6 DEF Director

LEMMA SameView ==
    ASSUME RefInv, UNCHANGED <<pc, job, host, devs, director>>
    PROVE  RefInv'
<1>1. \A p \in Proc : UNCHANGED <<job[p], pc[p], Stage(p)>>
  BY DEF Stage
<1>2. \A v \in VM : UNCHANGED <<Sources(v), Exists(v), devs[v], trust[v], Clean(v)>>
  BY DEF Sources, Exists, Clean, director
<1>3. OneCallPerVM' /\ GoneIsBare' /\ SourceIsOwn' /\ ConfigAt'
  BY DEF RefInv, OneCallPerVM, GoneIsBare, SourceIsOwn, ConfigAt, Exists
<1>4. TableRead' /\ Once' /\ Owned' /\ CallOwns' /\ UnsureMarred'
  BY DEF RefInv, TableRead, Found, Once, Owned, Clean, CallOwns, UnsureMarred, Sources, director
<1>5. DeleteDone' /\ DetachDone' /\ AttachAsked'
  BY <1>1 DEF RefInv, DeleteDone, DetachDone, AttachAsked, Exists, Clean, Sources, director
<1>. QED BY <1>3, <1>4, <1>5 DEF RefInv

LEMMA CleanupView ==
    ASSUME Cleanup \/ CleanupKilled
    PROVE  UNCHANGED <<pc, job, host, devs, director>>
  BY DEF Cleanup, CleanupScan, CleanupDelete, CleanupKilled, DeleteVolume, server

LEMMA RefInvNext ==
    ASSUME ~Overlap, DiskInv, NameFree, RefInv, [Next]_vars
    PROVE  RefInv'
<1>0. TypeOK'
  BY NextType DEF DiskInv
<1>1. ASSUME NEW p \in Proc, Reply(p) PROVE RefInv'
  BY <1>1, EndRef DEF Reply
<1>2. ASSUME NEW p \in Proc, Step(p), ~Reply(p) PROVE RefInv'
  BY <1>0, <1>2, StepMoves, MovesKeep DEF RefInv
<1>3. ASSUME NEW p \in Proc, Crash(p) PROVE RefInv'
  BY <1>3, EndRef DEF Crash
<1>4. CASE UNCHANGED vars
  BY <1>4, SameView DEF vars, cpiVars, server
<1>. QED BY <1>1, <1>2, <1>3, <1>4, DirectorRef, CleanupView, SameView DEF Next

LEMMA RefInvInit == Init => RefInv
<1>. SUFFICES ASSUME Init PROVE RefInv
  OBVIOUS
<1>1. /\ \A p \in Proc : job[p] = NoJob /\ pc[p] = "idle" /\ job[p].op = None /\ job[p].vm = None
                         /\ job[p].src = None /\ job[p].dev = None /\ None # "config"
      /\ devs = [v \in VM |-> NoDevices] /\ unsure = {}
  BY NoneNoDev DEF Init, ServerInit, NoJob, Dev
<1>2. \A v \in VM : devs[v] = NoDevices /\ Sources(v) = {}
  BY <1>1 DEF Sources, NoDevices
<1>3. None \notin {"delete_vm", "attach_disk", "detach_disk"}
  BY LifecycleAssumption DEF AllOps, VMOps
<1>. QED
  BY <1>1, <1>2, <1>3, NoneNoDev
  DEF RefInv, OneCallPerVM, GoneIsBare, TableRead, SourceIsOwn, ConfigAt, DeleteDone, DetachDone,
      AttachAsked, Once, Owned, CallOwns, UnsureMarred, NoDevices, Vol

-----------------------------------------------------------------------------
(* The steps, as the contract sees them *)

Asked(p) == [op |-> job[p].op, vm |-> job[p].vm, disk |-> job[p].disk, stage |-> Stage(p)]
Calls == [p \in Proc |-> Asked(p)]
Vms == {v \in VM : Exists(v)}
Disks == {d \in Disk : vols[d] # {}}
On == {x \in Disk \X VM : x[1] \in Sources(x[2])}
Marred == {v \in VM : trust[v] # "clean"}

View == <<Calls, Vms, Disks, On, cid, Marred>>

\* A step of a call changes the stage of that call.
LEMMA MovesCalls ==
    ASSUME NEW p \in Proc, Moves(p), NEW st, st = Stage(p)'
    PROVE  /\ Contract!Becomes(p, st)
           /\ st = Stage(p) => UNCHANGED Calls
           /\ UNCHANGED <<cid, Marred>>
<1>1. \A q \in Proc : Asked(q)' = [op |-> job[q].op, vm |-> job[q].vm, disk |-> job[q].disk,
                                   stage |-> IF q = p THEN st ELSE Stage(q)]
  BY MovesSame DEF Asked
<1>2. Calls' = [q \in Proc |-> [op |-> job[q].op, vm |-> job[q].vm, disk |-> job[q].disk,
                                stage |-> IF q = p THEN st ELSE Stage(q)]]
  BY <1>1 DEF Calls
<1>3. Calls' = [Calls EXCEPT ![p].stage = st]
  BY <1>2 DEF Calls, Asked
<1>4. st = Stage(p) => UNCHANGED Calls
  BY <1>2 DEF Calls, Asked
<1>5. UNCHANGED <<cid, Marred>>
  BY MovesSame DEF Marred, director
<1>. QED BY <1>3, <1>4, <1>5 DEF Contract!Becomes, Calls, Asked, Stage

LEMMA StageIn ==
    ASSUME TypeOK, NEW p \in Proc, pc[p] # "idle"
    PROVE  Stage(p) \in {"asked", "done", "undoing", "failed"}
  BY DEF Stage, StageOf, Before, DeleteRequests

LEMMA OnIs ==
    ASSUME NEW S, S \subseteq Disk \X VM,
           \A v \in VM, d \in Disk : (d \in Sources(v))' <=> <<d, v>> \in S
    PROVE  On' = S
  BY DEF On

\* A step that goes on, or fails.
LEMMA ElsewhereMaps ==
    ASSUME TypeOK, NEW p \in Proc, Moves(p), Elsewhere(p)
    PROVE  UNCHANGED <<Vms, On>> /\ (SameThere => UNCHANGED Disks)
<1>1. \A v \in VM : Exists(v)' <=> Exists(v)
  BY ElsewhereSources DEF Elsewhere, Rests, Skips, Equips, MakesDisk, RemovesDisk, SameInstances, Exists
<1>2. \A v \in VM, d \in Disk : (d \in Sources(v))' <=> <<d, v>> \in On
  BY ElsewhereSources DEF On
<1>3. UNCHANGED On
  BY <1>2, OnIs DEF On
<1>. QED BY <1>1, <1>3 DEF Vms, Disks, SameThere

LEMMA RestsMap ==
    ASSUME TypeOK, NEW p \in Proc, Moves(p), Rests(p) \/ Equips(p)
    PROVE  Contract!Fail(p) \/ UNCHANGED View
<1>1. UNCHANGED <<Vms, On, Disks, cid, Marred>> /\ GoesOn(p)
  BY ElsewhereMaps, MovesCalls DEF Elsewhere, Rests, Equips
<1>2. PICK st : st = Stage(p)'
  OBVIOUS
<1>3. /\ Contract!Becomes(p, st) /\ (st = Stage(p) => UNCHANGED Calls)
      /\ Stage(p) \in {"asked", "done", "undoing", "failed"}
  BY <1>2, MovesCalls, StageIn DEF Moves, SameCall
<1>4. CASE st = Stage(p)
  BY <1>1, <1>3, <1>4 DEF View
<1>5. CASE GivesUp(p)
  <2>1. /\ Contract!Becomes(p, "failed") \/
           (job[p].op = "create_vm" /\ Stage(p) = "done" /\ Contract!Becomes(p, "undoing"))
    BY <1>2, <1>3, <1>5 DEF GivesUp
  <2>. QED BY <1>1, <1>3, <2>1 DEF Contract!Fail, Contract!Stage, Stage, Vms, On, Disks, Marred
<1>. QED BY <1>1, <1>2, <1>4, <1>5 DEF GoesOn

\* The moment of the effect is the moment the contract acts.
LEMMA ActIf ==
    ASSUME TypeOK, NEW p \in Proc, Moves(p), TakesEffect(p), Contract!Effect(Asked(p))
    PROVE  Contract!Act(p)
<1>1. PICK st \in {"done", "failed"} : st = Stage(p)'
  BY DEF TakesEffect
<1>2. Contract!Becomes(p, st) /\ UNCHANGED <<cid, Marred>> /\ Stage(p) = "asked"
  BY <1>1, MovesCalls DEF TakesEffect
<1>3. Contract!Becomes(p, "done") \/ Contract!Becomes(p, "failed")
  BY <1>1, <1>2
<1>. QED
  BY <1>2, <1>3
  DEF Contract!Act, Contract!Effect, Contract!CreateVM, Contract!DeleteVM, Contract!CreateDisk,
      Contract!DeleteDisk, Contract!AttachDisk, Contract!DetachDisk, Asked, Stage, Marred

LEMMA SkipsMap ==
    ASSUME TypeOK, RefInv, NEW p \in Proc, Moves(p), Skips(p)
    PROVE  Contract!Act(p)
<1>1. TakesEffect(p) /\ UNCHANGED <<Vms, On, Disks>>
  BY ElsewhereMaps DEF Elsewhere, Skips, TakesEffect
<1>2. CASE job[p].op = "delete_vm" /\ ~Exists(job[p].vm)
  <2>1. Vms = Vms \ {job[p].vm}
    BY <1>2 DEF Vms
  <2>2. \A d \in Disk : <<d, job[p].vm>> \notin On
    BY <1>2, NoneNoDev DEF On, Sources, RefInv, GoneIsBare, NoDevices
  <2>3. On = On \ (Disk \X {job[p].vm})
    BY <2>2
  <2>4. Contract!Effect(Asked(p))
    BY <1>1, <1>2, <2>1, <2>3 DEF Contract!DeleteVM, Contract!Effect, Asked, Vms, On, Disks
  <2>. QED BY <1>1, <2>4, ActIf
<1>3. CASE job[p].op = "detach_disk" /\ job[p].disk \notin Sources(job[p].vm)
  <2>1. On = On \ {<<job[p].disk, job[p].vm>>}
    BY <1>3 DEF On
  <2>2. Contract!Effect(Asked(p))
    BY <1>1, <1>3, <2>1 DEF Contract!DetachDisk, Contract!Effect, Asked, Vms, On, Disks
  <2>. QED BY <1>1, <2>2, ActIf
<1>. QED BY <1>2, <1>3 DEF Skips

LEMMA MakesVMMap ==
    ASSUME TypeOK, NEW p \in Proc, Moves(p), MakesVM(p)
    PROVE  Contract!Act(p)
<1>0. job[p].vm \in VM
  BY InVM DEF MakesVM, VMOps
<1>1. UNCHANGED <<On, Disks>>
  BY DEF MakesVM, On, Sources, Disks, SameThere
<1>2. \A v \in VM : Exists(v)' <=> Exists(v) \/ v = job[p].vm
  BY ServerAssumption DEF MakesVM, Exists, TypeOK, ServerTypeOK
<1>3. job[p].vm \notin Vms /\ Vms' = Vms \cup {job[p].vm}
  BY <1>0, <1>2 DEF Vms, MakesVM
<1>4. Contract!Effect(Asked(p))
  BY <1>1, <1>3 DEF Contract!CreateVM, Contract!Effect, Asked, MakesVM, Vms, On, Disks
<1>. QED BY <1>4, ActIf DEF MakesVM

LEMMA ClearsVMMap ==
    ASSUME TypeOK, NEW p \in Proc, Moves(p), ClearsVM(p)
    PROVE  Contract!Act(p) \/ Contract!Undo(p)
<1>0. job[p].vm \in VM
  BY InVM DEF ClearsVM, VMOps
<1>1. UNCHANGED Disks
  BY DEF ClearsVM, Disks, SameThere
<1>2. \A v \in VM : Exists(v)' <=> Exists(v) /\ v # job[p].vm
  BY DEF ClearsVM, Exists, TypeOK, ServerTypeOK
<1>3. Vms' = Vms \ {job[p].vm}
  BY <1>2 DEF Vms
<1>4. \A v \in VM, d \in Disk : (d \in Sources(v))' <=> <<d, v>> \in On \ (Disk \X {job[p].vm})
  BY ClearsSources DEF On
<1>5. On' = On \ (Disk \X {job[p].vm})
  BY <1>4, OnIs DEF On
<1>6. CASE job[p].op = "delete_vm" /\ TakesEffect(p)
  <2>1. Contract!Effect(Asked(p))
    BY <1>1, <1>3, <1>5, <1>6 DEF Contract!DeleteVM, Contract!Effect, Asked, Vms, On, Disks
  <2>. QED BY <1>6, <2>1, ActIf
<1>7. CASE Stage(p) = "undoing" /\ Stage(p)' \in {"undoing", "failed"}
  <2>1. PICK st \in {"undoing", "failed"} : st = Stage(p)'
    BY <1>7
  <2>2. Contract!Becomes(p, st) /\ UNCHANGED <<cid, Marred>>
    BY <2>1, MovesCalls
  <2>3. Contract!Becomes(p, "undoing") \/ Contract!Becomes(p, "failed")
    BY <2>1, <2>2
  <2>. QED
    BY <1>1, <1>3, <1>5, <1>7, <2>2, <2>3
    DEF Contract!Undo, Contract!DeleteVM, Stage, Vms, On, Disks, Marred
<1>. QED BY <1>6, <1>7 DEF ClearsVM

LEMMA AttachesMap ==
    ASSUME TypeOK, NEW p \in Proc, Moves(p), Attaches(p)
    PROVE  Contract!Act(p)
<1>. DEFINE v == job[p].vm
            x == job[p].disk
<1>0. v \in VM /\ x \in Disk
  BY InVM, Here DEF Attaches, VMOps, JobOK
<1>1. UNCHANGED <<Vms, Disks>>
  BY DEF Attaches, Vms, Exists, Disks, SameThere
<1>2. \A w \in VM, d \in Disk : (d \in Sources(w))' <=> <<d, w>> \in On \cup {<<x, v>>}
  BY AttachesSources DEF On
<1>3. On' = On \cup {<<x, v>>}
  BY <1>0, <1>2, OnIs DEF On
<1>4. v \in Vms /\ x \in Disks /\ On \cap ({x} \X VM) \subseteq {<<x, v>>}
  BY <1>0 DEF Attaches, Vms, Disks, On, UsedBy
<1>5. Contract!Effect(Asked(p))
  BY <1>1, <1>3, <1>4 DEF Contract!AttachDisk, Contract!Effect, Asked, Attaches, Vms, On, Disks
<1>. QED BY <1>5, ActIf DEF Attaches

LEMMA DetachesMap ==
    ASSUME TypeOK, RefInv, NEW p \in Proc, Moves(p), Detaches(p)
    PROVE  Contract!Act(p)
<1>. DEFINE v == job[p].vm
            x == job[p].disk
<1>0. v \in VM /\ x \in Disk
  BY InVM, Here DEF Detaches, VMOps, JobOK
<1>1. UNCHANGED <<Vms, Disks>>
  BY DEF Detaches, Vms, Exists, Disks, SameThere
<1>2. CASE \A b \in Dev : devs'[v][b] # x
  <2>1. \A w \in VM, d \in Disk : (d \in Sources(w))' <=> <<d, w>> \in On \ {<<x, v>>}
    BY <1>0, <1>2, DetachesSources, SourcesAre DEF On
  <2>2. On' = On \ {<<x, v>>}
    BY <2>1, OnIs DEF On
  <2>. QED BY <1>1, <2>2, ActIf
       DEF Contract!DetachDisk, Contract!Effect, Asked, Detaches, Vms, On, Disks
<1>3. CASE \E b \in Dev : devs'[v][b] = x
  <2>1. v \in Marred
    BY <1>0, <1>3, DetachesSources DEF RefInv, Marred, Clean
  <2>2. \A w \in VM, d \in Disk : (d \in Sources(w))' <=> <<d, w>> \in On
    BY <1>0, <1>3, DetachesSources, SourcesAre DEF On
  <2>3. UNCHANGED On
    BY <2>2, OnIs DEF On
  <2>. QED BY <1>1, <2>1, <2>3, ActIf
       DEF Contract!DetachDisk, Contract!Effect, Asked, Detaches, Vms, On, Disks, Marred
<1>. QED BY <1>2, <1>3

LEMMA DisksMap ==
    ASSUME TypeOK, NEW p \in Proc, Moves(p), MakesDisk(p) \/ RemovesDisk(p)
    PROVE  Contract!Act(p)
<1>. DEFINE x == job[p].disk
<1>0. x \in Disk
  BY Here DEF MakesDisk, RemovesDisk, JobOK, DiskOps
<1>1. UNCHANGED <<Vms, On>>
  BY ElsewhereMaps DEF Elsewhere
<1>2. CASE MakesDisk(p)
  <2>1. x \notin Disks /\ Disks' = Disks \cup {x}
    BY <1>0, <1>2 DEF MakesDisk, Disks
  <2>. QED BY <1>1, <1>2, <2>1, ActIf
       DEF Contract!CreateDisk, Contract!Effect, Asked, MakesDisk, Vms, On, Disks
<1>3. CASE RemovesDisk(p)
  <2>1. Disks' = Disks \ {x} /\ On \cap ({x} \X VM) = {}
    BY <1>0, <1>3 DEF RemovesDisk, Disks, On, UsedBy
  <2>. QED BY <1>1, <1>3, <2>1, ActIf
       DEF Contract!DeleteDisk, Contract!Effect, Asked, RemovesDisk, Vms, On, Disks
<1>. QED BY <1>2, <1>3

LEMMA MovesMap ==
    ASSUME TypeOK, RefInv, NEW p \in Proc, Moves(p)
    PROVE  Contract!Next \/ UNCHANGED View
<1>1. Contract!Act(p) \/ Contract!Undo(p) \/ Contract!Fail(p) \/ UNCHANGED View
  BY RestsMap, SkipsMap, MakesVMMap, ClearsVMMap, AttachesMap, DetachesMap, DisksMap DEF Moves
<1>. QED BY <1>1 DEF Contract!Next

\* The ids a call makes, which are in nobody's hand yet.
Made(op, v, d) == IF op = "create_vm" THEN {v} ELSE IF op = "create_disk" THEN {d} ELSE {}

LEMMA CallMap ==
    ASSUME TypeOK, NEW p \in Proc, NEW op \in VMOps \cup DiskOps,
           NEW v \in VM \cup {None}, NEW d \in Disk \cup {None}, NEW env,
           Call(p, op, v, d, env),
           \A x \in Made(op, v, d) : cid[x] = "free",
           cid' = [x \in VM \cup Disk |-> IF x \in Made(op, v, d) THEN "pending" ELSE cid[x]]
    PROVE  Contract!Begin(p)
<1>1. UNCHANGED <<Vms, On, Disks, Marred>>
  BY AfterCall DEF server, Vms, On, Disks, Marred, Exists, Sources
<1>2. \A q \in Proc : Asked(q)' = IF q = p THEN [op |-> op, vm |-> v, disk |-> d, stage |-> "asked"]
                                  ELSE Asked(q)
  BY AfterCall DEF Asked
<1>3. Calls' = [Calls EXCEPT ![p] = [op |-> op, vm |-> v, disk |-> d, stage |-> "asked"]]
  BY <1>2 DEF Calls
<1>4. Stage(p) = None /\ job[p].op = None /\ job[p].vm = None /\ job[p].disk = None
  BY AfterCall DEF Stage, StageOf, Before, DeleteRequests
<1>5. Calls[p] = Contract!Idle
  BY <1>4 DEF Calls, Asked, Contract!Idle
<1>6. op \in Contract!Calls
  BY DEF Contract!Calls, VMOps, DiskOps
<1>7. Made(op, v, d) = CASE op = "create_vm" -> {v} [] op = "create_disk" -> {d} [] OTHER -> {}
  BY DEF Made
<1>8. \E o \in Contract!Calls, w \in VM \cup {None}, e \in Disk \cup {None} :
         LET made == CASE o = "create_vm" -> {w} [] o = "create_disk" -> {e} [] OTHER -> {} IN
         /\ Calls' = [Calls EXCEPT ![p] = [op |-> o, vm |-> w, disk |-> e, stage |-> "asked"]]
         /\ \A x \in made : cid[x] = "free"
         /\ cid' = [x \in VM \cup Disk |-> IF x \in made THEN "pending" ELSE cid[x]]
         /\ UNCHANGED <<Vms, Disks, On, Marred>>
  <2>. WITNESS op \in Contract!Calls
  <2>. WITNESS v \in VM \cup {None}
  <2>. WITNESS d \in Disk \cup {None}
  <2>. QED BY <1>1, <1>3, <1>7
<1>. QED
  BY <1>5, <1>8 DEF Contract!Begin, Calls, Asked, Stage, Vms, On, Disks, Marred

LEMMA DirectorMap ==
    ASSUME TypeOK, NEW p \in Proc, Director(p)
    PROVE  Contract!Next
<1>. USE DEF VMOps, DiskOps
<1>1. cid = [x \in VM \cup Disk |-> cid[x]]
  BY DEF TypeOK
<1>2. ASSUME NEW v \in VM, CallCreateVM(p, v) PROVE Contract!Begin(p)
  <2>1. cid' = [x \in VM \cup Disk |-> IF x \in Made("create_vm", v, None) THEN "pending" ELSE cid[x]]
    BY <1>1, <1>2 DEF CallCreateVM, Made
  <2>. QED BY <1>2, <2>1, CallMap DEF CallCreateVM, Made
<1>3. ASSUME NEW v \in VM, CallDeleteVM(p, v) PROVE Contract!Begin(p)
  BY <1>1, <1>3, CallMap DEF CallDeleteVM, Made
<1>4. ASSUME NEW v \in VM, NEW d \in Disk, CallCreateDisk(p, v, d) PROVE Contract!Begin(p)
  <2>1. cid' = [x \in VM \cup Disk |-> IF x \in Made("create_disk", v, d) THEN "pending" ELSE cid[x]]
    BY <1>1, <1>4 DEF CallCreateDisk, Made
  <2>2. \A x \in Made("create_disk", v, d) : cid[x] = "free"
    BY <1>4 DEF CallCreateDisk, Made
  <2>3. Call(p, "create_disk", v, d, None)
    BY <1>4 DEF CallCreateDisk
  <2>. QED BY <2>1, <2>2, <2>3, CallMap
<1>5. ASSUME NEW v \in VM, NEW d \in Disk, CallAttachDisk(p, v, d) PROVE Contract!Begin(p)
  BY <1>1, <1>5, CallMap DEF CallAttachDisk, Made
<1>6. ASSUME NEW v \in VM, NEW d \in Disk, CallDetachDisk(p, v, d) PROVE Contract!Begin(p)
  BY <1>1, <1>6, CallMap DEF CallDetachDisk, Made
<1>7. ASSUME NEW d \in Disk, CallDeleteDisk(p, d) PROVE Contract!Begin(p)
  BY <1>1, <1>7, CallMap DEF CallDeleteDisk, Made
<1>8. Contract!Begin(p)
  BY <1>2, <1>3, <1>4, <1>5, <1>6, <1>7 DEF Director
<1>. QED BY <1>8 DEF Contract!Next

LEMMA EndMap ==
    ASSUME DiskInv, RefInv, NEW p \in Proc, pc[p] # "idle", NEW good \in BOOLEAN, good => pc[p] = "ok",
           Conclude(job[p], good), Goto(p, "idle", NoJob), UNCHANGED server
    PROVE  Contract!Next
<1>. DEFINE j == job[p]
            subject == IF j.op \in {"create_vm", "delete_vm"} THEN j.vm ELSE j.disk
<1>0. /\ TypeOK /\ (good => Stage(p) = "done")
      /\ j.op \in VMOps \cup DiskOps /\ (j.op \in VMOps => j.vm \in VM)
  BY GoodIsDone, Here, InVM DEF DiskInv, RefInv, Job, JobOK
<1>1. UNCHANGED <<Vms, On, Disks>>
  BY DEF server, Vms, On, Disks, Exists, Sources
<1>2. \A q \in Proc : Asked(q)' = IF q = p THEN Contract!Idle ELSE Asked(q)
  <2>1. /\ \A q \in Proc \ {p} : job'[q] = job[q] /\ Stage(q)' = Stage(q)
        /\ job'[p] = NoJob /\ Stage(p)' = None
    BY <1>0, AfterEnd
  <2>. QED BY <2>1 DEF Asked, Contract!Idle, NoJob
<1>3. Calls' = [Calls EXCEPT ![p] = Contract!Idle]
  BY <1>2 DEF Calls
<1>4. Asked(p) # Contract!Idle
  BY <1>0, LifecycleAssumption DEF Asked, Contract!Idle, AllOps
<1>5. cid' = [cid EXCEPT ![subject] =
                 CASE j.op \in {"create_vm", "create_disk"} -> IF good THEN "known" ELSE "failed"
                   [] j.op \in {"delete_vm", "delete_disk"} -> IF good THEN "deleted" ELSE @
                   [] OTHER -> @]
  BY <1>0 DEF Conclude, VMOps, DiskOps
<1>6. Marred' = Marred \cup IF ~good /\ j.op \notin {"create_disk", "delete_disk"} THEN {j.vm} ELSE {}
  <2>1. \A v \in VM : trust'[v] # "clean" <=>
            trust[v] # "clean" \/ (~good /\ j.op \in VMOps /\ v = j.vm)
    BY DEF Conclude
  <2>. QED BY <1>0, <2>1 DEF Marred, VMOps, DiskOps
<1>7. Contract!Answer(p, good)
  BY <1>0, <1>1, <1>3, <1>4, <1>5, <1>6
  DEF Contract!Answer, Calls, Asked, Stage, Vms, On, Disks, Marred
<1>. QED BY <1>7 DEF Contract!Next

LEMMA NextMaps ==
    ASSUME DiskInv, NameFree, RefInv, [Next]_vars
    PROVE  Contract!Next \/ UNCHANGED View
<1>0. TypeOK /\ TypeOK'
  BY NextType DEF DiskInv
<1>1. ASSUME NEW p \in Proc, Reply(p) PROVE Contract!Next
  BY <1>1, EndMap DEF Reply
<1>2. ASSUME NEW p \in Proc, Step(p), ~Reply(p) PROVE Contract!Next \/ UNCHANGED View
  BY <1>0, <1>2, StepMoves, MovesMap DEF RefInv
<1>3. ASSUME NEW p \in Proc, Crash(p) PROVE Contract!Next
  BY <1>3, EndMap DEF Crash
<1>4. ASSUME NEW p \in Proc, Director(p) PROVE Contract!Next
  BY <1>0, <1>4, DirectorMap
<1>5. CASE Cleanup \/ CleanupKilled \/ UNCHANGED vars
  <2>1. UNCHANGED <<pc, job, host, devs, director>> /\ SameDisks
    BY <1>0, <1>5, CleanupView, CleanupKeeps DEF vars, cpiVars, server, SameDisks
  <2>2. \A q \in Proc : UNCHANGED Asked(q)
    BY <2>1 DEF Asked, Stage
  <2>. QED
    BY <2>1, <2>2
    DEF View, Calls, Vms, Exists, Disks, SameDisks, On, Sources, Marred, director
<1>. QED BY <1>1, <1>2, <1>3, <1>4, <1>5 DEF Next

LEMMA InitMaps == Init => Contract!Init
<1>. SUFFICES ASSUME Init PROVE Contract!Init
  OBVIOUS
<1>1. \A p \in Proc : Asked(p) = Contract!Idle
  BY DEF Init, Asked, Stage, StageOf, Before, DeleteRequests, NoJob, Contract!Idle
<1>2. Calls = [p \in Proc |-> Contract!Idle]
  BY <1>1 DEF Calls
<1>3. Vms = {} /\ Disks = {} /\ On = {} /\ Marred = {}
  BY NoneNoDev
  DEF Init, ServerInit, Vms, Exists, Disks, Vol, On, Sources, NoDevices, Marred
<1>. QED
  BY <1>2, <1>3
  DEF Contract!Init, Init, Calls, Asked, Stage, Vms, Disks, On, Marred

\* Where the director runs one call on a VM at a time, each call takes effect at one moment
\* and at most once, whatever calls and cleanups run beside it and whichever of its requests
\* fail or processes die; answered without an error, it did take effect.
THEOREM ImplementsContract == ASSUME ~Overlap PROVE Spec => KeepsContract
<1>. DEFINE Inv == DiskInv /\ NameFree /\ RefInv
<1>1. Init => Inv
  BY DiskInvInit, RefInvInit DEF Init, NameFree
<1>2. Inv /\ [Next]_vars => Inv'
  BY DiskInvNext, NameFreeNext, RefInvNext
<1>3. Inv /\ [Next]_vars => [Contract!Next]_(Contract!vars)
  BY NextMaps DEF Contract!vars, View, Calls, Asked, Stage, Vms, Disks, On, Marred
<1>. HIDE DEF Inv
<1>4. Spec => [][Contract!Next]_(Contract!vars)
  BY <1>1, <1>2, <1>3, PTL DEF Spec
<1>. QED BY <1>4, InitMaps DEF KeepsContract, Contract!Spec, Spec

=============================================================================
