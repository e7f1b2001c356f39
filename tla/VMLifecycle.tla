----------------------------- MODULE VMLifecycle -----------------------------
(***************************************************************************)
(* The CPI calls that own VMs and disks (src/src/cpi), one process of      *)
(* cmd/cpi per call, several at a time, against one LXD/Incus server; the  *)
(* daily cmd/cleanup; and the director that makes the calls.               *)
(*                                                                         *)
(* Every request to the server is a step of its own, so calls interleave   *)
(* between any two requests.  Local computation runs with the request it   *)
(* precedes.  A request is answered, or refused by the server, or fails    *)
(* (a fault, of which a behaviour has MaxFaults) before or -- if Lossy --  *)
(* after it took effect: the connection breaks while wait() is waiting.    *)
(***************************************************************************)
EXTENDS LxdServer, Naturals

CONSTANTS
    Proc,           \* processes of cmd/cpi the director runs at a time
    Absent, Torn,   \* no agent.json; an agent.json that does not parse
    Ops,            \* the operations of this instance
    Ephemeral,      \* the answers to "vmProps.EphemeralDisk > 0"
    MaxFaults,      \* bound on failed requests and killed processes
    Lossy,          \* may a failed request have taken effect?
    Crashes,        \* may a process be killed?
    Overlap         \* may the director run two calls on one VM at a time?

VMOps == {"create_vm", "delete_vm", "attach_disk", "detach_disk"}
DiskOps == {"create_disk", "delete_disk"}
AllOps == VMOps \cup DiskOps \cup {"cleanup"}

ASSUME LifecycleAssumption ==
    /\ Ops \subseteq AllOps /\ Ephemeral \subseteq BOOLEAN
    /\ MaxFaults \in Nat /\ {Lossy, Crashes, Overlap} \subseteq BOOLEAN
    /\ None \notin AllOps \cup Dev
    /\ Absent # Torn /\ {Absent, Torn} \cap Env = {}
    /\ VM \cap Disk = {}

VARIABLES
    pc,         \* pc[p]: the request process p makes next
    job,        \* job[p]: the locals of the call p serves
    file,       \* file[v]: the agent.json of v in the CPI's file store
    todo,       \* the volumes a cleanup that is under way still has to delete
    faults,     \* requests failed and processes killed so far
    cid,        \* the director's knowledge of each VM and disk id
    owner,      \* owner[d]: the VM the director last asked to attach d to, None once detached
    unsure,     \* the disks whose last attach or detach has not succeeded
    trust       \* trust[v]: has a call on v failed, and has a later one succeeded?

cpiVars == <<pc, job, file, todo, faults>>
director == <<cid, owner, unsure, trust>>
vars == <<server, cpiVars, director>>

Start == [create_vm |-> "create_instance", delete_vm |-> "has_vm",
          attach_disk |-> "read_env", detach_disk |-> "detach_get",
          create_disk |-> "locate", delete_disk |-> "delete_disk"]

PC == {"idle", "ok", "failed",
       "create_instance", "locate", "create_ephemeral", "start_vm",
       "has_vm", "stop_vm", "list_disks", "delete_instance", "delete_volumes", "delete_file",
       "read_env", "colocate", "copy_volume", "drop_source",
       "attach_get", "attach_put", "detach_get", "detach_put",
       "write_env", "locate_vm", "create_config", "find_config", "config_get",
       "check_stopped", "delete_config",
       "create_disk", "delete_disk"}

Job == [op : (VMOps \cup DiskOps \cup {None}), vm : VM \cup {None}, disk : Disk \cup {None},
        dev : Dev \cup {None}, src : Vol \cup {None},
        node : Node \cup {None}, to : Node \cup {None},
        seen : DevTable \cup {None}, env : Env \cup {None}, trash : SUBSET (ConfVol \cup EphVol)]

NoJob == [op |-> None, vm |-> None, disk |-> None, dev |-> None, src |-> None,
          node |-> None, to |-> None, seen |-> None, env |-> None, trash |-> {}]

NoDisks == [d \in Disk |-> None]

Init ==
    /\ ServerInit
    /\ pc = [p \in Proc |-> "idle"]
    /\ job = [p \in Proc |-> NoJob]
    /\ file = [v \in VM |-> Absent]
    /\ todo = {} /\ faults = 0
    /\ cid = [x \in VM \cup Disk |-> "free"]
    /\ owner = [d \in Disk |-> None]
    /\ unsure = {}
    /\ trust = [v \in VM |-> "clean"]

-----------------------------------------------------------------------------
(* How a request ends *)

Goto(p, next, work) ==
    /\ pc' = [pc EXCEPT ![p] = next]
    /\ job' = [job EXCEPT ![p] = work]

\* (mutant) An err of its own in the last statement, as in the ephemeral block.
RollsBackUnlessStarting(p) ==
    /\ job[p].op = "create_vm"
    /\ \/ pc[p] \in {"locate", "write_env", "locate_vm", "create_config", "find_config",
                     "config_get", "check_stopped", "delete_config"}
       \/ pc[p] \in {"attach_get", "attach_put", "detach_put"} /\ job[p].dev = "config"

\* The deferred DeleteVM of create_vm sees an error only from the steps that assign the
\* outer err: not from CreateInstance, which runs before it is deferred, and not from the
\* block of the ephemeral disk, which declares an err of its own.
RollsBack(p) ==
    /\ job[p].op = "create_vm"
    /\ \/ pc[p] \in {"locate", "write_env", "locate_vm", "create_config", "find_config",
                     "config_get", "check_stopped", "delete_config", "start_vm"}
       \/ pc[p] \in {"attach_get", "attach_put", "detach_put"} /\ job[p].dev = "config"

\* Nothing but the call itself survives its end.
Bare(p) == [NoJob EXCEPT !.op = job[p].op, !.vm = job[p].vm, !.disk = job[p].disk]

Abort(p) == Goto(p, IF RollsBack(p) THEN "has_vm" ELSE "failed", Bare(p))

Fault == faults < MaxFaults /\ faults' = faults + 1

Request(p, ok, Effect, next, work) ==
    /\ \/ ok /\ Effect /\ Goto(p, next, work) /\ UNCHANGED faults
       \/ ok /\ Lossy /\ Effect /\ Fault /\ Abort(p)
       \/ ~ok /\ UNCHANGED <<server, faults>> /\ Abort(p)
       \/ Fault /\ UNCHANGED server /\ Abort(p)
    /\ UNCHANGED <<file, todo, director>>

Read(p, ok, next, work) == Request(p, ok, UNCHANGED server, next, work)

-----------------------------------------------------------------------------
(* create_vm *)

CreateInstanceStep(p) == pc[p] = "create_instance" /\
    LET v == job[p].vm IN
    \E n \in Node : Request(p, ~Exists(v), CreateInstance(v, n), "locate", job[p])

\* GetInstanceLocation: of the new VM, of the VM a disk is created for, of the VM
\* whose settings are written.
AfterLocate(p) ==
    CASE pc[p] = "locate_vm"          -> {"create_config"}
      [] job[p].op = "create_disk"    -> {"create_disk"}
      [] OTHER                        -> {IF e THEN "create_ephemeral" ELSE "write_env" : e \in Ephemeral}

Locate(p) == pc[p] \in {"locate", "locate_vm"} /\
    LET v == job[p].vm IN
    \E next \in AfterLocate(p) :
        Read(p, Exists(v), next, [job[p] EXCEPT !.node = host[v]])

CreateEphemeral(p) == pc[p] = "create_ephemeral" /\
    LET x == EphOf(job[p].vm) IN
    Request(p, vols[x] = {}, CreateVolume(x, job[p].node), "attach_get",
            [job[p] EXCEPT !.node = None, !.dev = "ephemeral", !.src = x])

StartVM(p) == pc[p] = "start_vm" /\
    LET v == job[p].vm IN
    Request(p, Exists(v), StartInstance(v), "ok", Bare(p))

-----------------------------------------------------------------------------
(* AttachDevice: read the device table and its etag, add the device, write back. *)

AfterAttach(p) ==
    IF job[p].dev # "config" THEN "write_env"
    ELSE IF job[p].op = "create_vm" THEN "start_vm" ELSE "ok"

\* (mutant) The settings are written without the disk that was attached.
WithAttachedForgotten(j) == j.env

\* The agent settings record a persistent disk once it is attached.
WithAttached(j) ==
    IF j.dev \in PersistentDev THEN [j.env EXCEPT ![j.disk] = j.dev] ELSE j.env

AttachGet(p) == pc[p] = "attach_get" /\
    LET v == job[p].vm IN
    Read(p, Exists(v) /\ devs[v][job[p].dev] = None, "attach_put", [job[p] EXCEPT !.seen = devs[v]])

\* (mutant) The update carries no etag.
AttachPutNoEtag(p) == pc[p] = "attach_put" /\
    LET j == job[p]
        table == [j.seen EXCEPT ![j.dev] = j.src]
    IN  Request(p, CanPutDevices(j.vm, table), PutDevices(j.vm, table),
                AfterAttach(p),
                IF j.dev = "config" THEN Bare(p)
                ELSE [Bare(p) EXCEPT !.env = WithAttached(j)])

AttachPut(p) == pc[p] = "attach_put" /\
    LET j == job[p]
        table == [j.seen EXCEPT ![j.dev] = j.src]
    IN  Request(p, devs[j.vm] = j.seen /\ CanPutDevices(j.vm, table), PutDevices(j.vm, table),
                AfterAttach(p),
                IF j.dev = "config" THEN Bare(p)
                ELSE [Bare(p) EXCEPT !.env = WithAttached(j)])

(* DetachDeviceByName and DetachDeviceBySource: the update carries no etag. *)

ConfigGet(p) == pc[p] = "config_get" /\
    LET v == job[p].vm
        there == devs[v]["config"] # None
    IN  Read(p, Exists(v), IF there THEN "detach_put" ELSE "check_stopped",
             IF there THEN [job[p] EXCEPT !.seen = devs[v]] ELSE job[p])

DetachGet(p) == pc[p] = "detach_get" /\
    LET v == job[p].vm
        holders == {d \in Dev : devs[v][d] = job[p].disk}
    IN  \/ holders = {} /\ Read(p, Exists(v), "read_env", job[p])
        \/ \E d \in holders :
              Read(p, Exists(v), "detach_put", [job[p] EXCEPT !.dev = d, !.seen = devs[v]])

\* (mutant) The disk goes with the ephemeral one, as if delete_vm removed it.
DetachPutBoth(p) == pc[p] = "detach_put" /\
    LET j == job[p]
        table == [j.seen EXCEPT ![j.dev] = None, !["ephemeral"] = None]
        config == j.dev = "config"
    IN  Request(p, CanPutDevices(j.vm, table), PutDevices(j.vm, table),
                IF config THEN "check_stopped" ELSE "read_env",
                IF config THEN [j EXCEPT !.seen = None] ELSE Bare(p))

DetachPut(p) == pc[p] = "detach_put" /\
    LET j == job[p]
        table == [j.seen EXCEPT ![j.dev] = None]
        config == j.dev = "config"
    IN  Request(p, CanPutDevices(j.vm, table), PutDevices(j.vm, table),
                IF config THEN "check_stopped" ELSE "read_env",
                IF config THEN [j EXCEPT !.seen = None] ELSE Bare(p))

-----------------------------------------------------------------------------
(* writeAgentFileToVM: agent.json, then a new configuration disk in place of the old one. *)

\* (mutant) The image is made, and the local copy is not kept.
WriteEnvUnsaved(p) == pc[p] = "write_env" /\
    /\ Goto(p, "locate_vm", job[p])
    /\ UNCHANGED <<faults, file, server, todo, director>>

\* os.WriteFile truncates before it writes, and the image is built after it.
WriteEnv(p) == pc[p] = "write_env" /\
    LET v == job[p].vm IN
    /\ \/ /\ file' = [file EXCEPT ![v] = job[p].env]
          /\ Goto(p, "locate_vm", job[p])
          /\ UNCHANGED faults
       \/ /\ \E left \in {file[v], Torn, job[p].env} : file' = [file EXCEPT ![v] = left]
          /\ Fault /\ Abort(p)
    /\ UNCHANGED <<server, todo, director>>

\* A name no one has in hand: the code draws a UUID.
Fresh(c) ==
    /\ vols[c] = {} /\ UsedBy(c) = {} /\ c \notin todo
    /\ \A q \in Proc : c # job[q].src /\ c \notin job[q].trash

CreateConfig(p) == pc[p] = "create_config" /\
    \E c \in ConfVol :
        /\ Fresh(c)
        /\ Request(p, TRUE, CreateISO(c, job[p].node, job[p].env), "find_config",
                   [Bare(p) EXCEPT !.dev = "config", !.src = c])

FindConfig(p) == pc[p] = "find_config" /\
    LET v == job[p].vm
        old == devs[v]["config"]
    IN  Read(p, Exists(v), IF old = None THEN "attach_get" ELSE "config_get",
             [job[p] EXCEPT !.trash = {old} \ {None}])

\* (mutant) Waits for the VM to stop.
CheckStoppedPolling(p) == pc[p] = "check_stopped" /\
    LET v == job[p].vm IN
    Read(p, Exists(v), IF v \in running THEN "check_stopped" ELSE "delete_config", job[p])

CheckStopped(p) == pc[p] = "check_stopped" /\
    LET v == job[p].vm IN
    IF v \in running
    THEN Read(p, Exists(v), "attach_get", [job[p] EXCEPT !.trash = {}])
    ELSE Read(p, Exists(v), "delete_config", job[p])

DeleteConfig(p) == pc[p] = "delete_config" /\
    \E c \in job[p].trash :
        Request(p, CanDeleteVolume(c), DeleteVolume(c), "attach_get", [job[p] EXCEPT !.trash = {}])

-----------------------------------------------------------------------------
(* attach_disk and detach_disk *)

\* (mutant) The first path, whatever the settings say.
FreeSlotFirst(e) == "persistent-1"

FreeSlot(e) ==
    IF \A d \in Disk : e[d] # "persistent-1" THEN "persistent-1"
    ELSE IF \A d \in Disk : e[d] # "persistent-2" THEN "persistent-2" ELSE None

\* (mutant) detach_disk writes the settings back as they were.
ReadEnvKeeping(p) == pc[p] = "read_env" /\
    LET e == file[job[p].vm]
        readable == e \notin {Absent, Torn}
    IN  \/ /\ job[p].op = "attach_disk"
           /\ Read(p, readable /\ FreeSlot(e) # None, "colocate",
                   [job[p] EXCEPT !.dev = FreeSlot(e), !.src = job[p].disk, !.env = e])
        \/ /\ job[p].op = "detach_disk"
           /\ Read(p, readable, "write_env", [job[p] EXCEPT !.env = e])

ReadEnv(p) == pc[p] = "read_env" /\
    LET e == file[job[p].vm]
        readable == e \notin {Absent, Torn}
    IN  \/ /\ job[p].op = "attach_disk"
           /\ Read(p, readable /\ FreeSlot(e) # None, "colocate",
                   [job[p] EXCEPT !.dev = FreeSlot(e), !.src = job[p].disk, !.env = e])
        \/ /\ job[p].op = "detach_disk"
           /\ Read(p, readable, "write_env",
                   [job[p] EXCEPT !.env = [e EXCEPT ![job[p].disk] = None]])

\* ColocateStoragePoolVolumeWithInstance: look up both places, copy, delete the source.
Colocate(p) == pc[p] = "colocate" /\
    LET v == job[p].vm
        x == job[p].disk
    IN  \/ Located(x, host[v]) /\ Read(p, Exists(v), "attach_get", job[p])
        \/ \E n \in Node \ {host[v]} :
              /\ Located(x, n)
              /\ Read(p, Exists(v), "copy_volume", [job[p] EXCEPT !.node = n, !.to = host[v]])
        \/ ~(\E n \in Node : Located(x, n)) /\ Read(p, FALSE, "failed", job[p])

\* (mutant) The source is left where it is.
CopyVolumeKeepingSource(p) == pc[p] = "copy_volume" /\
    LET j == job[p] IN
    Request(p, CanCopyVolume(j.disk, j.node, j.to), CopyVolume(j.disk, j.to), "attach_get", j)

\* (mutant) The source is deleted without waiting for the copy.
CopyVolumeUnawaited(p) == pc[p] = "copy_volume" /\ Read(p, TRUE, "drop_source", job[p])

CopyVolumeStep(p) == pc[p] = "copy_volume" /\
    LET j == job[p] IN
    Request(p, CanCopyVolume(j.disk, j.node, j.to), CopyVolume(j.disk, j.to), "drop_source", j)

DropSource(p) == pc[p] = "drop_source" /\
    LET x == job[p].disk IN
    Request(p, CanDropCopy(x, job[p].node), DropCopy(x, job[p].node),
            "attach_get", [job[p] EXCEPT !.node = None, !.to = None])

-----------------------------------------------------------------------------
(* delete_vm, and the rollback of create_vm *)

\* (mutant) An error of the query means that there is no VM, as in delete_stemcell.
HasVMUnsure(p) == pc[p] = "has_vm" /\
    \/ Read(p, TRUE, IF Exists(job[p].vm) THEN "stop_vm" ELSE "delete_file", job[p])
    \/ Fault /\ Goto(p, "delete_file", job[p]) /\ UNCHANGED <<server, file, todo, director>>

HasVM(p) == pc[p] = "has_vm" /\
    Read(p, TRUE, IF Exists(job[p].vm) THEN "stop_vm" ELSE "delete_file", job[p])

StopVM(p) == pc[p] = "stop_vm" /\
    LET v == job[p].vm IN
    Request(p, Exists(v), StopInstance(v), "list_disks", job[p])

\* (mutant) A device that is missing is looked up all the same.
ListDisksUnfiltered(p) == pc[p] = "list_disks" /\
    LET v == job[p].vm IN
    Read(p, Exists(v), "delete_instance",
         [job[p] EXCEPT !.trash = {devs[v]["config"], devs[v]["ephemeral"]}])

ListDisks(p) == pc[p] = "list_disks" /\
    LET v == job[p].vm IN
    Read(p, Exists(v), "delete_instance",
         [job[p] EXCEPT !.trash = {devs[v]["config"], devs[v]["ephemeral"]} \ {None}])

DeleteInstanceStep(p) == pc[p] = "delete_instance" /\
    LET v == job[p].vm IN
    Request(p, CanDeleteInstance(v), DeleteInstance(v),
            IF job[p].trash = {} THEN "delete_file" ELSE "delete_volumes", job[p])

\* In the order the map of disks is iterated, which is any.
DeleteVolumes(p) == pc[p] = "delete_volumes" /\
    \E x \in job[p].trash :
        Request(p, CanDeleteVolume(x), DeleteVolume(x),
                IF job[p].trash = {x} THEN "delete_file" ELSE "delete_volumes",
                [job[p] EXCEPT !.trash = @ \ {x}])

DeleteFile(p) == pc[p] = "delete_file" /\
    /\ \/ /\ file' = [file EXCEPT ![job[p].vm] = Absent]
          /\ Goto(p, IF job[p].op = "delete_vm" THEN "ok" ELSE "failed", Bare(p))
          /\ UNCHANGED faults
       \/ Fault /\ UNCHANGED file /\ Abort(p)
    /\ UNCHANGED <<server, todo, director>>

-----------------------------------------------------------------------------
(* create_disk and delete_disk *)

CreateDisk(p) == pc[p] = "create_disk" /\
    LET x == job[p].disk IN
    Request(p, vols[x] = {}, CreateVolume(x, job[p].node), "ok", Bare(p))

DeleteDisk(p) == pc[p] = "delete_disk" /\
    LET x == job[p].disk IN
    Request(p, CanDeleteVolume(x), DeleteVolume(x), "ok", Bare(p))

-----------------------------------------------------------------------------
(* The director: it makes calls, one process each, and learns from the answers. *)

VMIdle(v) == \A q \in Proc : job[q].vm # v
DiskIdle(d) == \A q \in Proc : job[q].disk # d

Call(p, op, v, d, env) ==
    /\ op \in Ops
    /\ pc[p] = "idle"
    /\ Overlap \/ v = None \/ VMIdle(v)
    /\ Goto(p, Start[op], [NoJob EXCEPT !.op = op, !.vm = v, !.disk = d, !.env = env])
    /\ UNCHANGED <<server, file, todo, faults, trust>>

CallCreateVM(p, v) ==
    /\ cid[v] = "free" /\ cid' = [cid EXCEPT ![v] = "pending"]
    /\ Call(p, "create_vm", v, None, NoDisks)
    /\ UNCHANGED <<owner, unsure>>

\* A delete that failed is repeated, and one that was answered may be.
CallDeleteVM(p, v) ==
    /\ cid[v] \in {"known", "deleted"}
    /\ Call(p, "delete_vm", v, None, None)
    /\ UNCHANGED <<cid, owner, unsure>>

CallCreateDisk(p, v, d) ==
    /\ cid[v] = "known" /\ cid[d] = "free" /\ cid' = [cid EXCEPT ![d] = "pending"]
    /\ Call(p, "create_disk", v, d, None)
    /\ UNCHANGED <<owner, unsure>>

CallDeleteDisk(p, d) ==
    /\ cid[d] = "known" /\ owner[d] = None /\ DiskIdle(d)
    /\ Call(p, "delete_disk", None, d, None)
    /\ UNCHANGED <<cid, owner, unsure>>

CallAttachDisk(p, v, d) ==
    /\ cid[v] = "known" /\ cid[d] = "known" /\ DiskIdle(d)
    /\ owner[d] = None \/ (owner[d] = v /\ d \in unsure)
    /\ owner' = [owner EXCEPT ![d] = v] /\ unsure' = unsure \cup {d}
    /\ Call(p, "attach_disk", v, d, None)
    /\ UNCHANGED cid

CallDetachDisk(p, v, d) ==
    /\ cid[v] = "known" /\ owner[d] = v /\ DiskIdle(d)
    /\ unsure' = unsure \cup {d}
    /\ Call(p, "detach_disk", v, d, None)
    /\ UNCHANGED <<cid, owner>>

\* What the director concludes from an answer; good is false for an error and for a
\* process that died.
Conclude(j, good) ==
    LET subject == IF j.op \in {"create_vm", "delete_vm"} THEN j.vm ELSE j.disk
        gone == {d \in Disk : good /\ j.op = "delete_vm" /\ owner[d] = j.vm}
        detached == {d \in Disk : good /\ j.op = "detach_disk" /\ d = j.disk}
        attached == {d \in Disk : good /\ j.op = "attach_disk" /\ d = j.disk}
    IN  /\ cid' = [cid EXCEPT ![subject] =
                      IF j.op \in {"create_vm", "create_disk"}
                      THEN IF good THEN "known" ELSE "failed"
                      ELSE IF good /\ j.op \in {"delete_vm", "delete_disk"} THEN "deleted" ELSE @]
        /\ owner' = [d \in Disk |-> IF d \in gone \cup detached THEN None ELSE owner[d]]
        /\ unsure' = unsure \ (gone \cup detached \cup attached)
        /\ trust' = [v \in VM |->
              IF j.op \notin VMOps \/ v # j.vm THEN trust[v]
              ELSE IF ~good THEN "broken"
              ELSE IF trust[v] = "broken" THEN "mended" ELSE trust[v]]

Reply(p) ==
    /\ pc[p] \in {"ok", "failed"}
    /\ Conclude(job[p], pc[p] = "ok")
    /\ Goto(p, "idle", NoJob)
    /\ UNCHANGED <<server, file, todo, faults>>

\* The process is killed between two requests; while it writes agent.json, the file may stay cut.
Crash(p) ==
    /\ Crashes /\ Fault
    /\ pc[p] # "idle"
    /\ Conclude(job[p], FALSE)
    /\ Goto(p, "idle", NoJob)
    /\ \/ UNCHANGED file
       \/ pc[p] = "write_env" /\ file' = [file EXCEPT ![job[p].vm] = Torn]
    /\ UNCHANGED <<server, todo>>

-----------------------------------------------------------------------------
(* cmd/cleanup: list the configuration disks nothing uses, then delete them one by one. *)

\* (mutant) The test of the use count is inverted.
CleanupScanUsed ==
    /\ "cleanup" \in Ops /\ todo = {}
    /\ todo' = {c \in ConfVol : vols[c] # {} /\ UsedBy(c) # {}}
    /\ UNCHANGED <<server, pc, job, file, faults, director>>

CleanupScan ==
    /\ "cleanup" \in Ops /\ todo = {}
    /\ todo' = {c \in ConfVol : vols[c] # {} /\ UsedBy(c) = {}}
    /\ UNCHANGED <<server, pc, job, file, faults, director>>

CleanupDelete ==
    /\ \E c \in todo :
          /\ todo' = todo \ {c}
          /\ \/ CanDeleteVolume(c) /\ DeleteVolume(c) /\ UNCHANGED faults
             \/ ~CanDeleteVolume(c) /\ UNCHANGED <<server, faults>>
             \/ Fault /\ UNCHANGED server
    /\ UNCHANGED <<pc, job, file, director>>

\* It ends before its list does.
CleanupKilled ==
    /\ Crashes /\ Fault
    /\ todo # {} /\ todo' = {}
    /\ UNCHANGED <<server, pc, job, file, director>>

-----------------------------------------------------------------------------

Step(p) ==
    \/ CreateInstanceStep(p) \/ Locate(p) \/ CreateEphemeral(p) \/ StartVM(p)
    \/ AttachGet(p) \/ AttachPut(p) \/ ConfigGet(p) \/ DetachGet(p) \/ DetachPut(p)
    \/ WriteEnv(p) \/ CreateConfig(p) \/ FindConfig(p) \/ CheckStopped(p) \/ DeleteConfig(p)
    \/ ReadEnv(p) \/ Colocate(p) \/ CopyVolumeStep(p) \/ DropSource(p)
    \/ HasVM(p) \/ StopVM(p) \/ ListDisks(p) \/ DeleteInstanceStep(p)
    \/ DeleteVolumes(p) \/ DeleteFile(p)
    \/ CreateDisk(p) \/ DeleteDisk(p)
    \/ Reply(p)

Director(p) ==
    \/ \E v \in VM : CallCreateVM(p, v) \/ CallDeleteVM(p, v)
    \/ \E v \in VM, d \in Disk :
          CallCreateDisk(p, v, d) \/ CallAttachDisk(p, v, d) \/ CallDetachDisk(p, v, d)
    \/ \E d \in Disk : CallDeleteDisk(p, d)

Cleanup == CleanupScan \/ CleanupDelete

Next == Cleanup \/ CleanupKilled \/ \E p \in Proc : Step(p) \/ Director(p) \/ Crash(p)

Spec == Init /\ [][Next]_vars

\* Requests are answered in the end, and the daily cleanup runs.
FairSpec == Spec /\ WF_vars(Cleanup) /\ \A p \in Proc : WF_vars(Step(p))

-----------------------------------------------------------------------------
(* Properties *)

\* The requests of each call, and the locals a call has at each of them.
WriteRequests == {"write_env", "locate_vm", "create_config", "find_config", "config_get",
                  "detach_put", "check_stopped", "delete_config", "attach_get", "attach_put"}
DeleteRequests == {"has_vm", "stop_vm", "list_disks", "delete_instance", "delete_volumes",
                   "delete_file"}
RequestsOf(op) == {"ok", "failed"} \cup
    CASE op = "create_vm"   -> {"create_instance", "locate", "create_ephemeral", "start_vm"}
                                   \cup WriteRequests \cup DeleteRequests
      [] op = "delete_vm"   -> DeleteRequests
      [] op = "attach_disk" -> {"read_env", "colocate", "copy_volume", "drop_source"}
                                   \cup WriteRequests
      [] op = "detach_disk" -> {"detach_get", "read_env"} \cup WriteRequests
      [] op = "create_disk" -> {"locate", "create_disk"}
      [] OTHER              -> {"delete_disk"}

JobOK(at, j) ==
    /\ at = "idle" <=> j.op = None
    /\ at = "idle" => j = NoJob
    /\ at # "idle" => at \in RequestsOf(j.op)
    /\ j.op \in VMOps \cup {"create_disk"} => j.vm \in VM
    /\ j.op \in DiskOps \cup {"attach_disk", "detach_disk"} => j.disk \in Disk
    /\ j.op \in {"create_vm", "delete_vm"} => j.disk = None
    /\ j.src # None => j.dev # None /\ j.src \in Backing(j.dev)
    /\ at \in {"attach_get", "attach_put", "colocate", "copy_volume", "drop_source",
               "find_config", "config_get", "check_stopped", "delete_config"} => j.src # None
    /\ at \in {"colocate", "copy_volume", "drop_source"} =>
           j.dev \in PersistentDev /\ j.src = j.disk
    /\ at \in {"find_config", "config_get", "check_stopped", "delete_config"} => j.dev = "config"
    /\ at = "detach_put" => IF j.dev = "config" THEN j.src # None
                            ELSE j.dev \in PersistentDev /\ j.op = "detach_disk"
    /\ at \in {"read_env", "detach_get"} => j.src = None
    /\ at \in {"attach_put", "detach_put"} => j.seen # None
    /\ at \in {"create_ephemeral", "create_config", "create_disk", "copy_volume",
               "drop_source"} => j.node # None
    /\ at \in {"copy_volume", "drop_source"} => j.to # None
    /\ \/ at \in {"create_ephemeral", "write_env", "locate_vm", "create_config", "colocate",
                  "copy_volume", "drop_source"}
       \/ at \in {"create_instance", "locate"} /\ j.op = "create_vm"
       \/ at \in {"attach_get", "attach_put"} /\ j.dev # "config"
       => j.env # None

TypeOK ==
    /\ ServerTypeOK
    /\ pc \in [Proc -> PC]
    /\ job \in [Proc -> Job]
    /\ \A p \in Proc : JobOK(pc[p], job[p])
    /\ file \in [VM -> Env \cup {Absent, Torn}]
    /\ todo \subseteq ConfVol
    /\ faults \in 0..MaxFaults
    /\ cid \in [VM \cup Disk -> {"free", "pending", "known", "failed", "deleted"}]
    /\ owner \in [Disk -> VM \cup {None}]
    /\ unsure \subseteq Disk
    /\ trust \in [VM -> {"clean", "mended", "broken"}]

\* The configuration disk a VM's agent reads holds what agent.json says, once the last call
\* on the VM has succeeded: whatever failed before, however often (writeAgentFileToVM).
AgentSeesRecord == \A v \in VM :
    cid[v] = "known" /\ VMIdle(v) /\ trust[v] # "broken" =>
        \E c \in ConfVol : devs[v]["config"] = c /\ iso[c] = file[v]

\* A disk whose attach_disk succeeded is in agent.json and its device is the one agent.json
\* names, in every later state until the director asks to detach it, through failures of
\* other calls on the VM (attach_disk and detach_disk read, change and rewrite agent.json).
AttachedIsRecorded == \A d \in Disk, v \in VM :
    owner[d] = v /\ d \notin unsure /\ Exists(v) /\ file[v] \notin {Absent, Torn} =>
        \E s \in PersistentDev : file[v][d] = s /\ devs[v][s] = d

\* A disk the director has detached is on no VM and in no agent.json, unless a call on that
\* VM failed (detach_disk undoes all attach_disk did).
DetachedIsFree == \A d \in Disk, v \in VM :
    owner[d] = None /\ cid[d] = "known" /\ DiskIdle(d) /\ trust[v] = "clean" =>
        /\ d \notin Sources(v)
        /\ file[v] \notin {Absent, Torn} => file[v][d] = None

\* No settings, wherever they are on their way, put two disks at one path (attach_disk picks
\* the path by what it reads in agent.json).
Settings ==
    ({file[v] : v \in VM} \cup {iso[c] : c \in ConfVol} \cup {job[p].env : p \in Proc})
        \ {Absent, Torn, None}
EnvSlotsDistinct == \A e \in Settings, d1, d2 \in Disk :
    d1 # d2 /\ e[d1] = e[d2] => e[d1] = None

\* A persistent disk disappears only by delete_disk of that disk: no delete_vm, rollback,
\* cleanup or move between members takes it, at whatever request it fails.
PersistentDiskSafe ==
    [][\A d \in Disk : vols[d] # {} /\ vols'[d] = {} =>
          \E p \in Proc : job[p].op = "delete_disk" /\ job[p].disk = d]_vars

\* AttachDevice adds its device and undoes nothing that another call did to the VM since it
\* read the device table (its update carries the etag, those of DetachDevice* do not).
AttachKeepsOthers ==
    [][\A p \in Proc : pc[p] = "attach_put" /\ devs' # devs /\ pc'[p] # pc[p] =>
          \A v \in VM, d \in Dev : devs'[v][d] # devs[v][d] =>
              v = job[p].vm /\ d = job[p].dev /\ devs[v][d] = None]_vars

\* As long as no call on a VM failed, a disk no call works on is on one member only: the
\* hand-made move of ColocateStoragePoolVolumeWithInstance is complete when attach_disk is.
OneCopy == (\A v \in VM : trust[v] = "clean") =>
    \A d \in Disk : DiskIdle(d) => \A m, n \in vols[d] : m = n

\* create_vm that failed left no VM and no agent.json, if one request failed (the deferred
\* DeleteVM undoes all that was done, from whatever request it starts at).
CreateRollsBack == \A v \in VM :
    faults <= 1 /\ cid[v] = "failed" => ~Exists(v) /\ file[v] = Absent

\* A create_vm that fails, of a request after CreateInstance and outside the block of the
\* ephemeral disk, leaves no VM and no agent.json, if that was the only failure so far: the
\* deferred DeleteVM undoes all that was done, the failed request included if it took effect.
RollbackComplete ==
    [][\A p \in Proc :
        /\ job[p].op = "create_vm" /\ pc[p] # "failed" /\ pc'[p] = "failed" /\ faults' <= 1
        /\ pc[p] \notin {"create_instance", "create_ephemeral"} /\ job[p].dev # "ephemeral"
        => host'[job[p].vm] = None /\ file'[job[p].vm] = Absent]_vars

\* The update of a detach function undoes nothing but the device it is about, although it
\* carries no etag, as long as the VM has one call at a time (DetachDeviceByName,
\* DetachDeviceBySource).
DetachKeepsOthers ==
    [][\A p \in Proc : pc[p] = "detach_put" /\ devs' # devs /\ pc'[p] # pc[p] =>
          \A v \in VM, d \in Dev : devs'[v][d] # devs[v][d] =>
              v = job[p].vm /\ d = job[p].dev /\ devs'[v][d] = None]_vars

\* A call ends (every loop of requests is finite; nothing waits for another call).
CallsEnd == \A p \in Proc : pc[p] # "idle" ~> pc[p] = "idle"

\* A configuration disk that nothing uses is attached or collected in the end.
ConfigCollected == \A c \in ConfVol :
    vols[c] # {} /\ UsedBy(c) = {} ~> vols[c] = {} \/ UsedBy(c) # {}
=============================================================================
