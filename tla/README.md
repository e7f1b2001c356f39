# A TLA+ model of the BOSH LXD/Incus CPI

This directory models the *cloud provider interface* that lets a BOSH director
run virtual machines on LXD or Incus: the calls on stemcells, VMs, persistent
disks and snapshots, the store of agent settings, the cleanup of configuration
disks, and the throttle that limits how many calls run at a time. TLC checks
the models on small instances; TLAPS proves the theorems for all values of the
constants.

Source paths are relative to the repository; `cpi/`, `adapter/`, `agentmgr/`,
`throttle/` and `cmd/` below are in its Go tree, `src/`. `map` in
`PROJECT.json` gives the lines of every definition.

## Inventory

The director starts one process of `cmd/cpi` per call. The process reserves a
place at the throttle (if it is enabled), serves its one call by requests to
the LXD/Incus server, and gives the place back. Processes share the server, the
directories of `agent.json` files and of temporary images, one lock file, and
the throttle's map, and coordinate in no other way. Once a day cron runs
`cmd/cleanup`.

| component | state | operations | hard behaviour | what makes it correct | module |
|---|---|---|---|---|---|
| VM calls (`cpi/create_vm.go`, `delete_vm.go`, `utils_agent.go`) | none of its own: instances, device tables, volumes on the server; `agent.json` | create_vm with its deferred delete_vm, delete_vm, has_vm, `writeAgentFileToVM` | any request fails, before or after its effect; the process dies; retries | a failed create leaves nothing; a delete leaves nothing and takes no persistent disk; the settings the VM reads are the recorded ones | `VMLifecycle` |
| disk calls (`cpi/*_disk.go`) | as above | create, delete, attach, detach; the move between members | two calls on one VM; device table and `agent.json` change at different requests | no disk lost or duplicated; device, record and configuration disk agree; one path per disk | `VMLifecycle` |
| adapters (`adapter/lxd`, `adapter/incus`) | none | GET and PUT of the device table, with an etag (attach) or without (detach); volumes; state changes; descriptions | read-modify-write races; operations waited for | an update undoes nobody else's | `LxdServer`, `VMLifecycle`, `Volumes` |
| planning of create_vm (`create_vm.go:24-132`) | locals | devices, networks, target and configuration | random order of Go maps | the result does not depend on the order | `VMPlan` |
| lock of CreateInstance (`create_vm.go:192-210`) | a file lock | lock, up to a timeout | the timeout proceeds without the lock; the holder dies | exclusion up to the timeout; nobody blocked for good | `Stemcells` |
| stemcells (`create_stemcell.go`, `delete_stemcell.go`, `adapter/*/image.go`) | images, aliases, predeployed VMs on the server | find or upload, predeploy, delete | concurrent uploads; image, alias and predeployed VM are made one by one | one id per stemcell; an id that was answered can be used; a deletion is complete | `Stemcells` |
| agent settings (`agentmgr`) | one `agent.json` per VM, temporary images | read, write, delete; build the ISO/FAT image | a temporary name is drawn, freed and used again; `os.WriteFile` truncates first | nobody gets or removes another's image; no file is left | `AgentFiles` |
| snapshots, resizing, metadata (`snapshot_disk.go`, `delete_snapshot.go`, `resize_disk.go`, `set_*_metadata.go`) | sizes, snapshots and descriptions on the server | one to four requests each | whole records are read and written back while others change or move them | no update is undone, no snapshot lost or brought back | `Volumes` |
| cleanup (`cmd/cleanup`) | the listing it works from | list, delete one by one | calls in flight beside it | unused configuration disks go, used ones stay | `VMLifecycle` |
| throttle server (`throttle/server.go`, `cmd/throttle`) | the map of reservations | POST, DELETE, GET, expiry | a goroutine per request and one for the expiry, no lock; death and restart | the limit; reservations end; nobody loses a reservation he uses | `Throttle` |
| throttle client (`throttle/client.go`, `cmd/cpi/main.go`) | one connection, the reservation's id | Lock, LockAndWait, Unlock around ServeOnce | the server goes away; the process dies or exits early | every process ends; nobody waits on reservations of the dead | `Throttle` |
| queries, reboot, configuration, factories, `cmd/tc`, packaging | none | read only | none | - | - |

The hazards of this code, each at its line, with the properties that cover it
or the reason none does, are `hazards` in `PROJECT.json`.

## Modules

    CPIContract            what the calls on VMs and disks promise the director
    LxdServer              the server: instances, devices, volumes (external)
      VMLifecycle          the calls, the cleanup and the director
        VMRefinement       VMLifecycle implements CPIContract
          MCVMLifecycle    symmetry for TLC
        VMLifecycle_proofs     TypeOK, PersistentDiskSafe, OneCopy, AttachKeepsOthers,
                               EnvSlotsDistinct
          VMRefinement_proofs  KeepsContract (with VMRefinement)
            Settings_proofs    AgentSeesRecord, AttachedIsRecorded, DetachedIsFree,
                               RollbackComplete, DetachKeepsOthers
    VMPlan                 what create_vm decides before it makes anything
      MCVMPlan, VMPlan_proofs
    Stemcells              images, aliases, predeployed VMs, CreateInstance and its lock
      MCStemcells, Stemcells_proofs
    SettingsStore          what agentmgr promises the calls
    AgentFiles             agentmgr and the file system below it
      AgentFilesRefinement AgentFiles implements SettingsStore
        MCAgentFiles, AgentFiles_proofs
    Volumes                sizes, snapshots and the updates of whole records
      MCVolumes, Volumes_proofs
    Throttle               the throttle's server and its clients
      MCThrottle, Throttle_proofs

A call of the CPI is one process: `pc[p]` is the request (or file system call)
that process `p` makes next and `job[p]` the local variables of its call. Each
request is one action, so the requests of processes, the cleanup and the
director interleave freely. Local computation belongs to the request it
precedes. On an error the code returns at once. `Fault` bounds by `MaxFaults`
how often, in a behaviour, a request fails that the server would not have
refused, or a process is killed.

Four modules follow a create_vm: `VMPlan` up to its first request that changes
anything, `Stemcells` through the description of its stemcell and
`CreateInstance`, `AgentFiles` inside `Write`, and `VMLifecycle` from
`CreateInstance` on, with `Write` as one step. They are separate because what
each interferes with is separate: the maps it iterates, other calls on the
stemcell, other calls in the temporary directory, other calls on the VM and its
disks.

Definitions marked *(mutant)* are wrong on purpose: each is a plausible bug put
in the place of the definition below it, to show that a property would notice
it. Nothing else refers to them.

### LxdServer

The server is not in the repository; this is what `adapter/lxd` and
`adapter/incus` (which send the same requests) make it do and rely on. A
request is a guard (`Can...`: what the server refuses) and an effect. State:
where each instance runs, which are started, their device tables, on which
cluster members each volume has a copy, and the settings on each configuration
disk. Assumptions about the server, all external: a running instance or a
volume in use is not deleted; a device that an update adds must have its volume
on the instance's member and unused by others; a volume that exists on two
members cannot be named without a target; an update with a stale etag is
refused. The etag here covers the device table, the part of an instance that
the modelled calls change. A volume without location (a remote pool) is the
case of one member.

### VMLifecycle

`Request` and `Read` say how a request ends: answered with its effect; refused
by the server; failed without effect; or, if `Lossy`, failed although it took
effect (`wait()` lost the connection). `RollsBack` is where the deferred
DeleteVM of create_vm runs: only where the failed statement assigns the outer
`err`.

| code | actions |
|---|---|
| `CreateVMV2` | `CreateInstanceStep`, `Locate`, `CreateEphemeral`, `AttachGet`, `AttachPut`, (`writeAgentFileToVM`), `StartVM` |
| `writeAgentFileToVM` | `WriteEnv`, `Locate` (at `locate_vm`), `CreateConfig`, `FindConfig`, `ConfigGet`, `DetachPut`, `CheckStopped`, `DeleteConfig`, `AttachGet`, `AttachPut` |
| `DeleteVM` | `HasVM`, `StopVM`, `ListDisks`, `DeleteInstanceStep`, `DeleteVolumes`, `DeleteFile` |
| `AttachDiskV2` | `ReadEnv`, `Colocate`, `CopyVolumeStep`, `DropSource`, `AttachGet`, `AttachPut`, (`writeAgentFileToVM`) |
| `DetachDisk` | `DetachGet`, `DetachPut`, `ReadEnv`, (`writeAgentFileToVM`) |
| `CreateDisk`, `DeleteDisk` | `Locate`, `CreateDisk`; `DeleteDisk` |
| `cmd/cleanup` | `CleanupScan`, `CleanupDelete`, `CleanupKilled` |

`file[v]` is the agent.json of `v`, of which only the disk part matters here:
which path each persistent disk has. `WriteEnv` that fails, or a process killed
in it, may leave the old file, a torn one, or the new one. `todo` is the listing
a cleanup works from.

The director (`cid`, `owner`, `unsure`, `trust`) is external. It calls only
with ids it was given, attaches a disk to one VM at a time, deletes a disk it
has detached, may repeat a delete, attach or detach that failed, and a
delete_vm that succeeded; it never makes one id twice. With `Overlap = FALSE`
it has one call per VM at a time, as its locks on a deployment see to;
`Overlap = TRUE` drops that. It has one call per disk at a time in both cases.

Simplifications: the GET and PUT of `SetInstanceAction` are one step, as are
the two GETs of the move; `IsConnected` and the UUID generators fail with the
first request that follows them; names of configuration disks are recycled when
nothing refers to them (`Fresh`), because the code's UUIDs never run out and a
model's do; `NewCPI`'s failures end a process before its call. An error text
that mentions the "VM agent", which `wait()` ignores, is not modelled.

### CPIContract and VMRefinement

`CPIContract` is the abstract specification of the six calls that own VMs and
persistent disks: sets of VMs and disks, who is attached to whom, and for every
call a stage. A call takes effect at one moment (`Act`), or not at all; an
answer without error needs the effect; a failed one may have it; only a
create_vm may undo its own (`Undo`). `VMRefinement` maps `VMLifecycle` to it:
VMs are the instances that exist, disks the volumes that have a copy, and the
moment is the request that makes or deletes the instance or volume, or that
writes the device table with the persistent disk. All the other requests, the
move of a disk and the cleanup are stuttering steps, so the map also says that
they cannot be seen in VMs, disks and attachments. The contract's one
concession is `marred`: on a VM on which a call has failed, a repeated
attach_disk may have added a second device for the disk, and detach_disk
removes one of them only (`FindDeviceNameByVolume` takes the first).

### VMPlan

One action per iteration of the loops over Go maps: `PlanNetwork` for the
networks (the NIC, what the agent is told, the target), `ReadConfig` for the
keys of `instance_config`; `ChooseConfig` then decides. The iterations come in
any order. Several keys may occur in one stemcell description; the last one met
wins, which `ConfigOfLine` allows for. A network is reduced to its type, to
whether it has an address, and to its target; the server to
managed_network_assignment, the configured target (cloud properties of the VM
replace it) and whether DHCP is in use.

### Stemcells

| code | actions |
|---|---|
| `CreateStemcell` | `FindExistingImage`, `CreateImage`, `CreateImageAlias`, `CreateInstance` with `InstanceCreated`/`InstanceFails`, `GetInstance`, `DescribeInstance` |
| `DeleteStemcell` | `HasVM`, `DeleteInstance`, `GetImageAlias`, `DeleteImage` |
| `CreateVMV2`, up to its instance | `GetImageAlias`, `GetImage`, `TryLock`, `LockTimeout`, `CreateInstance` ... |

`CreateInstance` takes time at the server: `making[p]` is the operation that
`p` asked for, and it goes on when `p` dies or loses its connection, so that an
instance may appear after its call has failed. The first instance made from an
image prepares the image on the pool (`ready`). `lock` is the holder of the
file lock; the kernel frees it when the process dies; `late` are the processes
that went on without it. `FindExistingImage` ignores an image without alias, as
the code does, and the upload is then refused for its fingerprint. HasVM's error
is answered as success (`unseen`), while an error of the IsConnected before it
is an error. The director deletes a stemcell when no other call works on it;
with `Overlap` it may upload one twice at a time, and it makes any number of VMs
from one at once. Finding the image in the tarball, and the metadata built for
it, are data and left out.

### AgentFiles

Names and files are told apart: `name[n]` is the file called `n`, a file stays
open when its name is removed, and `holds[f]` is what is in it. `MakeProbe`
and `RemoveProbe` are `tempFileName`, which draws a name by making a file and
removes it again; until `CreateImage` another process may draw the same name.
The rest is `Write` of the two managers step by step (`FormatFAT32`,
`FormatISO`, `Truncate`, `Save`, `FillFAT32`, `FillISO`, `Finalize`,
`ReadBack`, and the deferred `Discard`), `Read` and `Delete`. Every step may
fail, or its process be killed. `json[v]` is absent, torn or a setting. Only the
one `userdata` file of an image is followed; the bytes of the file systems, and
the workspace go-diskfs leaves behind for an ISO that is not finalized, are not
modelled. The director has one call on a VM at a time.

### SettingsStore and AgentFilesRefinement

`SettingsStore` is the store as the calls of package `cpi` see it: a Write, Read
or Delete happens at one moment; a Write that fails, or whose process is killed,
leaves the old settings, the new ones or a torn file; one that returns has stored
what its image holds. These are the outcomes that `VMLifecycle` gives to
`WriteEnv`, `ReadEnv`, `DeleteFile` and `Crash`, so the refinement is what
justifies taking `Write` for one step there. `AgentFiles` truncates and writes
`agent.json` well before Write returns, and Write can still fail after that;
the moment is its last step. `AgentFilesRefinement` therefore adds a history
variable, `file`, which keeps what `agent.json` was until the Write that is under
way ends. `Remember` gives it a value in every step and guards none, so
`HistorySpec` has the behaviours of `Spec`.

### Volumes

What `VMLifecycle` leaves out of a volume, its size and its snapshots, and the
calls that read a whole record and write it back: resize_disk and
set_disk_metadata (`GetVolume`, `PutVolume`), set_vm_metadata (`GetInstance`,
`PutInstance`, `GetDevices`, and the ephemeral disk by `GetVolume`,
`PutVolume`), snapshot_disk (`CreateSnapshot` and, with Incus, `GetSnapshot`
and `DescribeSnapshot`), delete_snapshot. Beside them run an attach_disk, with
the move of its disk (`Colocate`, `CopyVolume`, `DropSource`, `AttachGet`,
`AttachPut`), and a detach_disk (`DetachGet`, `DetachPut`). The etag of a
volume covers its size and that of an instance its devices; the descriptions
are left out, so an update of descriptions alone is seen as one that writes
back what was read. While a disk moves it exists on two members, and requests
that name it without a target are refused. The director attaches and detaches
one disk of a VM at a time, and has one resize_disk per disk and one call per
snapshot at a time; everything else overlaps.

### Throttle

Each client is a process of `cmd/cpi` and, after `NextProcess`, the next one.
Every access to the server's map is a step: `CheckLimit` and `Insert` of a POST,
`Lookup` and `Delete` of a DELETE, one `Visit` per key of the expiry's range
loop. Two changes of the map at the same time are undefined in Go: one of them
may be lost (`Overwritten`), or the runtime ends the process (`MapFault`); lost
changes of keys other than the racing ones are not modelled. When the server
dies, the map and all connections go; the client's transport has one connection
made at the start, so it never gets another. Monit restarts the server
(`Restart`). A reservation is named after its client, `age` counts ticks up to
one past `Hold`. GET /transactions only reads, and is left out.

## What the runs check

| run | instance | states | question |
|---|---|---|---|
| `vm_faults` | 1 VM, 2 disks, 1 process, all calls, cleanup, 2 faults, lossy, kills | 907 k | agreement of settings, devices and record through any two failures |
| `vm_concurrent` | 2 VMs on 2 members, 1 disk, 2 processes, all calls, cleanup, no fault | 1.39 M | the same while calls and the cleanup interleave and the disk moves |
| `vm_overlap` | 1 VM, 2 disks, 2 processes on the same VM | 688 k | what the etag and the order of read, change and write protect |
| `vm_contract` | 2 VMs on 2 members, 1 disk, 2 processes, with and without ephemeral disk, 1 fault of any kind | 756 k | `CPIContract`: one effect per call; a failed create_vm leaves nothing; a detach takes one device |
| `vm_live` | 1 VM, 1 disk, 1 process, 1 fault, fair | 33 k | calls end; configuration disks are collected |
| `vm_plan` | 2 networks, 2 targets, 2 lines | 79 k | targets, addresses and configuration in every order |
| `stemcells` | 3 processes, 1 image, 2 aliases, 1 fault or kill, fair | 89 k | ids stay usable, deletions are complete, the lock lets one in and passes on |
| `agent_files` | 2 processes, 2 VMs, 2 names, 2 settings, both kinds, 2 faults | 555 k | each call happens at one moment (`SettingsStore`); nobody removes another's file; nothing is left |
| `volumes` | 2 processes, 2 VMs on 2 members, 1 disk, 2 sizes, 1 snapshot, both adapters, 1 fault | 735 k | no size undone, no snapshot lost or brought back, no device changed by metadata |
| `throttle_live` | 2 clients, limit 1, 1 fault, 1 death, fair | 72 k | a reservation in use is kept; the limit holds but for one race; reservations end, somebody is served, processes end |
| `v_shadow`, `v_limit` | small | - | the disagreements listed below |

The properties are at the end of their modules, each with what it says of the
code.

**Bounds.** Two processes are the fewest that interleave; the stemcells need
three, two uploads and a call that uses the result. Two members make a move
necessary, and two disks fill both paths of a VM, so that a further attachment
(a retry) is refused while an earlier one is half done. Two faults let a request
of a call fail and then one of its retry, or of the rollback, fail too; they
also allow a kill after a torn file. In `agent_files` two names let both
processes draw the same one and a fault leave one occupied. Two aliases let two uploads of
one stemcell name different ids; when both are spent no further upload begins.
One snapshot and two sizes are enough to lose, bring back or undo one. In
`VMLifecycle` there is a configuration disk for each VM and at least one to
replace one with; when all are in use or orphaned, `CreateConfig` waits for the
cleanup, which is why `vm_overlap` and `vm_contract`, without the cleanup, have
four. A limit of one lets one client serve and one be refused; a hold of one
tick makes reservations younger than, as old as, and older than the hold. Faults
and deaths are bounded by `MaxFaults` and `MaxDeaths`; the other counters are
finite by construction. Symmetry is used in safety runs only; `stemcells`,
`throttle_live` and `vm_live` check liveness and have none.

`CHECK_DEADLOCK FALSE` is in the VM configurations and in `stemcells` because
the director may stop calling and the ids of an instance run out, and in
`vm_plan` because planning ends. `agent_files`, `volumes` and `throttle_live`
check for deadlock.

**Fairness.** `VMLifecycle!FairSpec`: each process takes its next step (the
server answers a request or it fails: the client waits for the operation), and
the cleanup runs (cron starts it daily; `pre-start.erb` installs it). The
director need not call, and nothing need fail or be killed.
`Stemcells!FairSpec`: each process goes on, but the server need never finish a
CreateInstance; `LockPassed` holds all the same because of the timeout.
`Throttle!FairSpec`: processes and goroutines run, time passes, the expiry's
ticker fires, monit restarts the server. No strong fairness is assumed: which
waiting process gets a place is chance, so `SomeoneServed` promises that
somebody is.

### Where the code disagrees with what the repository says

`findings` in `PROJECT.json` has the quotations.

1. `v_shadow`: a failure while create_vm makes the ephemeral disk does not roll
   back, since the block declares its own `err` (`cpi/create_vm.go:164`).
   `vm_contract` shows the rollback correct after a failure of any request
   outside that block but the first, also of a VM with an ephemeral disk.
2. `v_limit`: more processes than the limit run (`throttle/server.go:106`).
   `throttle_live` shows that the race between comparison and insertion is the
   only cause.

Behaviour that the models contain and no run is about, because the repository
does not say otherwise or because the properties above state what holds in
spite of it:

* the client reads the status of a response it did not get when the throttle is
  gone, and panics (`throttle/client.go:86`, `UnlockFails`);
* the cleanup may delete a configuration disk that a call has just made
  (`cmd/cleanup/main.go:54`); `vm_concurrent` shows that the harm ends there;
* a delete_vm that failed after the instance was deleted leaks the ephemeral
  volume when it is repeated (`cpi/delete_vm.go:21`);
* an image without alias, left by a failed create_stemcell, makes every retry
  fail (`adapter/lxd/image.go:115`); `NoStrayImage` says when there may be one;
* delete_stemcell answers success when it could not look for the predeployed VM
  (`cpi/delete_stemcell.go:18`); `DeletedClean` excepts this (`unseen`);
* an instance stays when CreateInstance fails after its effect
  (`cpi/create_vm.go:144`: the rollback is deferred only afterwards), which
  `RollbackComplete` excepts;
* a detach that overlaps another call on its VM writes back a table that may be
  stale (`adapter/incus/device.go:63`); the director does not let them overlap;
* with Incus a snapshot stays when its description fails
  (`adapter/incus/snapshot.go:20`).

## What is proved

All theorems are for every value of the constants that satisfies the named
assumption of the module (`ServerAssumption` and `LifecycleAssumption`,
`PlanAssumption`, `StemcellAssumption`, `FilesAssumption`, `VolumesAssumption`,
`ThrottleAssumption`): names are distinct, bounds are numbers.

* `VMLifecycle_proofs!TypeCorrect`: `Spec => []TypeOK`. `TypeOK` is inductive
  because `JobOK` says which locals a call has at which request; a device's
  type, say, holds at `attach_put` only because the table read at `attach_get`
  was kept.
* `VMLifecycle_proofs!DiskSafety`: `Spec => PersistentDiskSafe`. The strengthening
  `DiskInv` adds two facts to the types: no two calls work on one disk
  (`OneCallPerDisk`, from the director's discipline), and a call that is about
  to drop the source of a move has the copy at the destination
  (`SourceHasCopy`). With them every step but delete_disk keeps a copy: delete_vm
  and the rollback delete from the devices `config` and `ephemeral`, whose
  backing volumes are not persistent disks, and the cleanup's list holds
  configuration disks only.
* `VMLifecycle_proofs!DiskOnOneMember`: `Spec => []OneCopy`. `CopyInv` extends the
  property to disks that calls work on: while no call on a VM has failed, a disk
  with two copies is being moved by a call that has made the second one and is
  about to drop the first (`Moving`). A failed request on the way ends in the
  answer that breaks the premise.
* `VMLifecycle_proofs!AttachAddsOnly`: `Spec => AttachKeepsOthers`. A call that is
  at `attach_put` has read a table without the device (`NameFree`), and the etag
  makes the table it read the one that is there. No assumption on overlapping
  calls is needed; for the detach functions, which send no etag, the same would
  be false.
* `VMLifecycle_proofs!SlotsDistinct`: `Spec => []EnvSlotsDistinct`. The strengthening
  `SlotFree` says that from the choice of a path to the attachment, the
  settings the call carries leave that path free; they are the call's own copy,
  so no other call can take the path in them. It holds with overlapping calls,
  kills and torn files.
* `VMRefinement_proofs!ImplementsContract`: `Spec => KeepsContract`, if the
  director runs one call on a VM at a time (`~Overlap`; with overlapping calls
  the table that a detach function writes back, without an etag, may be stale).
  The argument has two halves. `StepMoves` sorts the requests of all calls into nine kinds by what
  they do to instances, device tables and disks (`Moves`): a call rests, finds
  nothing to do, makes or clears its VM, attaches or detaches its disk, changes
  the configuration or ephemeral disk, makes or removes its disk. `MovesKeep`
  shows that each kind keeps `RefInv`, and `MovesMap` that each kind is a step
  of `CPIContract` or leaves what it sees as it is. `RefInv` says what makes the
  answers true: a table that was read for a detach is still there
  (`TableRead`), a delete_vm past its moment has no instance (`DeleteDone`), and,
  on VMs no call has failed on, a detach_disk past its moment has no device
  (`DetachDone`) and an attach_disk before it has none either (`AttachAsked`);
  and, so that this holds when a call begins, the director's view: a disk is
  on such a VM at most once (`Once`) and only on its owner (`Owned`), the call on
  a disk is on its owner (`CallOwns`), and an attach or detach that has not
  succeeded either is under way or has marred the VM (`UnsureMarred`).
* `Settings_proofs!AgentSees`, `AttachedRecorded` and `DetachedFree`:
  `Spec => []AgentSeesRecord`, `[]AttachedIsRecorded` and `[]DetachedIsFree`, if
  the director runs one call on a VM at a time (`~Overlap`; of two calls on a VM
  that read `agent.json` before either writes it, the second would undo the
  first). On top of the invariant of the refinement stand
  `RecordInv` and `SyncInv`. `RecordInv` follows the record of a disk through
  the three places it can be in: the settings a call has read or made
  (`EnvRecords`), those it is about to write or has written (`AttachRecords`,
  `DetachForgets`, `DeleteForgets`) and `agent.json` itself; none of them names a
  disk of another VM (`FileOwned`, `EnvOwned`), and a VM that is not made yet owns
  no disk (`NewIsFree`). The device in the record is the one the disk is on
  because the call notes it after the very update of the device table.
  `SyncInv` follows the content from `agent.json` to the disk: what a call burns
  is what it has just written (`InHand`), the volume that holds it stays as it is
  until it is attached or the cleanup takes it (`OnDisk`), and then the VM's
  configuration disk and `agent.json` agree (`CallSynced`, `IdleSynced`). Again the
  requests are sorted by what they do to settings (`Handles`: eight kinds), and
  no request ever changes the content of a volume that is there (`IsoKept`).
* `Settings_proofs!RollsBackCompletely`: `Spec => RollbackComplete`, if the
  director runs one call on a VM at a time and there is no cleanup (`~Overlap`,
  `"cleanup" \notin Ops`). The rollback fails only by a fault: that has to be
  shown for each of its requests, since a second refusal by the server would
  leave the VM half removed. So the invariant (`RollInv`) is about the volumes
  calls make for themselves, the configuration and ephemeral ones. Each is on
  one member (`OnePlace`), stays while an instance uses it, and one at most does
  (`InUse`); a volume made and not yet attached is in the hands of one call
  (`MadeOwn`); one to be deleted is no other call's, and is there and free when
  its deletion is asked for (`TrashOwn`). `CreateInv` adds that a create_vm that
  builds has an instance on the member it knows (`NodeIsHost`) and one that
  undoes has had its fault. The cleanup is excluded because it may take a
  configuration disk that a call has just made: the call then fails without a
  fault, and the one fault that the property allows may strike its rollback.
  The request of CreateInstance and the ephemeral block are excepted by
  the property, not by an assumption.
* `Settings_proofs!DetachTakesOne`: `Spec => DetachKeepsOthers` (`~Overlap`). The
  table a detach function has read is still there when it writes back, by
  `TableRead` of the refinement's invariant, although nothing checks that.
* `VMPlan_proofs!TypeCorrect`, `TargetIsReconciled`, `ConfigIsOfLine` and
  `NicsAreTold` (`NicsAgree`). While the networks are iterated, the target so far
  is the one everybody asked for among those iterated, the remaining ones are not
  yet counted, and each network iterated has its one NIC (`Planned`); likewise for
  the keys. Nothing in these invariants mentions the order.
* `Stemcells_proofs!TypeCorrect`; `LockExcludes`: `Spec => []SingleThreaded`,
  because a create_vm inside CreateInstance that is not `late` holds the lock
  (`LockInv`), which one process does; `AliasIsUnique`: `Spec => []OneAlias`.
  The strengthening `AliasInv` says that at most one process is between the
  upload of an image and its alias, since the upload was refused to the others
  (`OneImage`, `OneNames`), that no upload runs beside the deletion of the same
  image (`NotWhileDeleted`, `DeletesOwn`), and that an alias names an image
  that is there (`AliasesNameImages`).
* `Stemcells_proofs!CidStaysUsable`: `Spec => []CidUsable`, and
  `DeleteLeavesNothing`: `Spec => []DeletedClean`. Every step is one of seven
  kinds (a call rests, reads, uploads, names, removes, begins or ends; `EveryStep`),
  and `UploadInv` and `DeleteInv` are shown for each. `UploadInv`: a create_stemcell
  past CreateImageAlias has an alias that names its image. `DeleteInv`: a
  delete_stemcell past its look-up of the predeployed VM has removed it
  (`DeletesAll`), at most one process makes that VM (`MadeOnce`), no other call
  works on the stemcell (`DeletesAlone`), and nobody has an alias that was deleted
  (`Gone`).
* `Stemcells_proofs!StraysAreReported`: `Spec => []NoStrayImage`. What is kept is
  a little more: the call that explains an image without an alias is not a
  create_vm (`Explains`), whose failure marks no stemcell. A call that ends well
  leaves its image named (`UploadInv`) or gone (`DeleteInv`).
* `Stemcells_proofs!PredeployPrepares`: `Spec => ImageReady`. As long as nothing
  failed, an image with an alias is prepared or a create_stemcell is on its way to
  have it prepared (`PreparedInv`). Its CreateInstance is not refused, because
  nobody else can make the predeployed VM of the alias it drew (`FreshInv`).
* `AgentFiles_proofs!TypeCorrect`, `WritesOwnImage`, `NothingLeft`,
  `ReadsTheLast`, `RemovesItsOwn`, from one invariant `FilesInv`: from
  CreateImage to Discard the name a process has drawn stands for the image it
  made (`Files`), and the image holds its settings from the fill on (`Saved`).
  The name may be anybody's between RemoveProbe and CreateImage, and there the
  exclusive creation decides. `Alone` (one call on a VM at a time) makes
  `agent.json` the process's own between `Truncate` and the end. `OwnImage` and
  `ReadsLast`, which no run names, follow from `KeepsStore` too, which
  `agent_files` checks.
* `AgentFiles_proofs!ImplementsStore`: `HistorySpec => KeepsStore`. Every action of
  Write either goes on, which `SettingsStore` does not see, or ends (`WriteGoes`,
  `EveryWrite`), and what it ends with is, by `Kept`, the old content, a torn file
  or the new settings; `Saved` and `Locals` say that it is the new one when an
  image is returned. That no other call reads the file in between is `Alone`
  again (`OthersAway`).
* `Volumes_proofs!MetadataIsHarmless`: `Spec => MetadataKeepsDevices`, from the
  types and the etag: the devices that are written back are those that are there.
* `Volumes_proofs!TypeCorrect`, `SizesStay`, `SnapshotsStay`,
  `DeletedSnapshotsStayAway`, from `VolInv`. All copies of a disk are equal,
  also while it moves (`Same`); a request that changes a disk needs its one
  copy, and a copy or a drop only shuffles copies that were there (`Shuffled`).
  An update of descriptions writes back the size that is there, since the etag
  was compared. What a call has brought about (`Done`) is kept by every request
  of the others (`Keeps`), because no two calls of one kind work on one disk or
  snapshot (`Alone`) and a snapshot is only ever on its own disk (`SnapOn`).
* `Throttle_proofs!TypeCorrect` and `Throttle_proofs!ReservationKept`:
  `Spec => []ReservationHeld`. `HeldInv` ties the goroutine of a request to
  what its client waits for (`HandledFor`, `AnswerRead`), so that no release
  of a reservation is under way while its client serves, and extends
  `ReservationHeld` back to the moment of the insertion (`Reserved`).
* `Throttle_proofs!LimitUnlessRaced`: `Spec => LimitHeldAlone`. As long as the
  requests between comparison and insertion are at most one, the map holds at
  most `Limit` reservations, and fewer while there is such a request. Processes
  that serve under a reservation in force are in the map, by `ReservationHeld`.

Only model-checked: the liveness properties `CallsEnd`, `ConfigCollected`,
`LockPassed`, `SlotFreed`, `SomeoneServed` and `ServedEnds` (temporal reasoning
with `ENABLED` is beyond this prover).
Induction over data and recursive definitions would be out of reach too; none is
used.

## Not modelled

* reboot_vm (one request that changes nothing kept here), the queries (has_disk,
  get_disks, info, calculate_vm_cloud_properties), which read and map;
* configuration, factories, the types of cloud properties: no state survives
  them;
* descriptions and the text of metadata; the bytes of images, of the ISO and of
  the FAT32 disk; log messages;
* the error text with "VM agent" that `wait()` ignores: what the operation then
  returns is the server's and not in the repository;
* `cmd/tc`, a developer's command that makes the calls the throttle's client
  makes; packaging, manifests and scripts, used only for the fairness they
  justify.

## Plan

1. An abstract specification of the stemcell calls (a stemcell is there from the
   answer of create_stemcell to its delete_stemcell) and `Stemcells` shown to
   implement it.
2. `RollbackComplete` with the cleanup at work, stated of faults and of the
   cleanup's deletions together.
3. That a delete_vm fails by a fault only, from `HandsInv`, where there is no
   cleanup.
