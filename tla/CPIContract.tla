----------------------------- MODULE CPIContract -----------------------------
(***************************************************************************)
(* What the calls that own VMs and disks promise the director: each takes  *)
(* effect at one moment between its begin and its answer, or not at all;   *)
(* a call answered without an error took effect; one that failed may have; *)
(* a create_vm that fails may undo its own effect.  VMRefinement shows     *)
(* that VMLifecycle, with its many requests per call, keeps the promise.   *)
(***************************************************************************)
CONSTANTS Proc, VM, Disk, None

VARIABLES
    call,   \* call[p]: the call process p serves, and how far it is
    vms,    \* the VMs there are
    disks,  \* the persistent disks there are
    on,     \* <<d, v>>: disk d is attached to v
    cid,    \* what the director knows of each id
    marred  \* the VMs on which a call has failed

vars == <<call, vms, disks, on, cid, marred>>

Calls == {"create_vm", "delete_vm", "create_disk", "delete_disk", "attach_disk", "detach_disk"}
Stage == {"asked", "done", "undoing", "failed"}
Idle == [op |-> None, vm |-> None, disk |-> None, stage |-> None]

Init ==
    /\ call = [p \in Proc |-> Idle]
    /\ vms = {} /\ disks = {} /\ on = {}
    /\ cid = [x \in VM \cup Disk |-> "free"]
    /\ marred = {}

Becomes(p, stage) == call' = [call EXCEPT ![p].stage = stage]

\* The one effect of a call.
CreateVM(v)     == v \notin vms /\ vms' = vms \cup {v} /\ UNCHANGED <<disks, on>>
DeleteVM(v)     == vms' = vms \ {v} /\ on' = on \ (Disk \X {v}) /\ UNCHANGED disks
CreateDisk(d)   == d \notin disks /\ disks' = disks \cup {d} /\ UNCHANGED <<vms, on>>
DeleteDisk(d)   == on \cap ({d} \X VM) = {} /\ disks' = disks \ {d} /\ UNCHANGED <<vms, on>>
AttachDisk(d, v) ==
    /\ v \in vms /\ d \in disks
    /\ on \cap ({d} \X VM) \subseteq {<<d, v>>}
    /\ on' = on \cup {<<d, v>>}
    /\ UNCHANGED <<vms, disks>>
\* A failed attach_disk that was repeated may have attached the disk twice.
DetachDisk(d, v) ==
    /\ on' = on \ {<<d, v>>} \/ (v \in marred /\ UNCHANGED on)
    /\ UNCHANGED <<vms, disks>>

Effect(c) ==
    \/ c.op = "create_vm"   /\ CreateVM(c.vm)
    \/ c.op = "delete_vm"   /\ DeleteVM(c.vm)
    \/ c.op = "create_disk" /\ CreateDisk(c.disk)
    \/ c.op = "delete_disk" /\ DeleteDisk(c.disk)
    \/ c.op = "attach_disk" /\ AttachDisk(c.disk, c.vm)
    \/ c.op = "detach_disk" /\ DetachDisk(c.disk, c.vm)

Begin(p) == call[p] = Idle /\
    \E op \in Calls, v \in VM \cup {None}, d \in Disk \cup {None} :
        LET made == CASE op = "create_vm" -> {v} [] op = "create_disk" -> {d} [] OTHER -> {} IN
        /\ call' = [call EXCEPT ![p] = [op |-> op, vm |-> v, disk |-> d, stage |-> "asked"]]
        /\ \A x \in made : cid[x] = "free"
        /\ cid' = [x \in VM \cup Disk |-> IF x \in made THEN "pending" ELSE cid[x]]
        /\ UNCHANGED <<vms, disks, on, marred>>

\* The effect, and at once perhaps the failure of its request.
Act(p) ==
    /\ call[p].stage = "asked"
    /\ Effect(call[p])
    /\ Becomes(p, "done") \/ Becomes(p, "failed")
    /\ UNCHANGED <<cid, marred>>

Fail(p) ==
    /\ call[p].stage \in Stage
    /\ \/ Becomes(p, "failed")
       \/ call[p].op = "create_vm" /\ call[p].stage = "done" /\ Becomes(p, "undoing")
    /\ UNCHANGED <<vms, disks, on, cid, marred>>

Undo(p) ==
    /\ call[p].stage = "undoing"
    /\ DeleteVM(call[p].vm)
    /\ Becomes(p, "undoing") \/ Becomes(p, "failed")
    /\ UNCHANGED <<cid, marred>>

\* An error tells the director of a create that the id is not to be used.
Answer(p, good) ==
    LET c == call[p]
        subject == IF c.op \in {"create_vm", "delete_vm"} THEN c.vm ELSE c.disk
    IN  /\ c # Idle /\ (good => c.stage = "done")
        /\ call' = [call EXCEPT ![p] = Idle]
        /\ cid' = [cid EXCEPT ![subject] =
                      CASE c.op \in {"create_vm", "create_disk"} -> IF good THEN "known" ELSE "failed"
                        [] c.op \in {"delete_vm", "delete_disk"} -> IF good THEN "deleted" ELSE @
                        [] OTHER -> @]
        /\ marred' = marred \cup IF ~good /\ c.op \notin {"create_disk", "delete_disk"} THEN {c.vm} ELSE {}
        /\ UNCHANGED <<vms, disks, on>>

Next == \E p \in Proc :
    \/ Begin(p) \/ Act(p) \/ Fail(p) \/ Undo(p)
    \/ \E good \in {TRUE, FALSE} : Answer(p, good)

Spec == Init /\ [][Next]_vars
=============================================================================
