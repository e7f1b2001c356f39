---------------------------- MODULE VMRefinement ----------------------------
(***************************************************************************)
(* VMLifecycle implements CPIContract: the moment a call takes effect is   *)
(* the request that makes or deletes its instance or volume, or that       *)
(* writes the device table.  Everything else a call does -- the agent      *)
(* settings, the configuration disk, the ephemeral disk, the move of a     *)
(* disk to another member -- and the whole cleanup are stuttering steps.   *)
(***************************************************************************)
EXTENDS VMLifecycle

\* The requests a call makes before its effect, the one that has it included.
Before(op) ==
    CASE op = "create_vm"   -> {"create_instance"}
      [] op = "delete_vm"   -> {"has_vm", "stop_vm", "list_disks", "delete_instance"}
      [] op = "create_disk" -> {"locate", "create_disk"}
      [] op = "delete_disk" -> {"delete_disk"}
      [] op = "attach_disk" -> {"read_env", "colocate", "copy_volume", "drop_source",
                                "attach_get", "attach_put"}
      [] OTHER              -> {"detach_get", "detach_put"}

StageOf(at, j) ==
    CASE at = "idle" -> None
      [] at = "failed" -> "failed"
      [] at \in Before(j.op) /\ j.dev # "config" -> "asked"
      [] j.op = "create_vm" /\ at \in DeleteRequests -> "undoing"
      [] OTHER -> "done"

Contract == INSTANCE CPIContract WITH
    call   <- [p \in Proc |-> [op |-> job[p].op, vm |-> job[p].vm, disk |-> job[p].disk,
                               stage |-> StageOf(pc[p], job[p])]],
    vms    <- {v \in VM : Exists(v)},
    disks  <- {d \in Disk : vols[d] # {}},
    on     <- {x \in Disk \X VM : x[1] \in Sources(x[2])},
    marred <- {v \in VM : trust[v] # "clean"}

\* Each call takes effect at one moment and at most once, whatever calls and cleanups run
\* beside it and whichever of its requests fail; answered without an error, it did (the CPI
\* methods of src/src/cpi, against the director's view).
KeepsContract == Contract!Spec
=============================================================================
