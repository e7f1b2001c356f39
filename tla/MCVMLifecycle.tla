---------------------------- MODULE MCVMLifecycle ----------------------------
(* Instances of VMLifecycle for TLC. *)
EXTENDS VMRefinement, TLC

\* VMs, disks and configuration disks are interchangeable (safety runs only).
Symmetry == Permutations(VM) \cup Permutations(Disk) \cup Permutations(ConfVol)
                \cup Permutations(Proc)
=============================================================================
