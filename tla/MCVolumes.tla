------------------------------ MODULE MCVolumes ------------------------------
(* Instances of Volumes for TLC. *)
EXTENDS Volumes, TLC

\* Processes, snapshots and sizes are interchangeable; VMs are not, by WithEphemeral.
Symmetry == Permutations(Proc) \cup Permutations(Snap) \cup Permutations(Size)
                \cup Permutations(Node)
=============================================================================
