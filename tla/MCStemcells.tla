----------------------------- MODULE MCStemcells -----------------------------
(* Instances of Stemcells for TLC. *)
EXTENDS Stemcells, TLC

\* Processes, images and aliases are interchangeable (safety runs only).
Symmetry == Permutations(Proc) \cup Permutations(Image) \cup Permutations(Alias)
=============================================================================
