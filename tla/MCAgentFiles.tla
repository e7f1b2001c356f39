----------------------------- MODULE MCAgentFiles -----------------------------
(* Instances of AgentFiles for TLC, with and without the history variable. *)
EXTENDS AgentFilesRefinement, TLC

\* Processes, VMs, names and settings are interchangeable.
Symmetry == Permutations(Proc) \cup Permutations(VM) \cup Permutations(Name)
                \cup Permutations(Setting)
=============================================================================
