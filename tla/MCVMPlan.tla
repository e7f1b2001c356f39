------------------------------- MODULE MCVMPlan -------------------------------
(* Instances of VMPlan for TLC. *)
EXTENDS VMPlan, TLC

\* Networks, targets and stemcell lines are interchangeable.
Symmetry == Permutations(Network) \cup Permutations(Target) \cup Permutations(Line)
=============================================================================
