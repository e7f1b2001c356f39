------------------------------ MODULE MCThrottle ------------------------------
(* Instances of Throttle for TLC. *)
EXTENDS Throttle, TLC

\* Processes are interchangeable (safety runs only).
Symmetry == Permutations(Client)
=============================================================================
