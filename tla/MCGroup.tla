------------------------------ MODULE MCGroup ------------------------------
(* Small instances of Group for TLC. *)
EXTENDS Group, TLC

Symmetry == Permutations(Process) \cup Permutations(Request) \cup Permutations(Admin)
=============================================================================
