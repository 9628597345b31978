---------------------------- MODULE MCGroupStore ----------------------------
(* GroupStore on a small instance. *)
EXTENDS GroupStore, TLC

Symmetry == Permutations(GroupIds) \cup Permutations(Users) \cup Permutations(Roles)
=============================================================================
