---------------------------- MODULE MCDirectory -----------------------------
(* Directory on a small instance. *)
EXTENDS Directory, TLC

Symmetry == Permutations(Procs) \cup Permutations(Users)
=============================================================================
