---------------------------- MODULE MCUdsServer -----------------------------
(* UdsServer on small instances. *)
EXTENDS UdsServer, TLC

Symmetry == Permutations(Conns) \cup Permutations(Stamps)
=============================================================================
