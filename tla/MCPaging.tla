------------------------------ MODULE MCPaging ------------------------------
(* Paging on a small instance. *)
EXTENDS Paging, TLC

ClientOffsets == {-1, 0, 1, 3, 5}
ClientLimits == {-1, 0, 1, 2, 3}

\* Ids are interchangeable; the run checks no liveness property.
Symmetry == Permutations(Keys)
=============================================================================
