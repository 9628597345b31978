----------------------------- MODULE MCSession ------------------------------
(* Session on a small instance. *)
EXTENDS Session, TLC

\* Goroutines are interchangeable; the run checks no liveness property.
Symmetry == Permutations(Procs)
=============================================================================
