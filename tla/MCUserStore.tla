---------------------------- MODULE MCUserStore -----------------------------
(* UserStore on small instances; the .cfg files choose the workload. *)
EXTENDS UserStore, TLC

\* Goroutines are interchangeable; so are the ids and the emails other than the
\* bootstrap account's.  The run that uses it checks no liveness property.
Symmetry ==
    Permutations(Procs) \cup Permutations(Ids \ {AdminId})
    \cup Permutations(Emails \ {AdminEmail})
=============================================================================
