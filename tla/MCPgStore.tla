----------------------------- MODULE MCPgStore ------------------------------
(* PgStore on a small instance. *)
EXTENDS PgStore, TLC

\* The bootstrap account's stamp and a later one: rows with equal stamps, and rows that
\* become visible in another order than that of their created_at.
SomeStamps == 0..1

\* Goroutines are interchangeable; so are the ids, usernames and emails other than
\* the bootstrap account's.  The run checks no liveness property.
Symmetry ==
    Permutations(Procs) \cup Permutations(Ids \ {AdminId})
    \cup Permutations(Usernames \ {AdminName}) \cup Permutations(Emails \ {AdminEmail})
=============================================================================
