----------------------------- MODULE MCOrgStore -----------------------------
(* OrgStore on small instances. *)
EXTENDS OrgStore, TLC

Symmetry == Permutations(OrgIds) \cup Permutations(Users) \cup Permutations(Roles)
=============================================================================
