---------------------------- MODULE UserRegistry ----------------------------
(***************************************************************************)
(* What the user store promises about account identity, with no index, no  *)
(* goroutine and no intermediate step: an account is a pair of a username  *)
(* and an id, it is registered once, atomically, and is never changed,     *)
(* renamed or removed (deletion is soft: it only changes a status).        *)
(* UserStore is shown to implement this specification.                     *)
(***************************************************************************)
CONSTANTS Usernames, Ids

VARIABLE accounts          \* the <<username, id>> pairs registered so far

TypeOK == accounts \subseteq (Usernames \X Ids)

Init == \E n \in Usernames, i \in Ids : accounts = {<<n, i>>}

\* Registering needs a username and an id that no account has.
Register(n, i) ==
    /\ \A a \in accounts : a[1] # n /\ a[2] # i
    /\ accounts' = accounts \cup {<<n, i>>}

Next == \E n \in Usernames, i \in Ids : Register(n, i)

Spec == Init /\ [][Next]_accounts
=============================================================================
