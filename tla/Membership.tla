----------------------------- MODULE Membership -----------------------------
(***************************************************************************)
(* What the organization store and the group store each promise about      *)
(* membership, with one relation instead of two indexes: containers open   *)
(* and close, users join a live container once and leave it, and closing a *)
(* container ends its memberships.  OrgStore and GroupStore implement this.*)
(***************************************************************************)
CONSTANTS Containers, Users

VARIABLES live,      \* the containers that exist
          joined     \* the <<container, user>> pairs of members

vars == <<live, joined>>

TypeOK == live \subseteq Containers /\ joined \subseteq live \X Users

Init == live = {} /\ joined = {}

Open(c) ==
    /\ c \notin live
    /\ live' = live \cup {c}
    /\ UNCHANGED joined

Close(c) ==
    /\ c \in live
    /\ live' = live \ {c}
    /\ joined' = {m \in joined : m[1] # c}

Join(c, u) ==
    /\ c \in live
    /\ <<c, u>> \notin joined
    /\ joined' = joined \cup {<<c, u>>}
    /\ UNCHANGED live

Leave(c, u) ==
    /\ <<c, u>> \in joined
    /\ joined' = joined \ {<<c, u>>}
    /\ UNCHANGED live

Next ==
    \/ \E c \in Containers : Open(c) \/ Close(c)
    \/ \E c \in Containers, u \in Users : Join(c, u) \/ Leave(c, u)

Spec == Init /\ [][Next]_vars
=============================================================================
