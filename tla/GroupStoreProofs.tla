-------------------------- MODULE GroupStoreProofs --------------------------
(***************************************************************************)
(* Theorems about GroupStore, for every set of uuids, users, roles and     *)
(* infos and every sequence of calls.                                       *)
(***************************************************************************)
EXTENDS GroupStore, TLAPS

-----------------------------------------------------------------------------
(* Types. *)

LEMMA TypeInit == Init => TypeOK
PROOF BY DEF Init, TypeOK, Answers, Exists

\* Create and Update write one group, and never remove one.
LEMMA CreateWrites ==
  ASSUME TypeOK, NEW g \in GroupIds, NEW info \in Infos, Create(g, info)
  PROVE  \A q \in GroupIds : groups'[q] = IF q = g THEN info ELSE groups[q]
PROOF BY DEF Create, TypeOK

LEMMA UpdateWrites ==
  ASSUME TypeOK, NEW g \in GroupIds, NEW info \in Infos \cup {None}, Update(g, info)
  PROVE  \A q \in GroupIds : /\ groups'[q] \in Infos \cup {None}
                             /\ Exists(q) <=> groups'[q] # None
PROOF BY GroupNoneAssumption DEF Update, Fails, TypeOK, Exists

LEMMA WriteType ==
  ASSUME TypeOK,
         \/ \E g \in GroupIds, info \in Infos : Create(g, info)
         \/ \E g \in GroupIds, info \in Infos \cup {None} : Update(g, info)
  PROVE  TypeOK'
<1>1. ASSUME NEW g \in GroupIds, NEW info \in Infos, Create(g, info) PROVE TypeOK'
  <2>1. \A q \in GroupIds : groups'[q] # None => q \in drawn'
    BY <1>1, CreateWrites DEF Create, TypeOK, Exists
  <2> QED
    BY <1>1, <2>1 DEF Create, TypeOK, Answers, Exists
<1>2. ASSUME NEW g \in GroupIds, NEW info \in Infos \cup {None}, Update(g, info) PROVE TypeOK'
  <2>1. \A q \in GroupIds : groups'[q] # None => q \in drawn'
    BY <1>2, UpdateWrites DEF Update, Fails, TypeOK, Exists
  <2>2. groups' \in [GroupIds -> Infos \cup {None}]
    BY <1>2 DEF Update, Fails, TypeOK
  <2> QED
    BY <1>2, <2>1, <2>2 DEF Update, Fails, TypeOK, Answers, Exists
<1> QED
  BY <1>1, <1>2

LEMMA DeleteType ==
  ASSUME TypeOK, NEW g \in GroupIds, Delete(g)
  PROVE  TypeOK'
<1>1. CASE Fails("group not found")
  BY <1>1 DEF Fails, TypeOK, Exists, Answers
<1>2. CASE Exists(g) /\ ~Fails("group not found")
  <2>1. userGroups' \in [Users -> SUBSET GroupMember]
    <3>1. \A u \in Users : /\ userGroups[u] \in SUBSET GroupMember
                           /\ Without(userGroups[u], g) \in SUBSET GroupMember
      BY DEF TypeOK, Without
    <3> QED
      BY <1>2, <3>1 DEF Delete
  <2> QED
    BY <1>2, <2>1 DEF Delete, TypeOK, Exists, Answers
<1> QED
  BY <1>1, <1>2 DEF Delete

LEMMA AddMemberType ==
  ASSUME TypeOK, NEW rel \in GroupMember, AddMember(rel)
  PROVE  TypeOK'
<1>1. rel.group \in GroupIds /\ rel.user \in Users
  BY DEF GroupMember
<1>2. CASE Fails("group not found") \/ Fails("member exists")
  BY <1>2 DEF Fails, TypeOK, Exists, Answers
<1>3. CASE ~(Fails("group not found") \/ Fails("member exists"))
  <2>1. members' \in [GroupIds -> SUBSET GroupMember]
    <3>1. members[rel.group] \cup {rel} \in SUBSET GroupMember
      BY <1>1 DEF TypeOK
    <3> QED
      BY <1>1, <1>3, <3>1 DEF AddMember, TypeOK
  <2>2. userGroups' \in [Users -> SUBSET GroupMember]
    <3>1. userGroups[rel.user] \cup {rel} \in SUBSET GroupMember
      BY <1>1 DEF TypeOK
    <3> QED
      BY <1>1, <1>3, <3>1 DEF AddMember, TypeOK
  <2> QED
    BY <1>3, <2>1, <2>2 DEF AddMember, TypeOK, Exists, Answers
<1> QED
  BY <1>2, <1>3

LEMMA RemoveMemberType ==
  ASSUME TypeOK, NEW g \in GroupIds, NEW u \in Users, RemoveMember(g, u)
  PROVE  TypeOK'
<1>1. CASE Fails("member not found")
  BY <1>1 DEF Fails, TypeOK, Exists, Answers
<1>2. CASE ~Fails("member not found")
  BY <1>2 DEF RemoveMember, TypeOK, Exists, Answers, Without
<1> QED
  BY <1>1, <1>2

LEMMA TypeStep == TypeOK /\ [Next]_vars => TypeOK'
<1> SUFFICES ASSUME TypeOK, [Next]_vars PROVE TypeOK'
  OBVIOUS
<1>1. CASE UNCHANGED vars
  BY <1>1 DEF vars, TypeOK, Exists
<1> QED
  BY <1>1, WriteType, DeleteType, AddMemberType, RemoveMemberType DEF Next

\* Every group, relation and index entry is well formed after any calls.
THEOREM TypeCorrect == Spec => []TypeOK
PROOF BY TypeInit, TypeStep, PTL DEF Spec

-----------------------------------------------------------------------------
(* The two indexes. *)

LEMMA MirrorInit == Init => IndexesMirror
PROOF BY DEF Init, IndexesMirror, ListMembers, GetUserGroups

\* A step that leaves the indexes alone and removes no group
LEMMA MirrorKept ==
  ASSUME IndexesMirror, UNCHANGED <<members, userGroups>>,
         \A g \in GroupIds : Exists(g) => Exists(g)'
  PROVE  IndexesMirror'
PROOF BY DEF IndexesMirror, ListMembers, GetUserGroups

\* Delete visits the members of the group only, and that is enough.
LEMMA DeleteUnlinks ==
  ASSUME TypeOK, IndexesMirror, NEW g \in GroupIds, Delete(g), ~Fails("group not found"),
         NEW u \in Users
  PROVE  userGroups'[u] = Without(userGroups[u], g)
<1>1. CASE \E r \in members[g] : r.user = u
  BY <1>1 DEF Delete
<1>2. CASE ~\E r \in members[g] : r.user = u
  <2>1. userGroups'[u] = userGroups[u]
    BY <1>2 DEF Delete
  <2>2. \A r \in userGroups[u] : r.user = u /\ r \in members[r.group]
    BY DEF IndexesMirror, ListMembers, GetUserGroups
  <2>3. \A r \in userGroups[u] : r.group # g
    BY <1>2, <2>2
  <2> QED
    BY <2>1, <2>3 DEF Without
<1> QED
  BY <1>1, <1>2

LEMMA MirrorDelete ==
  ASSUME TypeOK, IndexesMirror, NEW g \in GroupIds, Delete(g)
  PROVE  IndexesMirror'
<1>1. CASE Fails("group not found")
  BY <1>1, MirrorKept DEF Fails, Exists
<1>2. CASE ~Fails("group not found")
  <2>1. /\ \A q \in GroupIds : members'[q] = IF q = g THEN {} ELSE members[q]
        /\ \A q \in GroupIds : q # g => groups'[q] = groups[q]
    BY <1>2 DEF Delete, TypeOK
  <2>2. \A u \in Users : userGroups'[u] = Without(userGroups[u], g)
    BY <1>2, DeleteUnlinks
  <2>3. \A q \in GroupIds : \A r \in members'[q] :
           r.group = q /\ r \in userGroups'[r.user] /\ Exists(q)'
    <3> SUFFICES ASSUME NEW q \in GroupIds, NEW r \in members'[q]
                 PROVE  r.group = q /\ r \in userGroups'[r.user] /\ Exists(q)'
      OBVIOUS
    <3>1. q # g /\ r \in members[q]
      BY <2>1
    <3>2. r.group = q /\ r \in userGroups[r.user] /\ Exists(q)
      BY <3>1 DEF IndexesMirror, ListMembers, GetUserGroups
    <3>3. r.user \in Users
      BY <3>1 DEF TypeOK, GroupMember
    <3>4. r \in userGroups'[r.user]
      BY <2>2, <3>1, <3>2, <3>3 DEF Without
    <3> QED
      BY <2>1, <3>1, <3>2, <3>4 DEF Exists
  <2>4. \A u \in Users : \A r \in userGroups'[u] : r.user = u /\ r \in members'[r.group]
    <3> SUFFICES ASSUME NEW u \in Users, NEW r \in userGroups'[u]
                 PROVE  r.user = u /\ r \in members'[r.group]
      OBVIOUS
    <3>1. r \in userGroups[u] /\ r.group # g
      BY <2>2 DEF Without
    <3>2. r.group \in GroupIds
      BY <3>1 DEF TypeOK, GroupMember
    <3> QED
      BY <2>1, <3>1, <3>2 DEF IndexesMirror, ListMembers, GetUserGroups
  <2>5. \A q \in GroupIds : \A r, s \in members'[q] : r.user = s.user => r = s
    BY <2>1 DEF IndexesMirror, ListMembers
  <2> QED
    BY <2>3, <2>4, <2>5 DEF IndexesMirror, ListMembers, GetUserGroups
<1> QED
  BY <1>1, <1>2

LEMMA MirrorAdd ==
  ASSUME TypeOK, IndexesMirror, NEW rel \in GroupMember, AddMember(rel)
  PROVE  IndexesMirror'
<1>1. rel.group \in GroupIds /\ rel.user \in Users
  BY DEF GroupMember
<1>2. CASE Fails("group not found") \/ Fails("member exists")
  BY <1>2, MirrorKept DEF Fails, Exists
<1>3. CASE ~(Fails("group not found") \/ Fails("member exists"))
  <2>1. /\ Exists(rel.group) /\ UNCHANGED groups
        /\ \A r \in members[rel.group] : r.user # rel.user
        /\ \A q \in GroupIds : members'[q] =
              IF q = rel.group THEN members[q] \cup {rel} ELSE members[q]
        /\ \A u \in Users : userGroups'[u] =
              IF u = rel.user THEN userGroups[u] \cup {rel} ELSE userGroups[u]
    BY <1>1, <1>3 DEF AddMember, TypeOK
  <2>2. \A q \in GroupIds : \A r \in members'[q] :
           r.group = q /\ r \in userGroups'[r.user] /\ Exists(q)'
    <3> SUFFICES ASSUME NEW q \in GroupIds, NEW r \in members'[q]
                 PROVE  r.group = q /\ r \in userGroups'[r.user] /\ Exists(q)'
      OBVIOUS
    <3>1. CASE r = rel /\ q = rel.group
      BY <1>1, <2>1, <3>1 DEF Exists
    <3>2. CASE r \in members[q]
      <4>1. r.user \in Users
        BY <3>2 DEF TypeOK, GroupMember
      <4>2. r.group = q /\ r \in userGroups[r.user] /\ Exists(q)
        BY <3>2 DEF IndexesMirror, ListMembers, GetUserGroups
      <4> QED
        BY <2>1, <4>1, <4>2 DEF Exists
    <3> QED
      BY <2>1, <3>1, <3>2
  <2>3. \A u \in Users : \A r \in userGroups'[u] : r.user = u /\ r \in members'[r.group]
    <3> SUFFICES ASSUME NEW u \in Users, NEW r \in userGroups'[u]
                 PROVE  r.user = u /\ r \in members'[r.group]
      OBVIOUS
    <3>1. CASE r = rel /\ u = rel.user
      BY <1>1, <2>1, <3>1
    <3>2. CASE r \in userGroups[u]
      <4>1. r.group \in GroupIds
        BY <3>2 DEF TypeOK, GroupMember
      <4>2. r.user = u /\ r \in members[r.group]
        BY <3>2 DEF IndexesMirror, ListMembers, GetUserGroups
      <4> QED
        BY <2>1, <4>1, <4>2
    <3> QED
      BY <2>1, <3>1, <3>2
  <2>4. \A q \in GroupIds : \A r, s \in members'[q] : r.user = s.user => r = s
    <3> SUFFICES ASSUME NEW q \in GroupIds, NEW r \in members'[q], NEW s \in members'[q],
                        r.user = s.user
                 PROVE  r = s
      OBVIOUS
    <3>1. CASE r \in members[q] /\ s \in members[q]
      BY <3>1 DEF IndexesMirror, ListMembers
    <3>2. CASE r \notin members[q]
      <4>1. q = rel.group /\ r = rel
        BY <2>1, <3>2
      <4> QED
        BY <2>1, <4>1
    <3>3. CASE s \notin members[q]
      <4>1. q = rel.group /\ s = rel
        BY <2>1, <3>3
      <4> QED
        BY <2>1, <4>1
    <3> QED
      BY <3>1, <3>2, <3>3
  <2> QED
    BY <2>2, <2>3, <2>4 DEF IndexesMirror, ListMembers, GetUserGroups
<1> QED
  BY <1>2, <1>3

LEMMA MirrorRemove ==
  ASSUME TypeOK, IndexesMirror, NEW g \in GroupIds, NEW u \in Users, RemoveMember(g, u)
  PROVE  IndexesMirror'
<1>1. CASE Fails("member not found")
  BY <1>1, MirrorKept DEF Fails, Exists
<1>2. CASE ~Fails("member not found")
  <2>1. /\ UNCHANGED groups
        /\ \A q \in GroupIds : members'[q] =
              IF q = g THEN {r \in members[q] : r.user # u} ELSE members[q]
        /\ \A v \in Users : userGroups'[v] =
              IF v = u THEN Without(userGroups[v], g) ELSE userGroups[v]
    BY <1>2 DEF RemoveMember, TypeOK
  <2>2. \A q \in GroupIds : \A r \in members'[q] :
           r.group = q /\ r \in userGroups'[r.user] /\ Exists(q)'
    <3> SUFFICES ASSUME NEW q \in GroupIds, NEW r \in members'[q]
                 PROVE  r.group = q /\ r \in userGroups'[r.user] /\ Exists(q)'
      OBVIOUS
    <3>1. r \in members[q] /\ (q = g => r.user # u)
      BY <2>1
    <3>2. r.user \in Users
      BY <3>1 DEF TypeOK, GroupMember
    <3>3. r.group = q /\ r \in userGroups[r.user] /\ Exists(q)
      BY <3>1 DEF IndexesMirror, ListMembers, GetUserGroups
    <3> QED
      BY <2>1, <3>1, <3>2, <3>3 DEF Exists, Without
  <2>3. \A v \in Users : \A r \in userGroups'[v] : r.user = v /\ r \in members'[r.group]
    <3> SUFFICES ASSUME NEW v \in Users, NEW r \in userGroups'[v]
                 PROVE  r.user = v /\ r \in members'[r.group]
      OBVIOUS
    <3>1. r \in userGroups[v] /\ (v = u => r.group # g)
      BY <2>1 DEF Without
    <3>2. r.group \in GroupIds
      BY <3>1 DEF TypeOK, GroupMember
    <3>3. r.user = v /\ r \in members[r.group]
      BY <3>1 DEF IndexesMirror, ListMembers, GetUserGroups
    <3> QED
      BY <2>1, <3>1, <3>2, <3>3
  <2>4. \A q \in GroupIds : \A r, s \in members'[q] : r.user = s.user => r = s
    BY <2>1 DEF IndexesMirror, ListMembers
  <2> QED
    BY <2>2, <2>3, <2>4 DEF IndexesMirror, ListMembers, GetUserGroups
<1> QED
  BY <1>1, <1>2

LEMMA MirrorStep == TypeOK /\ IndexesMirror /\ [Next]_vars => IndexesMirror'
<1> SUFFICES ASSUME TypeOK, IndexesMirror, [Next]_vars PROVE IndexesMirror'
  OBVIOUS
<1>1. CASE UNCHANGED vars
  BY <1>1, MirrorKept DEF vars, Exists
<1>2. ASSUME NEW g \in GroupIds, NEW info \in Infos, Create(g, info) PROVE IndexesMirror'
  <2>1. \A q \in GroupIds : Exists(q) => Exists(q)'
    BY <1>2, CreateWrites, GroupNoneAssumption DEF Exists
  <2> QED
    BY <1>2, <2>1, MirrorKept DEF Create
<1>3. ASSUME NEW g \in GroupIds, NEW info \in Infos \cup {None}, Update(g, info)
      PROVE  IndexesMirror'
  <2>1. \A q \in GroupIds : Exists(q) => Exists(q)'
    BY <1>3, UpdateWrites DEF Exists
  <2> QED
    BY <1>3, <2>1, MirrorKept DEF Update, Fails
<1> QED
  BY <1>1, <1>2, <1>3, MirrorDelete, MirrorAdd, MirrorRemove DEF Next

LEMMA MirrorInvariant == Spec => [](TypeOK /\ IndexesMirror)
<1>1. TypeOK /\ IndexesMirror /\ [Next]_vars => (TypeOK /\ IndexesMirror)'
  BY TypeStep, MirrorStep
<1> QED
  BY <1>1, TypeInit, MirrorInit, PTL DEF Spec

\* Whatever calls are made, and in whatever order, the members of a group and
\* the groups of a user are the same relation.
THEOREM Mirror == Spec => []IndexesMirror
PROOF BY MirrorInvariant, PTL

-----------------------------------------------------------------------------
(* Refinement: GroupStore implements Membership. *)

RefInv == TypeOK /\ IndexesMirror

\* What it means to have joined
LEMMA JoinedMeans ==
  ASSUME NEW g, NEW u
  PROVE  /\ <<g, u>> \in Joined <=> \E v \in Users : \E r \in userGroups[v] : r.group = g /\ r.user = u
         /\ <<g, u>> \in Joined' <=> \E v \in Users : \E r \in userGroups'[v] : r.group = g /\ r.user = u
PROOF BY DEF Joined

LEMMA JoinedPairs ==
  ASSUME TypeOK, TypeOK'
  PROVE  Joined \subseteq GroupIds \X Users /\ Joined' \subseteq GroupIds \X Users
<1>1. \A u \in Users : \A r \in userGroups[u] : r.group \in GroupIds /\ r.user \in Users
  BY DEF TypeOK, GroupMember
<1>2. \A u \in Users : \A r \in userGroups'[u] : r.group \in GroupIds /\ r.user \in Users
  BY DEF TypeOK, GroupMember
<1> QED
  BY <1>1, <1>2 DEF Joined

\* Two sets of pairs are equal when they have the same pairs.
LEMMA SamePairs ==
  ASSUME NEW A, NEW B, NEW S \in SUBSET (A \X B), NEW T \in SUBSET (A \X B),
         \A a \in A, b \in B : <<a, b>> \in S <=> <<a, b>> \in T
  PROVE  S = T
OBVIOUS

LEMMA CreateRefines ==
  ASSUME RefInv, NEW g \in GroupIds, NEW info \in Infos, Create(g, info)
  PROVE  Abstract!Open(g)
<1>1. UNCHANGED Joined
  BY DEF Create, Joined
<1>2. g \notin Live
  BY DEF Create, RefInv, TypeOK, Live
<1>3. Live' = Live \cup {g}
  <2>1. \A q \in GroupIds : groups'[q] = IF q = g THEN info ELSE groups[q]
    BY CreateWrites DEF RefInv
  <2> QED
    BY <2>1, GroupNoneAssumption DEF Live, Exists
<1> QED
  BY <1>1, <1>2, <1>3 DEF Abstract!Open

LEMMA UpdateRefines ==
  ASSUME RefInv, NEW g \in GroupIds, NEW info \in Infos \cup {None}, Update(g, info)
  PROVE  UNCHANGED <<Live, Joined>>
<1>1. UNCHANGED Joined
  <2>1. UNCHANGED userGroups
    BY DEF Update, Fails
  <2> QED
    BY <2>1 DEF Joined
<1>2. UNCHANGED Live
  <2>1. \A q \in GroupIds : Exists(q) <=> groups'[q] # None
    BY UpdateWrites DEF RefInv
  <2> QED
    BY <2>1 DEF Live, Exists
<1> QED
  BY <1>1, <1>2

LEMMA DeleteRefines ==
  ASSUME RefInv, TypeOK', NEW g \in GroupIds, Delete(g)
  PROVE  Abstract!Close(g) \/ UNCHANGED <<Live, Joined>>
<1>1. CASE Fails("group not found")
  BY <1>1 DEF Fails, Live, Joined, Exists
<1>2. CASE ~Fails("group not found")
  <2>1. g \in Live
    BY <1>2 DEF Delete, Live
  <2>2. Live' = Live \ {g}
    BY <1>2 DEF Delete, Live, Exists, RefInv, TypeOK
  <2>3. \A u \in Users : userGroups'[u] = Without(userGroups[u], g)
    BY <1>2, DeleteUnlinks DEF RefInv
  <2>4. Joined' = {m \in Joined : m[1] # g}
    <3>1. Joined \subseteq GroupIds \X Users /\ Joined' \subseteq GroupIds \X Users
      BY JoinedPairs DEF RefInv
    <3>2. ASSUME NEW q \in GroupIds, NEW u \in Users
          PROVE  <<q, u>> \in Joined' <=> <<q, u>> \in {m \in Joined : m[1] # g}
      BY <2>3, JoinedMeans DEF Without
    <3> QED
      BY <3>1, <3>2, SamePairs
  <2> QED
    BY <2>1, <2>2, <2>4 DEF Abstract!Close
<1> QED
  BY <1>1, <1>2

LEMMA AddMemberRefines ==
  ASSUME RefInv, TypeOK', NEW rel \in GroupMember, AddMember(rel)
  PROVE  Abstract!Join(rel.group, rel.user) \/ UNCHANGED <<Live, Joined>>
<1>1. rel.group \in GroupIds /\ rel.user \in Users
  BY DEF GroupMember
<1>2. CASE Fails("group not found") \/ Fails("member exists")
  BY <1>2 DEF Fails, Live, Joined, Exists
<1>3. CASE ~(Fails("group not found") \/ Fails("member exists"))
  <2>1. /\ Exists(rel.group) /\ UNCHANGED groups
        /\ \A r \in members[rel.group] : r.user # rel.user
        /\ \A u \in Users : userGroups'[u] =
              IF u = rel.user THEN userGroups[u] \cup {rel} ELSE userGroups[u]
    BY <1>1, <1>3 DEF AddMember, RefInv, TypeOK
  <2>2. rel.group \in Live /\ UNCHANGED Live
    BY <1>1, <2>1 DEF Live, Exists
  <2>3. <<rel.group, rel.user>> \notin Joined
    <3>1. ASSUME NEW v \in Users, NEW r \in userGroups[v] PROVE r \in members[r.group]
      BY DEF RefInv, IndexesMirror, ListMembers, GetUserGroups
    <3> QED
      BY <2>1, <3>1, JoinedMeans
  <2>4. Joined' = Joined \cup {<<rel.group, rel.user>>}
    <3>1. Joined \subseteq GroupIds \X Users /\ Joined' \subseteq GroupIds \X Users
      BY JoinedPairs DEF RefInv
    <3>2. ASSUME NEW q \in GroupIds, NEW u \in Users
          PROVE  <<q, u>> \in Joined' <=> <<q, u>> \in Joined \cup {<<rel.group, rel.user>>}
      <4>1. ASSUME <<q, u>> \in Joined' PROVE <<q, u>> \in Joined \cup {<<rel.group, rel.user>>}
        <5>1. PICK v \in Users : \E r \in userGroups'[v] : r.group = q /\ r.user = u
          BY <4>1, JoinedMeans
        <5>2. PICK r \in userGroups'[v] : r.group = q /\ r.user = u
          BY <5>1
        <5>3. r = rel \/ r \in userGroups[v]
          BY <2>1
        <5>4. r \in userGroups[v] => <<q, u>> \in Joined
          BY <5>2, JoinedMeans
        <5> QED
          BY <5>2, <5>3, <5>4
      <4>2. ASSUME <<q, u>> \in Joined PROVE <<q, u>> \in Joined'
        <5>1. PICK v \in Users : \E r \in userGroups[v] : r.group = q /\ r.user = u
          BY <4>2, JoinedMeans
        <5>2. PICK r \in userGroups[v] : r.group = q /\ r.user = u
          BY <5>1
        <5>3. r \in userGroups'[v]
          BY <2>1
        <5> QED
          BY <5>2, <5>3, JoinedMeans
      <4>3. <<rel.group, rel.user>> \in Joined'
        <5>1. rel \in userGroups'[rel.user]
          BY <1>1, <2>1
        <5> QED
          BY <1>1, <5>1, JoinedMeans
      <4> QED
        BY <4>1, <4>2, <4>3
    <3>3. Joined \cup {<<rel.group, rel.user>>} \subseteq GroupIds \X Users
      BY <1>1, <3>1
    <3> QED
      BY <3>1, <3>2, <3>3, SamePairs
  <2> QED
    BY <2>2, <2>3, <2>4 DEF Abstract!Join
<1> QED
  BY <1>2, <1>3

LEMMA RemoveMemberRefines ==
  ASSUME RefInv, TypeOK', NEW g \in GroupIds, NEW u \in Users, RemoveMember(g, u)
  PROVE  Abstract!Leave(g, u) \/ UNCHANGED <<Live, Joined>>
<1>1. CASE Fails("member not found")
  BY <1>1 DEF Fails, Live, Joined, Exists
<1>2. CASE ~Fails("member not found")
  <2>1. /\ UNCHANGED groups
        /\ \E r \in members[g] : r.user = u
        /\ \A v \in Users : userGroups'[v] =
              IF v = u THEN Without(userGroups[v], g) ELSE userGroups[v]
    BY <1>2 DEF RemoveMember, RefInv, TypeOK
  <2>2. UNCHANGED Live
    BY <2>1 DEF Live, Exists
  <2>3. <<g, u>> \in Joined
    <3>1. PICK r \in members[g] : r.user = u
      BY <2>1
    <3>2. r.group = g /\ r \in userGroups[u]
      BY <3>1 DEF RefInv, IndexesMirror, ListMembers, GetUserGroups
    <3> QED
      BY <3>1, <3>2, JoinedMeans
  <2>4. Joined' = Joined \ {<<g, u>>}
    <3>1. Joined \subseteq GroupIds \X Users /\ Joined' \subseteq GroupIds \X Users
      BY JoinedPairs DEF RefInv
    <3>2. ASSUME NEW q \in GroupIds, NEW v \in Users
          PROVE  <<q, v>> \in Joined' <=> <<q, v>> \in Joined \ {<<g, u>>}
      <4>1. \A w \in Users : \A r \in userGroups[w] : r.user = w
        BY DEF RefInv, IndexesMirror, GetUserGroups
      <4>2. \A w \in Users : \A r :
               r \in userGroups'[w] <=> r \in userGroups[w] /\ ~(w = u /\ r.group = g)
        BY <2>1 DEF Without
      <4> QED
        BY <4>1, <4>2, JoinedMeans
    <3>3. Joined \ {<<g, u>>} \subseteq GroupIds \X Users
      BY <3>1
    <3> QED
      BY <3>1, <3>2, <3>3, SamePairs
  <2> QED
    BY <2>2, <2>3, <2>4 DEF Abstract!Leave
<1> QED
  BY <1>1, <1>2

LEMMA NextRefines == RefInv /\ [Next]_vars => [Abstract!Next]_<<Live, Joined>>
<1> SUFFICES ASSUME RefInv, [Next]_vars PROVE [Abstract!Next]_<<Live, Joined>>
  OBVIOUS
<1>0. TypeOK'
  BY TypeStep DEF RefInv
<1>1. CASE UNCHANGED vars
  BY <1>1 DEF vars, Live, Joined, Exists
<1>2. ASSUME NEW g \in GroupIds, NEW info \in Infos, Create(g, info)
      PROVE  [Abstract!Next]_<<Live, Joined>>
  BY <1>2, CreateRefines DEF Abstract!Next
<1>6. ASSUME NEW g \in GroupIds, NEW info \in Infos \cup {None}, Update(g, info)
      PROVE  [Abstract!Next]_<<Live, Joined>>
  BY <1>6, UpdateRefines DEF Abstract!Next
<1>3. ASSUME NEW g \in GroupIds, Delete(g) PROVE [Abstract!Next]_<<Live, Joined>>
  BY <1>0, <1>3, DeleteRefines DEF Abstract!Next
<1>4. ASSUME NEW rel \in GroupMember, AddMember(rel) PROVE [Abstract!Next]_<<Live, Joined>>
  <2>1. rel.group \in GroupIds /\ rel.user \in Users
    BY DEF GroupMember
  <2> QED
    BY <1>0, <1>4, <2>1, AddMemberRefines DEF Abstract!Next
<1>5. ASSUME NEW g \in GroupIds, NEW u \in Users, RemoveMember(g, u)
      PROVE  [Abstract!Next]_<<Live, Joined>>
  BY <1>0, <1>5, RemoveMemberRefines DEF Abstract!Next
<1> QED
  BY <1>1, <1>2, <1>3, <1>4, <1>5, <1>6 DEF Next

LEMMA InitRefines == Init => Abstract!Init
PROOF BY DEF Init, Abstract!Init, Live, Joined, Exists

\* The store implements Membership: one relation over the groups that exist,
\* with a deletion that ends all memberships of the group at once.
THEOREM Refinement == Spec => ImplementsMembership
<1>1. TypeOK /\ IndexesMirror => RefInv
  BY DEF RefInv
<1> QED
  BY <1>1, MirrorInvariant, InitRefines, NextRefines, PTL
     DEF Spec, ImplementsMembership, Abstract!Spec, Abstract!vars

-----------------------------------------------------------------------------
(* What a caller of the store may rely on between two of its calls. *)

\* A step keeps every uuid that was drawn, and brings no group back.
LEMMA StepKeeps ==
  ASSUME TypeOK, [Next]_vars
  PROVE  drawn \subseteq drawn' /\ \A g \in drawn : ~Exists(g) => ~Exists(g)'
<1>1. CASE UNCHANGED <<groups, drawn>>
  BY <1>1 DEF Exists
<1>2. ASSUME NEW g \in GroupIds, NEW info \in Infos, Create(g, info)
      PROVE  drawn \subseteq drawn' /\ \A q \in drawn : ~Exists(q) => ~Exists(q)'
  BY <1>2 DEF Create, TypeOK, Exists
<1>3. ASSUME NEW g \in GroupIds, NEW info \in Infos \cup {None}, Update(g, info)
      PROVE  drawn \subseteq drawn' /\ \A q \in drawn : ~Exists(q) => ~Exists(q)'
  BY <1>3 DEF Update, Fails, TypeOK, Exists
<1>4. ASSUME NEW g \in GroupIds, Delete(g)
      PROVE  drawn \subseteq drawn' /\ \A q \in drawn : ~Exists(q) => ~Exists(q)'
  BY <1>4 DEF Delete, Fails, TypeOK, Exists
<1>5. ASSUME NEW member \in GroupMember, AddMember(member) PROVE UNCHANGED <<groups, drawn>>
  BY <1>5 DEF AddMember, Fails
<1>6. ASSUME NEW g \in GroupIds, NEW u \in Users, RemoveMember(g, u)
      PROVE  UNCHANGED <<groups, drawn>>
  BY <1>6 DEF RemoveMember, Fails
<1> QED
  BY <1>1, <1>2, <1>3, <1>4, <1>5, <1>6 DEF Next, vars

\* A relation is stored only in groups whose uuid was drawn.
LEMMA RelationsDrawn ==
  ASSUME RefInv
  PROVE  /\ \A g \in GroupIds : Exists(g) => g \in drawn
         /\ \A g \in GroupIds : \A m \in members[g] : m.group = g /\ g \in drawn
         /\ \A u \in Users : \A m \in userGroups[u] : m.user = u /\ m \in members[m.group]
PROOF BY DEF RefInv, TypeOK, IndexesMirror, ListMembers, GetUserGroups
=============================================================================
