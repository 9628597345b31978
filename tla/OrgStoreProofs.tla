--------------------------- MODULE OrgStoreProofs ---------------------------
(***************************************************************************)
(* Theorems about OrgStore, for every set of uuids, users and roles and    *)
(* every sequence of calls.                                                 *)
(***************************************************************************)
EXTENDS OrgStore, TLAPS

-----------------------------------------------------------------------------
(* Types. *)

LEMMA TypeInit == Init => TypeOK
PROOF BY DEF Init, TypeOK, Answers

\* Create and Update write one well-formed entry, or none.
LEMMA CreateWrites ==
  ASSUME TypeOK, NEW o \in OrgIds, NEW parent \in OrgIds \cup {None}, Create(o, parent)
  PROVE  \/ orgs' = orgs
         \/ \E r \in Organization : orgs' = [orgs EXCEPT ![o] = r]
<1>1. CASE parent = None /\ orgs' = [orgs EXCEPT ![o] = [parent |-> None, path |-> <<o>>]]
  <2>1. [parent |-> None, path |-> <<o>>] \in Organization
    BY DEF Organization
  <2> QED
    BY <1>1, <2>1
<1>2. CASE /\ parent # None /\ Exists(parent)
           /\ orgs' = [orgs EXCEPT ![o] = [parent |-> parent,
                                           path |-> Append(orgs[parent].path, o)]]
  <2>1. parent \in OrgIds /\ orgs[parent] \in Organization
    BY <1>2 DEF Exists, TypeOK
  <2>2. Append(orgs[parent].path, o) \in Seq(OrgIds) \ {<<>>}
    BY <2>1 DEF Organization
  <2>3. [parent |-> parent, path |-> Append(orgs[parent].path, o)] \in Organization
    BY <2>1, <2>2 DEF Organization
  <2> QED
    BY <1>2, <2>3
<1> QED
  BY <1>1, <1>2 DEF Create

LEMMA UpdateWrites ==
  ASSUME TypeOK, NEW o \in OrgIds, NEW parent \in OrgIds \cup {None}, Update(o, parent)
  PROVE  \/ orgs' = orgs
         \/ /\ Exists(o)
            /\ \E r \in Organization : /\ r.path = orgs[o].path
                                       /\ orgs' = [orgs EXCEPT ![o] = r]
<1>1. CASE Fails("org not found")
  BY <1>1 DEF Fails
<1>2. CASE Exists(o) /\ ~Fails("org not found")
  <2>1. orgs[o] \in Organization
    BY <1>2 DEF Exists, TypeOK
  <2> DEFINE r == [orgs[o] EXCEPT !.parent = IF parent = None THEN @ ELSE parent]
  <2>2. r \in Organization /\ r.path = orgs[o].path
    BY <2>1 DEF Organization
  <2>3. orgs' = [orgs EXCEPT ![o] = r]
    BY <1>2 DEF Update
  <2> QED
    BY <1>2, <2>2, <2>3
<1> QED
  BY <1>1, <1>2 DEF Update

LEMMA WriteType ==
  ASSUME TypeOK, NEW o \in OrgIds, NEW parent \in OrgIds \cup {None},
         Create(o, parent) \/ Update(o, parent)
  PROVE  TypeOK'
<1>1. orgs' \in [OrgIds -> Organization \cup {None}]
  <2>1. orgs' = orgs \/ \E r \in Organization : orgs' = [orgs EXCEPT ![o] = r]
    BY CreateWrites, UpdateWrites
  <2> QED
    BY <2>1 DEF TypeOK
<1> QED
  BY <1>1 DEF Create, Update, Fails, TypeOK, Answers

LEMMA DeleteType ==
  ASSUME TypeOK, NEW o \in OrgIds, Delete(o)
  PROVE  TypeOK'
<1>1. CASE Fails("org not found")
  BY <1>1 DEF Fails, TypeOK, Answers
<1>2. CASE Exists(o) /\ ~Fails("org not found")
  <2>1. userOrgs' \in [Users -> SUBSET Relation]
    <3>1. \A u \in Users : /\ userOrgs[u] \in SUBSET Relation
                           /\ Without(userOrgs[u], o) \in SUBSET Relation
      BY DEF TypeOK, Without
    <3> QED
      BY <1>2, <3>1 DEF Delete
  <2> QED
    BY <1>2, <2>1 DEF Delete, TypeOK, Answers
<1> QED
  BY <1>1, <1>2 DEF Delete

LEMMA AddMemberType ==
  ASSUME TypeOK, NEW rel \in Relation, AddMember(rel)
  PROVE  TypeOK'
<1>1. rel.org \in OrgIds /\ rel.user \in Users
  BY DEF Relation
<1>2. CASE Fails("org not found") \/ Fails("member exists")
  BY <1>2 DEF Fails, TypeOK, Answers
<1>3. CASE ~(Fails("org not found") \/ Fails("member exists"))
  <2>1. members' \in [OrgIds -> SUBSET Relation]
    <3>1. members[rel.org] \cup {rel} \in SUBSET Relation
      BY <1>1 DEF TypeOK
    <3> QED
      BY <1>1, <1>3, <3>1 DEF AddMember, TypeOK
  <2>2. userOrgs' \in [Users -> SUBSET Relation]
    <3>1. userOrgs[rel.user] \cup {rel} \in SUBSET Relation
      BY <1>1 DEF TypeOK
    <3> QED
      BY <1>1, <1>3, <3>1 DEF AddMember, TypeOK
  <2> QED
    BY <1>3, <2>1, <2>2 DEF AddMember, TypeOK, Answers
<1> QED
  BY <1>2, <1>3

LEMMA RemoveMemberType ==
  ASSUME TypeOK, NEW o \in OrgIds, NEW u \in Users, RemoveMember(o, u)
  PROVE  TypeOK'
<1>1. CASE Fails("member not found")
  BY <1>1 DEF Fails, TypeOK, Answers
<1>2. CASE ~Fails("member not found")
  BY <1>2 DEF RemoveMember, TypeOK, Answers, Without
<1> QED
  BY <1>1, <1>2

LEMMA TypeStep == TypeOK /\ [Next]_vars => TypeOK'
<1> SUFFICES ASSUME TypeOK, [Next]_vars PROVE TypeOK'
  OBVIOUS
<1>1. CASE UNCHANGED vars
  BY <1>1 DEF vars, TypeOK
<1> QED
  BY <1>1, WriteType, DeleteType, AddMemberType, RemoveMemberType DEF Next

\* Every organization, relation and index entry is well formed after any calls.
THEOREM TypeCorrect == Spec => []TypeOK
PROOF BY TypeInit, TypeStep, PTL DEF Spec

-----------------------------------------------------------------------------
(* The two indexes. *)

LEMMA MirrorInit == Init => IndexesMirror
PROOF BY DEF Init, IndexesMirror, ListMembers, GetUserOrgs

\* A step that leaves the indexes alone and removes no organization
LEMMA MirrorKept ==
  ASSUME IndexesMirror, UNCHANGED <<members, userOrgs>>,
         \A o \in OrgIds : Exists(o) => Exists(o)'
  PROVE  IndexesMirror'
PROOF BY DEF IndexesMirror, ListMembers, GetUserOrgs

\* Delete visits the members of the organization only, and that is enough.
LEMMA DeleteUnlinks ==
  ASSUME TypeOK, IndexesMirror, NEW o \in OrgIds, Delete(o), ~Fails("org not found"),
         NEW u \in Users
  PROVE  userOrgs'[u] = Without(userOrgs[u], o)
<1>1. CASE \E r \in members[o] : r.user = u
  BY <1>1 DEF Delete
<1>2. CASE ~\E r \in members[o] : r.user = u
  <2>1. userOrgs'[u] = userOrgs[u]
    BY <1>2 DEF Delete
  <2>2. \A r \in userOrgs[u] : r.user = u /\ r \in members[r.org]
    BY DEF IndexesMirror, ListMembers, GetUserOrgs
  <2>3. \A r \in userOrgs[u] : r.org # o
    BY <1>2, <2>2
  <2> QED
    BY <2>1, <2>3 DEF Without
<1> QED
  BY <1>1, <1>2

LEMMA MirrorDelete ==
  ASSUME TypeOK, IndexesMirror, NEW o \in OrgIds, Delete(o)
  PROVE  IndexesMirror'
<1>1. CASE Fails("org not found")
  BY <1>1, MirrorKept DEF Fails, Exists
<1>2. CASE ~Fails("org not found")
  <2>1. /\ \A q \in OrgIds : members'[q] = IF q = o THEN {} ELSE members[q]
        /\ \A q \in OrgIds : q # o => orgs'[q] = orgs[q]
    BY <1>2 DEF Delete, TypeOK
  <2>2. \A u \in Users : userOrgs'[u] = Without(userOrgs[u], o)
    BY <1>2, DeleteUnlinks
  <2>3. \A q \in OrgIds : \A r \in members'[q] :
           r.org = q /\ r \in userOrgs'[r.user] /\ Exists(q)'
    <3> SUFFICES ASSUME NEW q \in OrgIds, NEW r \in members'[q]
                 PROVE  r.org = q /\ r \in userOrgs'[r.user] /\ Exists(q)'
      OBVIOUS
    <3>1. q # o /\ r \in members[q]
      BY <2>1
    <3>2. r.org = q /\ r \in userOrgs[r.user] /\ Exists(q)
      BY <3>1 DEF IndexesMirror, ListMembers, GetUserOrgs
    <3>3. r.user \in Users
      BY <3>1 DEF TypeOK, Relation
    <3>4. r \in userOrgs'[r.user]
      BY <2>2, <3>1, <3>2, <3>3 DEF Without
    <3> QED
      BY <2>1, <3>1, <3>2, <3>4 DEF Exists
  <2>4. \A u \in Users : \A r \in userOrgs'[u] : r.user = u /\ r \in members'[r.org]
    <3> SUFFICES ASSUME NEW u \in Users, NEW r \in userOrgs'[u]
                 PROVE  r.user = u /\ r \in members'[r.org]
      OBVIOUS
    <3>1. r \in userOrgs[u] /\ r.org # o
      BY <2>2 DEF Without
    <3>2. r.org \in OrgIds
      BY <3>1 DEF TypeOK, Relation
    <3> QED
      BY <2>1, <3>1, <3>2 DEF IndexesMirror, ListMembers, GetUserOrgs
  <2>5. \A q \in OrgIds : \A r, s \in members'[q] : r.user = s.user => r = s
    BY <2>1 DEF IndexesMirror, ListMembers
  <2> QED
    BY <2>3, <2>4, <2>5 DEF IndexesMirror, ListMembers, GetUserOrgs
<1> QED
  BY <1>1, <1>2

LEMMA MirrorAdd ==
  ASSUME TypeOK, IndexesMirror, NEW rel \in Relation, AddMember(rel)
  PROVE  IndexesMirror'
<1>1. rel.org \in OrgIds /\ rel.user \in Users
  BY DEF Relation
<1>2. CASE Fails("org not found") \/ Fails("member exists")
  BY <1>2, MirrorKept DEF Fails, Exists
<1>3. CASE ~(Fails("org not found") \/ Fails("member exists"))
  <2>1. /\ Exists(rel.org) /\ UNCHANGED orgs
        /\ \A r \in members[rel.org] : r.user # rel.user
        /\ \A q \in OrgIds : members'[q] =
              IF q = rel.org THEN members[q] \cup {rel} ELSE members[q]
        /\ \A u \in Users : userOrgs'[u] =
              IF u = rel.user THEN userOrgs[u] \cup {rel} ELSE userOrgs[u]
    BY <1>1, <1>3 DEF AddMember, TypeOK
  <2>2. \A q \in OrgIds : \A r \in members'[q] :
           r.org = q /\ r \in userOrgs'[r.user] /\ Exists(q)'
    <3> SUFFICES ASSUME NEW q \in OrgIds, NEW r \in members'[q]
                 PROVE  r.org = q /\ r \in userOrgs'[r.user] /\ Exists(q)'
      OBVIOUS
    <3>1. CASE r = rel /\ q = rel.org
      BY <1>1, <2>1, <3>1 DEF Exists
    <3>2. CASE r \in members[q]
      <4>1. r.user \in Users
        BY <3>2 DEF TypeOK, Relation
      <4>2. r.org = q /\ r \in userOrgs[r.user] /\ Exists(q)
        BY <3>2 DEF IndexesMirror, ListMembers, GetUserOrgs
      <4> QED
        BY <2>1, <4>1, <4>2 DEF Exists
    <3> QED
      BY <2>1, <3>1, <3>2
  <2>3. \A u \in Users : \A r \in userOrgs'[u] : r.user = u /\ r \in members'[r.org]
    <3> SUFFICES ASSUME NEW u \in Users, NEW r \in userOrgs'[u]
                 PROVE  r.user = u /\ r \in members'[r.org]
      OBVIOUS
    <3>1. CASE r = rel /\ u = rel.user
      BY <1>1, <2>1, <3>1
    <3>2. CASE r \in userOrgs[u]
      <4>1. r.org \in OrgIds
        BY <3>2 DEF TypeOK, Relation
      <4>2. r.user = u /\ r \in members[r.org]
        BY <3>2 DEF IndexesMirror, ListMembers, GetUserOrgs
      <4> QED
        BY <2>1, <4>1, <4>2
    <3> QED
      BY <2>1, <3>1, <3>2
  <2>4. \A q \in OrgIds : \A r, s \in members'[q] : r.user = s.user => r = s
    <3> SUFFICES ASSUME NEW q \in OrgIds, NEW r \in members'[q], NEW s \in members'[q],
                        r.user = s.user
                 PROVE  r = s
      OBVIOUS
    <3>1. CASE r \in members[q] /\ s \in members[q]
      BY <3>1 DEF IndexesMirror, ListMembers
    <3>2. CASE r \notin members[q]
      <4>1. q = rel.org /\ r = rel
        BY <2>1, <3>2
      <4> QED
        BY <2>1, <4>1
    <3>3. CASE s \notin members[q]
      <4>1. q = rel.org /\ s = rel
        BY <2>1, <3>3
      <4> QED
        BY <2>1, <4>1
    <3> QED
      BY <3>1, <3>2, <3>3
  <2> QED
    BY <2>2, <2>3, <2>4 DEF IndexesMirror, ListMembers, GetUserOrgs
<1> QED
  BY <1>2, <1>3

LEMMA MirrorRemove ==
  ASSUME TypeOK, IndexesMirror, NEW o \in OrgIds, NEW u \in Users, RemoveMember(o, u)
  PROVE  IndexesMirror'
<1>1. CASE Fails("member not found")
  BY <1>1, MirrorKept DEF Fails, Exists
<1>2. CASE ~Fails("member not found")
  <2>1. /\ UNCHANGED orgs
        /\ \A q \in OrgIds : members'[q] =
              IF q = o THEN {r \in members[q] : r.user # u} ELSE members[q]
        /\ \A v \in Users : userOrgs'[v] =
              IF v = u THEN Without(userOrgs[v], o) ELSE userOrgs[v]
    BY <1>2 DEF RemoveMember, TypeOK
  <2>2. \A q \in OrgIds : \A r \in members'[q] :
           r.org = q /\ r \in userOrgs'[r.user] /\ Exists(q)'
    <3> SUFFICES ASSUME NEW q \in OrgIds, NEW r \in members'[q]
                 PROVE  r.org = q /\ r \in userOrgs'[r.user] /\ Exists(q)'
      OBVIOUS
    <3>1. r \in members[q] /\ (q = o => r.user # u)
      BY <2>1
    <3>2. r.user \in Users
      BY <3>1 DEF TypeOK, Relation
    <3>3. r.org = q /\ r \in userOrgs[r.user] /\ Exists(q)
      BY <3>1 DEF IndexesMirror, ListMembers, GetUserOrgs
    <3> QED
      BY <2>1, <3>1, <3>2, <3>3 DEF Exists, Without
  <2>3. \A v \in Users : \A r \in userOrgs'[v] : r.user = v /\ r \in members'[r.org]
    <3> SUFFICES ASSUME NEW v \in Users, NEW r \in userOrgs'[v]
                 PROVE  r.user = v /\ r \in members'[r.org]
      OBVIOUS
    <3>1. r \in userOrgs[v] /\ (v = u => r.org # o)
      BY <2>1 DEF Without
    <3>2. r.org \in OrgIds
      BY <3>1 DEF TypeOK, Relation
    <3>3. r.user = v /\ r \in members[r.org]
      BY <3>1 DEF IndexesMirror, ListMembers, GetUserOrgs
    <3> QED
      BY <2>1, <3>1, <3>2, <3>3
  <2>4. \A q \in OrgIds : \A r, s \in members'[q] : r.user = s.user => r = s
    <3>1. \A q \in OrgIds : members'[q] \subseteq members[q]
      BY <2>1
    <3>2. \A q \in OrgIds : \A r, s \in members[q] : r.user = s.user => r = s
      BY DEF IndexesMirror, ListMembers
    <3> QED
      BY <3>1, <3>2
  <2> QED
    BY <2>2, <2>3, <2>4 DEF IndexesMirror, ListMembers, GetUserOrgs
<1> QED
  BY <1>1, <1>2

LEMMA MirrorStep == TypeOK /\ IndexesMirror /\ [Next]_vars => IndexesMirror'
<1> SUFFICES ASSUME TypeOK, IndexesMirror, [Next]_vars PROVE IndexesMirror'
  OBVIOUS
<1>1. CASE UNCHANGED vars
  BY <1>1, MirrorKept DEF vars, Exists
<1>2. ASSUME NEW o \in OrgIds, NEW parent \in OrgIds \cup {None},
             Create(o, parent) \/ Update(o, parent)
      PROVE  IndexesMirror'
  <2>1. UNCHANGED <<members, userOrgs>>
    BY <1>2 DEF Create, Update, Fails
  <2>2. \A q \in OrgIds : Exists(q) => Exists(q)'
    <3> SUFFICES ASSUME NEW q \in OrgIds, orgs[q] # None PROVE orgs'[q] # None
      BY DEF Exists
    <3>1. orgs' = orgs \/ \E r \in Organization : orgs' = [orgs EXCEPT ![o] = r]
      BY <1>2, CreateWrites, UpdateWrites
    <3> QED
      BY <3>1, OrganizationAssumption DEF TypeOK
  <2> QED
    BY <2>1, <2>2, MirrorKept
<1> QED
  BY <1>1, <1>2, MirrorDelete, MirrorAdd, MirrorRemove DEF Next

LEMMA MirrorInvariant == Spec => [](TypeOK /\ IndexesMirror)
<1>1. TypeOK /\ IndexesMirror /\ [Next]_vars => (TypeOK /\ IndexesMirror)'
  BY TypeStep, MirrorStep
<1> QED
  BY <1>1, TypeInit, MirrorInit, PTL DEF Spec

\* Whatever calls are made, and in whatever order, the members of an organization and
\* the organizations of a user are the same relation.
THEOREM Mirror == Spec => []IndexesMirror
PROOF BY MirrorInvariant, PTL

-----------------------------------------------------------------------------
(* Paths.  A uuid that has not been drawn is on no path, so a new          *)
(* organization cannot come between an old one and its ancestors.           *)

PathsDrawn ==
    \A o \in OrgIds : Exists(o) =>
        /\ o \in drawn
        /\ \A k \in 1 .. Len(orgs[o].path) : orgs[o].path[k] \in drawn

\* PathsChain for one organization, over the map f
Chain(f, o) ==
    /\ f[o].path[Len(f[o].path)] = o
    /\ \A k, l \in 1 .. Len(f[o].path) : f[o].path[k] = f[o].path[l] => k = l
    /\ \A k \in 1 .. Len(f[o].path) :
          f[f[o].path[k]] # None => f[f[o].path[k]].path = SubSeq(f[o].path, 1, k)

PathInv == TypeOK /\ PathsDrawn /\ PathsChain

LEMMA ChainMeans == PathsChain <=> \A o \in OrgIds : orgs[o] # None => Chain(orgs, o)
PROOF BY DEF PathsChain, Chain, Exists

LEMMA ChainMeansNext == PathsChain' <=> \A o \in OrgIds : orgs'[o] # None => Chain(orgs', o)
PROOF BY DEF PathsChain, Chain, Exists

LEMMA PathInit == Init => PathInv
PROOF BY TypeInit DEF Init, PathInv, PathsDrawn, PathsChain, Exists

\* The path of an organization that exists is a sequence of uuids.
LEMMA PathType ==
  ASSUME TypeOK, NEW o \in OrgIds, Exists(o)
  PROVE  /\ orgs[o].path \in Seq(OrgIds)
         /\ Len(orgs[o].path) \in Nat \ {0}
         /\ \A k \in 1 .. Len(orgs[o].path) : orgs[o].path[k] \in OrgIds
<1>1. orgs[o].path \in Seq(OrgIds) \ {<<>>}
  BY DEF Exists, TypeOK, Organization
<1> QED
  BY <1>1

\* The prefixes of an extended path
LEMMA PrefixAppend ==
  ASSUME NEW S, NEW p \in Seq(S), NEW x \in S
  PROVE  /\ \A k \in 1 .. Len(p) : SubSeq(Append(p, x), 1, k) = SubSeq(p, 1, k)
         /\ SubSeq(Append(p, x), 1, Len(p) + 1) = Append(p, x)
<1> DEFINE q == Append(p, x)
<1>1. q \in Seq(S) /\ Len(q) = Len(p) + 1 /\ \A k \in 1 .. Len(p) : q[k] = p[k]
  OBVIOUS
<1>2. \A k \in 1 .. Len(p) : SubSeq(q, 1, k) = SubSeq(p, 1, k)
  BY <1>1
<1>3. SubSeq(q, 1, Len(p) + 1) = q
  BY <1>1
<1> QED
  BY <1>2, <1>3

\* A step that makes no path and no organization
LEMMA PathKept ==
  ASSUME PathInv, TypeOK', drawn \subseteq drawn',
         \A o \in OrgIds : Exists(o)' => Exists(o) /\ orgs'[o].path = orgs[o].path
  PROVE  PathInv'
<1>1. PathsDrawn'
  BY DEF PathInv, PathsDrawn
<1>2. PathsChain'
  <2> SUFFICES ASSUME NEW o \in OrgIds, orgs'[o] # None PROVE Chain(orgs', o)
    BY ChainMeansNext
  <2>1. Exists(o) /\ orgs'[o].path = orgs[o].path
    BY DEF Exists
  <2>2. \A k \in 1 .. Len(orgs[o].path) : orgs[o].path[k] \in OrgIds
    BY <2>1, PathType DEF PathInv
  <2>3. Chain(orgs, o)
    BY <2>1, ChainMeans DEF PathInv, Exists
  <2> QED
    BY <2>1, <2>2, <2>3 DEF Chain, Exists
<1> QED
  BY <1>1, <1>2 DEF PathInv

LEMMA PathCreate ==
  ASSUME PathInv, NEW o \in OrgIds, NEW parent \in OrgIds \cup {None}, Create(o, parent)
  PROVE  PathInv'
<1>0. TypeOK' /\ TypeOK
  BY WriteType DEF PathInv
<1>1. CASE orgs' = orgs
  BY <1>0, <1>1, PathKept DEF Create, Exists
<1>2. CASE orgs' # orgs
  <2>1. o \notin drawn /\ drawn' = drawn \cup {o}
    BY DEF Create
  <2> DEFINE base == IF parent = None THEN <<>> ELSE orgs[parent].path
  <2>2. /\ base \in Seq(OrgIds)
        /\ \A k \in 1 .. Len(base) : base[k] \in drawn /\ base[k] \in OrgIds
        /\ \A k, l \in 1 .. Len(base) : base[k] = base[l] => k = l
        /\ \A k \in 1 .. Len(base) :
              orgs[base[k]] # None => orgs[base[k]].path = SubSeq(base, 1, k)
    <3>1. CASE parent = None
      BY <3>1
    <3>2. CASE parent # None
      <4>1. parent \in OrgIds /\ Exists(parent)
        BY <1>2, <3>2 DEF Create
      <4>2. Chain(orgs, parent)
        BY <4>1, ChainMeans DEF PathInv, Exists
      <4>3. \A k \in 1 .. Len(orgs[parent].path) : orgs[parent].path[k] \in drawn
        BY <4>1 DEF PathInv, PathsDrawn
      <4> QED
        BY <1>0, <3>2, <4>1, <4>2, <4>3, PathType DEF Chain
    <3> QED
      BY <3>1, <3>2
  <2>3. orgs' = [orgs EXCEPT ![o] = [parent |-> parent, path |-> Append(base, o)]]
    <3>1. CASE parent = None
      <4>1. Append(<<>>, o) = <<o>>
        OBVIOUS
      <4> QED
        BY <1>2, <3>1, <4>1 DEF Create
    <3>2. CASE parent # None
      BY <1>2, <3>2 DEF Create
    <3> QED
      BY <3>1, <3>2
  <2> DEFINE path == Append(base, o)
  <2> HIDE DEF base
  <2>4. /\ orgs'[o] # None /\ orgs'[o].path = path
        /\ \A q \in OrgIds : q # o => orgs'[q] = orgs[q]
    <3>1. orgs'[o] = [parent |-> parent, path |-> path]
      BY <1>0, <2>3 DEF TypeOK
    <3>2. orgs'[o] # None
      <4>1. path \in Seq(OrgIds) \ {<<>>}
        BY <2>2
      <4>2. orgs'[o] \in Organization
        BY <3>1, <4>1 DEF Organization
      <4> QED
        BY <4>2, OrganizationAssumption
    <3>3. \A q \in OrgIds : q # o => orgs'[q] = orgs[q]
      BY <1>0, <2>3 DEF TypeOK
    <3> QED
      BY <3>1, <3>2, <3>3
  <2>5. /\ Len(path) = Len(base) + 1 /\ Len(base) \in Nat
        /\ path[Len(path)] = o
        /\ \A k \in 1 .. Len(base) : path[k] = base[k]
        /\ \A k \in 1 .. Len(base) : SubSeq(path, 1, k) = SubSeq(base, 1, k)
        /\ SubSeq(path, 1, Len(path)) = path
    BY <2>2, PrefixAppend
  <2> HIDE DEF path
  <2>6. PathsDrawn'
    <3> SUFFICES ASSUME NEW q \in OrgIds, orgs'[q] # None
                 PROVE  /\ q \in drawn'
                        /\ \A k \in 1 .. Len(orgs'[q].path) : orgs'[q].path[k] \in drawn'
      BY DEF PathsDrawn, Exists
    <3>1. CASE q = o
      BY <2>1, <2>2, <2>4, <2>5, <3>1
    <3>2. CASE q # o
      BY <2>1, <2>4, <3>2 DEF PathInv, PathsDrawn, Exists
    <3> QED
      BY <3>1, <3>2
  <2>7. PathsChain'
    <3> SUFFICES ASSUME NEW q \in OrgIds, orgs'[q] # None PROVE Chain(orgs', q)
      BY ChainMeansNext
    <3>1. CASE q = o
      <4> SUFFICES ASSUME NEW k \in 1 .. Len(path), orgs'[path[k]] # None
                   PROVE  orgs'[path[k]].path = SubSeq(path, 1, k)
        <5>1. ASSUME NEW j \in 1 .. Len(path), NEW l \in 1 .. Len(path), path[j] = path[l]
              PROVE  j = l
          <6>1. \A i \in 1 .. Len(base) : path[i] # o
            BY <2>1, <2>2, <2>5
          <6>2. \A i \in 1 .. Len(path) : i \in 1 .. Len(base) \/ i = Len(path)
            BY <2>5
          <6> QED
            BY <2>2, <2>5, <5>1, <6>1, <6>2
        <5> QED
          BY <2>4, <2>5, <3>1, <5>1 DEF Chain
      <4>1. CASE k = Len(path)
        BY <2>4, <2>5, <4>1
      <4>2. CASE k # Len(path)
        <5>1. k \in 1 .. Len(base)
          BY <2>5, <4>2
        <5>2. path[k] = base[k] /\ base[k] # o /\ base[k] \in OrgIds
          BY <2>1, <2>2, <2>5, <5>1
        <5> QED
          BY <2>2, <2>4, <2>5, <5>1, <5>2
      <4> QED
        BY <4>1, <4>2
    <3>2. CASE q # o
      <4>1. Exists(q) /\ orgs'[q] = orgs[q]
        BY <2>4, <3>2 DEF Exists
      <4>2. Chain(orgs, q)
        BY <4>1, ChainMeans DEF PathInv, Exists
      <4>3. \A k \in 1 .. Len(orgs[q].path) :
               orgs[q].path[k] \in OrgIds /\ orgs[q].path[k] # o
        BY <1>0, <2>1, <4>1, PathType DEF PathInv, PathsDrawn
      <4> QED
        BY <2>4, <4>1, <4>2, <4>3 DEF Chain
    <3> QED
      BY <3>1, <3>2
  <2> QED
    BY <1>0, <2>6, <2>7 DEF PathInv
<1> QED
  BY <1>1, <1>2

LEMMA PathStep == PathInv /\ [Next]_vars => PathInv'
<1> SUFFICES ASSUME PathInv, [Next]_vars PROVE PathInv'
  OBVIOUS
<1>0. TypeOK /\ TypeOK'
  BY TypeStep DEF PathInv
<1>1. CASE orgs' = orgs /\ drawn' = drawn
  BY <1>0, <1>1, PathKept DEF Exists
<1>2. ASSUME NEW o \in OrgIds, NEW parent \in OrgIds \cup {None}, Update(o, parent)
      PROVE  PathInv'
  <2>1. drawn' = drawn
    BY <1>2 DEF Update, Fails
  <2>2. \A q \in OrgIds : Exists(q)' => Exists(q) /\ orgs'[q].path = orgs[q].path
    BY <1>0, <1>2, UpdateWrites DEF Exists, TypeOK
  <2> QED
    BY <1>0, <2>1, <2>2, PathKept
<1>3. ASSUME NEW o \in OrgIds, Delete(o) PROVE PathInv'
  <2>1. drawn' = drawn
    BY <1>3 DEF Delete, Fails
  <2>2. orgs' = orgs \/ orgs' = [orgs EXCEPT ![o] = None]
    BY <1>3 DEF Delete, Fails
  <2>3. \A q \in OrgIds : Exists(q)' => Exists(q) /\ orgs'[q].path = orgs[q].path
    BY <1>0, <2>2 DEF Exists, TypeOK
  <2> QED
    BY <1>0, <2>1, <2>3, PathKept
<1>4. ASSUME NEW rel \in Relation, AddMember(rel) PROVE PathInv'
  BY <1>1, <1>4 DEF AddMember, Fails
<1>5. ASSUME NEW o \in OrgIds, NEW u \in Users, RemoveMember(o, u) PROVE PathInv'
  BY <1>1, <1>5 DEF RemoveMember, Fails
<1>6. CASE UNCHANGED vars
  BY <1>1, <1>6 DEF vars
<1> QED
  BY <1>2, <1>3, <1>4, <1>5, <1>6, PathCreate DEF Next

LEMMA PathInvariant == Spec => []PathInv
PROOF BY PathInit, PathStep, PTL DEF Spec

\* The stored paths stay a forest of uuids, in which every path runs through the paths of
\* the organizations on it and names nobody twice, through every creation, deletion and
\* change of parent (memory_store.go:79), also one that makes the parents a cycle.
THEOREM Paths == Spec => []PathsChain
<1>1. PathInv => PathsChain
  BY DEF PathInv
<1> QED
  BY <1>1, PathInvariant, PTL
-----------------------------------------------------------------------------
(* Refinement: OrgStore implements Membership. *)

RefInv == PathInv /\ IndexesMirror

\* What it means to have joined
LEMMA JoinedMeans ==
  ASSUME NEW o, NEW u
  PROVE  /\ <<o, u>> \in Joined <=> \E v \in Users : \E r \in userOrgs[v] : r.org = o /\ r.user = u
         /\ <<o, u>> \in Joined' <=> \E v \in Users : \E r \in userOrgs'[v] : r.org = o /\ r.user = u
PROOF BY DEF Joined

LEMMA JoinedPairs ==
  ASSUME TypeOK, TypeOK'
  PROVE  Joined \subseteq OrgIds \X Users /\ Joined' \subseteq OrgIds \X Users
<1>1. \A u \in Users : \A r \in userOrgs[u] : r.org \in OrgIds /\ r.user \in Users
  BY DEF TypeOK, Relation
<1>2. \A u \in Users : \A r \in userOrgs'[u] : r.org \in OrgIds /\ r.user \in Users
  BY DEF TypeOK, Relation
<1> QED
  BY <1>1, <1>2 DEF Joined

\* Two sets of pairs are equal when they have the same pairs.
LEMMA SamePairs ==
  ASSUME NEW A, NEW B, NEW S \in SUBSET (A \X B), NEW T \in SUBSET (A \X B),
         \A a \in A, b \in B : <<a, b>> \in S <=> <<a, b>> \in T
  PROVE  S = T
OBVIOUS

LEMMA CreateRefines ==
  ASSUME RefInv, NEW o \in OrgIds, NEW parent \in OrgIds \cup {None}, Create(o, parent)
  PROVE  Abstract!Open(o) \/ UNCHANGED <<Live, Joined>>
<1>1. UNCHANGED Joined
  BY DEF Create, Joined
<1>2. CASE orgs' = orgs
  BY <1>1, <1>2 DEF Live, Exists
<1>3. CASE orgs' # orgs
  <2>1. o \notin Live
    BY DEF Create, RefInv, PathInv, PathsDrawn, Live
  <2>2. PICK r \in Organization : orgs' = [orgs EXCEPT ![o] = r]
    BY <1>3, CreateWrites DEF RefInv, PathInv
  <2>3. Live' = Live \cup {o}
    BY <2>2, OrganizationAssumption DEF RefInv, PathInv, TypeOK, Live, Exists
  <2> QED
    BY <1>1, <2>1, <2>3 DEF Abstract!Open
<1> QED
  BY <1>2, <1>3

LEMMA UpdateRefines ==
  ASSUME RefInv, NEW o \in OrgIds, NEW parent \in OrgIds \cup {None}, Update(o, parent)
  PROVE  UNCHANGED <<Live, Joined>>
<1>1. UNCHANGED Joined
  <2>1. UNCHANGED userOrgs
    BY DEF Update, Fails
  <2> QED
    BY <2>1 DEF Joined
<1>2. UNCHANGED Live
  <2>1. CASE orgs' = orgs
    BY <2>1 DEF Live, Exists
  <2>2. CASE orgs' # orgs
    <3>1. PICK r \in Organization : Exists(o) /\ orgs' = [orgs EXCEPT ![o] = r]
      BY <2>2, UpdateWrites DEF RefInv, PathInv
    <3> QED
      BY <3>1, OrganizationAssumption DEF RefInv, PathInv, TypeOK, Live, Exists
  <2> QED
    BY <2>1, <2>2
<1> QED
  BY <1>1, <1>2

LEMMA DeleteRefines ==
  ASSUME RefInv, TypeOK', NEW o \in OrgIds, Delete(o)
  PROVE  Abstract!Close(o) \/ UNCHANGED <<Live, Joined>>
<1>1. CASE Fails("org not found")
  BY <1>1 DEF Fails, Live, Joined, Exists
<1>2. CASE ~Fails("org not found")
  <2>1. o \in Live
    BY <1>2 DEF Delete, Live
  <2>2. Live' = Live \ {o}
    BY <1>2 DEF Delete, Live, Exists, RefInv, PathInv, TypeOK
  <2>3. \A u \in Users : userOrgs'[u] = Without(userOrgs[u], o)
    BY <1>2, DeleteUnlinks DEF RefInv, PathInv
  <2>4. Joined' = {m \in Joined : m[1] # o}
    <3>1. Joined \subseteq OrgIds \X Users /\ Joined' \subseteq OrgIds \X Users
      BY JoinedPairs DEF RefInv, PathInv
    <3>2. ASSUME NEW q \in OrgIds, NEW u \in Users
          PROVE  <<q, u>> \in Joined' <=> <<q, u>> \in {m \in Joined : m[1] # o}
      BY <2>3, JoinedMeans DEF Without
    <3> QED
      BY <3>1, <3>2, SamePairs
  <2> QED
    BY <2>1, <2>2, <2>4 DEF Abstract!Close
<1> QED
  BY <1>1, <1>2

LEMMA AddMemberRefines ==
  ASSUME RefInv, TypeOK', NEW rel \in Relation, AddMember(rel)
  PROVE  Abstract!Join(rel.org, rel.user) \/ UNCHANGED <<Live, Joined>>
<1>1. rel.org \in OrgIds /\ rel.user \in Users
  BY DEF Relation
<1>2. CASE Fails("org not found") \/ Fails("member exists")
  BY <1>2 DEF Fails, Live, Joined, Exists
<1>3. CASE ~(Fails("org not found") \/ Fails("member exists"))
  <2>1. /\ Exists(rel.org) /\ UNCHANGED orgs
        /\ \A r \in members[rel.org] : r.user # rel.user
        /\ \A u \in Users : userOrgs'[u] =
              IF u = rel.user THEN userOrgs[u] \cup {rel} ELSE userOrgs[u]
    BY <1>1, <1>3 DEF AddMember, RefInv, PathInv, TypeOK
  <2>2. rel.org \in Live /\ UNCHANGED Live
    BY <1>1, <2>1 DEF Live, Exists
  <2>3. <<rel.org, rel.user>> \notin Joined
    <3>1. ASSUME NEW v \in Users, NEW r \in userOrgs[v] PROVE r \in members[r.org]
      BY DEF RefInv, IndexesMirror, ListMembers, GetUserOrgs
    <3> QED
      BY <2>1, <3>1, JoinedMeans
  <2>4. Joined' = Joined \cup {<<rel.org, rel.user>>}
    <3>1. Joined \subseteq OrgIds \X Users /\ Joined' \subseteq OrgIds \X Users
      BY JoinedPairs DEF RefInv, PathInv
    <3>2. ASSUME NEW q \in OrgIds, NEW u \in Users
          PROVE  <<q, u>> \in Joined' <=> <<q, u>> \in Joined \cup {<<rel.org, rel.user>>}
      <4>1. ASSUME <<q, u>> \in Joined' PROVE <<q, u>> \in Joined \cup {<<rel.org, rel.user>>}
        <5>1. PICK v \in Users : \E r \in userOrgs'[v] : r.org = q /\ r.user = u
          BY <4>1, JoinedMeans
        <5>2. PICK r \in userOrgs'[v] : r.org = q /\ r.user = u
          BY <5>1
        <5>3. r = rel \/ r \in userOrgs[v]
          BY <2>1
        <5>4. r \in userOrgs[v] => <<q, u>> \in Joined
          BY <5>2, JoinedMeans
        <5> QED
          BY <5>2, <5>3, <5>4
      <4>2. ASSUME <<q, u>> \in Joined PROVE <<q, u>> \in Joined'
        <5>1. PICK v \in Users : \E r \in userOrgs[v] : r.org = q /\ r.user = u
          BY <4>2, JoinedMeans
        <5>2. PICK r \in userOrgs[v] : r.org = q /\ r.user = u
          BY <5>1
        <5>3. r \in userOrgs'[v]
          BY <2>1
        <5> QED
          BY <5>2, <5>3, JoinedMeans
      <4>3. <<rel.org, rel.user>> \in Joined'
        <5>1. rel \in userOrgs'[rel.user]
          BY <1>1, <2>1
        <5> QED
          BY <1>1, <5>1, JoinedMeans
      <4> QED
        BY <4>1, <4>2, <4>3
    <3>3. Joined \cup {<<rel.org, rel.user>>} \subseteq OrgIds \X Users
      BY <1>1, <3>1
    <3> QED
      BY <3>1, <3>2, <3>3, SamePairs
  <2> QED
    BY <2>2, <2>3, <2>4 DEF Abstract!Join
<1> QED
  BY <1>2, <1>3

LEMMA RemoveMemberRefines ==
  ASSUME RefInv, TypeOK', NEW o \in OrgIds, NEW u \in Users, RemoveMember(o, u)
  PROVE  Abstract!Leave(o, u) \/ UNCHANGED <<Live, Joined>>
<1>1. CASE Fails("member not found")
  BY <1>1 DEF Fails, Live, Joined, Exists
<1>2. CASE ~Fails("member not found")
  <2>1. /\ UNCHANGED orgs
        /\ \E r \in members[o] : r.user = u
        /\ \A v \in Users : userOrgs'[v] =
              IF v = u THEN Without(userOrgs[v], o) ELSE userOrgs[v]
    BY <1>2 DEF RemoveMember, RefInv, PathInv, TypeOK
  <2>2. UNCHANGED Live
    BY <2>1 DEF Live, Exists
  <2>3. <<o, u>> \in Joined
    <3>1. PICK r \in members[o] : r.user = u
      BY <2>1
    <3>2. r.org = o /\ r \in userOrgs[u]
      BY <3>1 DEF RefInv, IndexesMirror, ListMembers, GetUserOrgs
    <3> QED
      BY <3>1, <3>2, JoinedMeans
  <2>4. Joined' = Joined \ {<<o, u>>}
    <3>1. Joined \subseteq OrgIds \X Users /\ Joined' \subseteq OrgIds \X Users
      BY JoinedPairs DEF RefInv, PathInv
    <3>2. ASSUME NEW q \in OrgIds, NEW v \in Users
          PROVE  <<q, v>> \in Joined' <=> <<q, v>> \in Joined \ {<<o, u>>}
      <4>1. \A w \in Users : \A r \in userOrgs[w] : r.user = w
        BY DEF RefInv, IndexesMirror, GetUserOrgs
      <4>2. \A w \in Users : \A r :
               r \in userOrgs'[w] <=> r \in userOrgs[w] /\ ~(w = u /\ r.org = o)
        BY <2>1 DEF Without
      <4> QED
        BY <4>1, <4>2, JoinedMeans
    <3>3. Joined \ {<<o, u>>} \subseteq OrgIds \X Users
      BY <3>1
    <3> QED
      BY <3>1, <3>2, <3>3, SamePairs
  <2> QED
    BY <2>2, <2>3, <2>4 DEF Abstract!Leave
<1> QED
  BY <1>1, <1>2

LEMMA NextRefines == RefInv /\ [Next]_vars => [Abstract!Next]_<<Live, Joined>>
<1> SUFFICES ASSUME RefInv, [Next]_vars PROVE [Abstract!Next]_<<Live, Joined>>
  OBVIOUS
<1>0. TypeOK'
  BY TypeStep DEF RefInv, PathInv
<1>1. CASE UNCHANGED vars
  BY <1>1 DEF vars, Live, Joined, Exists
<1>2. ASSUME NEW o \in OrgIds, NEW parent \in OrgIds \cup {None},
             Create(o, parent) \/ Update(o, parent)
      PROVE  [Abstract!Next]_<<Live, Joined>>
  BY <1>2, CreateRefines, UpdateRefines DEF Abstract!Next
<1>3. ASSUME NEW o \in OrgIds, Delete(o) PROVE [Abstract!Next]_<<Live, Joined>>
  BY <1>0, <1>3, DeleteRefines DEF Abstract!Next
<1>4. ASSUME NEW rel \in Relation, AddMember(rel) PROVE [Abstract!Next]_<<Live, Joined>>
  <2>1. rel.org \in OrgIds /\ rel.user \in Users
    BY DEF Relation
  <2> QED
    BY <1>0, <1>4, <2>1, AddMemberRefines DEF Abstract!Next
<1>5. ASSUME NEW o \in OrgIds, NEW u \in Users, RemoveMember(o, u)
      PROVE  [Abstract!Next]_<<Live, Joined>>
  BY <1>0, <1>5, RemoveMemberRefines DEF Abstract!Next
<1> QED
  BY <1>1, <1>2, <1>3, <1>4, <1>5 DEF Next

LEMMA InitRefines == Init => Abstract!Init
PROOF BY DEF Init, Abstract!Init, Live, Joined, Exists

\* The store implements Membership: one relation over the organizations that exist,
\* with a deletion that ends all memberships of the organization at once.
THEOREM Refinement == Spec => ImplementsMembership
<1>1. PathInv /\ IndexesMirror => RefInv
  BY DEF RefInv
<1> QED
  BY <1>1, PathInvariant, Mirror, InitRefines, NextRefines, PTL
     DEF Spec, ImplementsMembership, Abstract!Spec, Abstract!vars

-----------------------------------------------------------------------------
(* What a caller of the store may rely on between two of its calls. *)

\* A step keeps every uuid that was drawn, and brings no organization back.
LEMMA StepKeeps ==
  ASSUME TypeOK, [Next]_vars
  PROVE  drawn \subseteq drawn' /\ \A o \in drawn : ~Exists(o) => ~Exists(o)'
<1>1. CASE UNCHANGED <<orgs, drawn>>
  BY <1>1 DEF Exists
<1>2. ASSUME NEW o \in OrgIds, NEW parent \in OrgIds \cup {None}, Create(o, parent)
      PROVE  drawn \subseteq drawn' /\ \A q \in drawn : ~Exists(q) => ~Exists(q)'
  <2>1. o \notin drawn /\ drawn' = drawn \cup {o}
    BY <1>2 DEF Create
  <2>2. \A q \in drawn : orgs'[q] = orgs[q]
    BY <1>2, <2>1, CreateWrites DEF TypeOK
  <2> QED
    BY <2>1, <2>2 DEF Exists
<1>3. ASSUME NEW o \in OrgIds, NEW parent \in OrgIds \cup {None}, Update(o, parent)
      PROVE  drawn \subseteq drawn' /\ \A q \in drawn : ~Exists(q) => ~Exists(q)'
  <2>1. drawn' = drawn
    BY <1>3 DEF Update, Fails
  <2>2. \A q \in drawn : orgs[q] = None => orgs'[q] = None
    BY <1>3 DEF Update, Fails, TypeOK, Exists
  <2> QED
    BY <2>1, <2>2 DEF Exists
<1>4. ASSUME NEW o \in OrgIds, Delete(o)
      PROVE  drawn \subseteq drawn' /\ \A q \in drawn : ~Exists(q) => ~Exists(q)'
  BY <1>4 DEF Delete, Fails, TypeOK, Exists
<1>5. ASSUME NEW rel \in Relation, AddMember(rel) PROVE UNCHANGED <<orgs, drawn>>
  BY <1>5 DEF AddMember, Fails
<1>6. ASSUME NEW o \in OrgIds, NEW u \in Users, RemoveMember(o, u)
      PROVE  UNCHANGED <<orgs, drawn>>
  BY <1>6 DEF RemoveMember, Fails
<1> QED
  BY <1>1, <1>2, <1>3, <1>4, <1>5, <1>6 DEF Next, vars

\* A relation is stored only in organizations whose uuid was drawn.
LEMMA RelationsDrawn ==
  ASSUME RefInv
  PROVE  /\ \A o \in OrgIds : Exists(o) => o \in drawn
         /\ \A o \in OrgIds : \A r \in members[o] : r.org = o /\ o \in drawn
         /\ \A u \in Users : \A r \in userOrgs[u] : r.user = u /\ r \in members[r.org]
<1>1. TypeOK /\ PathsDrawn /\ PathsChain /\ IndexesMirror
  BY DEF RefInv, PathInv
<1>2. ASSUME NEW o \in OrgIds, Exists(o) PROVE o \in drawn
  <2>1. Len(orgs[o].path) \in Nat \ {0} /\ orgs[o].path[Len(orgs[o].path)] = o
    BY <1>1, <1>2, PathType DEF PathsChain
  <2> QED
    BY <1>1, <1>2, <2>1 DEF PathsDrawn
<1> QED
  BY <1>1, <1>2 DEF IndexesMirror, ListMembers, GetUserOrgs
=============================================================================
