------------------------------ MODULE OrgStore ------------------------------
(***************************************************************************)
(* The organization store (MemoryOrgStore in                               *)
(* internal/directory/memory_store.go).  Every method holds the store's    *)
(* RWMutex from start to end, so every method is one action.               *)
(*                                                                         *)
(* A relation's role and is_primary flag are one value, role.  The member  *)
(* lists are sets: nothing reads their order, and AddMember rejects a      *)
(* second relation of a user before it looks at the role.  Names and       *)
(* timestamps are left out.                                                *)
(***************************************************************************)
EXTENDS Naturals, Sequences

CONSTANTS
    OrgIds,       \* the uuids CreateOrg can still draw: bounds the organizations
    Users,        \* user ids
    Roles,
    None          \* no map entry, or an empty parent id

ASSUME OrgNoneAssumption == None \notin OrgIds

VARIABLES
    orgs,         \* id -> organization
    members,      \* org id -> relations
    userOrgs,     \* user id -> relations
    drawn,        \* uuids CreateOrg has drawn
    answer        \* the error, or "ok", that the last call returned

vars == <<orgs, members, userOrgs, drawn, answer>>

Relation == [user : Users, org : OrgIds, role : Roles]

Organization == [parent : OrgIds \cup {None}, path : Seq(OrgIds) \ {<<>>}]

Answers == {"ok", "parent not found", "org not found", "member exists", "member not found"}

ASSUME OrganizationAssumption == None \notin Organization

TypeOK ==
    /\ orgs \in [OrgIds -> Organization \cup {None}]
    /\ members \in [OrgIds -> SUBSET Relation]
    /\ userOrgs \in [Users -> SUBSET Relation]
    /\ drawn \subseteq OrgIds
    /\ answer \in Answers

Exists(o) == orgs[o] # None

-----------------------------------------------------------------------------

Init ==
    /\ orgs = [o \in OrgIds |-> None]
    /\ members = [o \in OrgIds |-> {}]
    /\ userOrgs = [u \in Users |-> {}]
    /\ drawn = {}
    /\ answer = "ok"

\* A call that changes nothing and returns error e.
Fails(e) ==
    /\ answer' = e
    /\ UNCHANGED <<orgs, members, userOrgs, drawn>>

\* Mutant of Create: the path has the parent's id instead of the parent's path.
CreateFlat(o, parent) ==
    /\ o \notin drawn
    /\ drawn' = drawn \cup {o}
    /\ parent \in {None} \cup {q \in OrgIds : Exists(q)}
    /\ orgs' = [orgs EXCEPT ![o] = [parent |-> parent,
                  path |-> IF parent = None THEN <<o>> ELSE <<parent, o>>]]
    /\ answer' = "ok"
    /\ UNCHANGED <<members, userOrgs>>

\* The uuid is fresh, so Create's "already exists" test cannot fail.
Create(o, parent) ==
    /\ o \notin drawn
    /\ drawn' = drawn \cup {o}
    /\ UNCHANGED <<members, userOrgs>>
    /\ \/ /\ parent = None
          /\ orgs' = [orgs EXCEPT ![o] = [parent |-> None, path |-> <<o>>]]
          /\ answer' = "ok"
       \/ /\ parent # None /\ ~Exists(parent)
          /\ answer' = "parent not found"
          /\ UNCHANGED orgs
       \/ /\ parent # None /\ Exists(parent)
          /\ orgs' = [orgs EXCEPT ![o] = [parent |-> parent,
                                          path |-> Append(orgs[parent].path, o)]]
          /\ answer' = "ok"

\* The new parent is any string the client sends; the path is not rebuilt.
Update(o, parent) ==
    \/ ~Exists(o) /\ Fails("org not found")
    \/ /\ Exists(o)
       /\ orgs' = [orgs EXCEPT ![o].parent = IF parent = None THEN @ ELSE parent]
       /\ answer' = "ok"
       /\ UNCHANGED <<members, userOrgs, drawn>>

\* The relations rels without those to organization o (removeUserOrgRelation).
Without(rels, o) == {r \in rels : r.org # o}

\* Mutant of Delete: the relations of the members stay in userOrgs.
DeleteOneIndex(o) ==
    /\ Exists(o)
    /\ members' = [members EXCEPT ![o] = {}]
    /\ orgs' = [orgs EXCEPT ![o] = None]
    /\ answer' = "ok"
    /\ UNCHANGED <<userOrgs, drawn>>

\* The children of o keep their parent id and path.
Delete(o) ==
    \/ ~Exists(o) /\ Fails("org not found")
    \/ /\ Exists(o)
       /\ userOrgs' = [u \in Users |->
             IF \E r \in members[o] : r.user = u THEN Without(userOrgs[u], o) ELSE userOrgs[u]]
       /\ members' = [members EXCEPT ![o] = {}]
       /\ orgs' = [orgs EXCEPT ![o] = None]
       /\ answer' = "ok"
       /\ UNCHANGED drawn

\* Mutant of AddMember: the organization is not looked up.
AddMemberAnywhere(rel) ==
    /\ \A r \in members[rel.org] : r.user # rel.user
    /\ members' = [members EXCEPT ![rel.org] = @ \cup {rel}]
    /\ userOrgs' = [userOrgs EXCEPT ![rel.user] = @ \cup {rel}]
    /\ answer' = "ok"
    /\ UNCHANGED <<orgs, drawn>>

AddMember(rel) ==
    \/ ~Exists(rel.org) /\ Fails("org not found")
    \/ /\ Exists(rel.org)
       /\ \E r \in members[rel.org] : r.user = rel.user
       /\ Fails("member exists")
    \/ /\ Exists(rel.org)
       /\ \A r \in members[rel.org] : r.user # rel.user
       /\ members' = [members EXCEPT ![rel.org] = @ \cup {rel}]
       /\ userOrgs' = [userOrgs EXCEPT ![rel.user] = @ \cup {rel}]
       /\ answer' = "ok"
       /\ UNCHANGED <<orgs, drawn>>

\* Mutant of RemoveMember: the user's own list keeps the relation.
RemoveMemberOneIndex(o, u) ==
    /\ \E r \in members[o] : r.user = u
    /\ members' = [members EXCEPT ![o] = {r \in @ : r.user # u}]
    /\ answer' = "ok"
    /\ UNCHANGED <<orgs, userOrgs, drawn>>

\* Does not look the organization up: a missing one has no members.
RemoveMember(o, u) ==
    \/ (\A r \in members[o] : r.user # u) /\ Fails("member not found")
    \/ /\ \E r \in members[o] : r.user = u
       /\ members' = [members EXCEPT ![o] = {r \in @ : r.user # u}]
       /\ userOrgs' = [userOrgs EXCEPT ![u] = Without(@, o)]
       /\ answer' = "ok"
       /\ UNCHANGED <<orgs, drawn>>

Next ==
    \/ \E o \in OrgIds, parent \in OrgIds \cup {None} : Create(o, parent) \/ Update(o, parent)
    \/ \E o \in OrgIds : Delete(o)
    \/ \E rel \in Relation : AddMember(rel)
    \/ \E o \in OrgIds, u \in Users : RemoveMember(o, u)

Spec == Init /\ [][Next]_vars

-----------------------------------------------------------------------------
(* Reads.  ListMembers of a missing organization is ErrOrgNotFound (see     *)
(* Directory).                                                              *)

ListMembers(o) == members[o]
GetUserOrgs(u) == userOrgs[u]
ListChildren(o) == {c \in OrgIds : Exists(c) /\ orgs[c].parent = o}

-----------------------------------------------------------------------------

\* The two indexes are one relation, each user has at most one relation to an
\* organization, and relations lead to organizations that exist: whatever the
\* order of additions, removals and deletions, ListMembers and GetUserOrgs agree.
IndexesMirror ==
    /\ \A o \in OrgIds : \A r \in ListMembers(o) :
          r.org = o /\ r \in GetUserOrgs(r.user) /\ Exists(o)
    /\ \A u \in Users : \A r \in GetUserOrgs(u) :
          r.user = u /\ r \in ListMembers(r.org)
    /\ \A o \in OrgIds : \A r, s \in ListMembers(o) : r.user = s.user => r = s

\* The stored paths fit together: a path ends in its organization, names nobody twice,
\* and where an organization on it still exists, that one's own path is the
\* corresponding prefix.  So the paths stay a forest although the parents, which Update
\* takes from the request unchecked (memory_store.go:79), may become a cycle or lead
\* nowhere.  It does not say that the organizations on a path are the parents: Update
\* leaves the path, and what is created below a moved organization misses the new ones.
PathsChain ==
    \A o \in OrgIds : Exists(o) =>
        LET path == orgs[o].path IN
        /\ path[Len(path)] = o
        /\ \A k, l \in 1 .. Len(path) : path[k] = path[l] => k = l
        /\ \A k \in 1 .. Len(path) : Exists(path[k]) =>
              orgs[path[k]].path = SubSeq(path, 1, k)

\* The store as Membership sees it, read through the index by user.
Live == {o \in OrgIds : Exists(o)}
Joined == {<<r.org, r.user>> : r \in UNION {userOrgs[u] : u \in Users}}

Abstract == INSTANCE Membership WITH Containers <- OrgIds, live <- Live, joined <- Joined

\* Read through the index by user, the store is Membership: a deletion ends all
\* memberships of the organization in one step, and no call joins a user twice
\* or to an organization that does not exist.
ImplementsMembership == Abstract!Spec
=============================================================================
