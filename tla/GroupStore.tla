----------------------------- MODULE GroupStore -----------------------------
(***************************************************************************)
(* The group store (MemoryGroupStore in internal/directory/memory_store.go).*)
(* As in OrgStore, every method holds the store's RWMutex and is one       *)
(* action, and member lists are sets.  A group's name, description and     *)
(* type are updated alike and are one value, info.                         *)
(***************************************************************************)
CONSTANTS
    GroupIds,     \* the uuids CreateGroup can still draw: bounds the groups
    Users,        \* user ids
    Roles,
    Infos,
    None          \* no map entry, or an empty request field

ASSUME GroupNoneAssumption == None \notin Infos

VARIABLES
    groups,       \* id -> group
    members,      \* group id -> member relations
    userGroups,   \* user id -> member relations
    drawn,        \* uuids CreateGroup has drawn
    answer        \* the error, or "ok", that the last call returned

vars == <<groups, members, userGroups, drawn, answer>>

GroupMember == [user : Users, group : GroupIds, role : Roles]

Answers == {"ok", "group not found", "member exists", "member not found"}

Exists(g) == groups[g] # None

TypeOK ==
    /\ groups \in [GroupIds -> Infos \cup {None}]
    /\ members \in [GroupIds -> SUBSET GroupMember]
    /\ userGroups \in [Users -> SUBSET GroupMember]
    /\ drawn \subseteq GroupIds
    /\ answer \in Answers
    /\ \A g \in GroupIds : Exists(g) => g \in drawn

-----------------------------------------------------------------------------

Init ==
    /\ groups = [g \in GroupIds |-> None]
    /\ members = [g \in GroupIds |-> {}]
    /\ userGroups = [u \in Users |-> {}]
    /\ drawn = {}
    /\ answer = "ok"

\* A call that changes nothing and returns error e.
Fails(e) ==
    /\ answer' = e
    /\ UNCHANGED <<groups, members, userGroups, drawn>>

\* The uuid is fresh, so Create's "already exists" test cannot fail.
Create(g, info) ==
    /\ g \notin drawn
    /\ drawn' = drawn \cup {g}
    /\ groups' = [groups EXCEPT ![g] = info]
    /\ answer' = "ok"
    /\ UNCHANGED <<members, userGroups>>

Update(g, info) ==
    \/ ~Exists(g) /\ Fails("group not found")
    \/ /\ Exists(g)
       /\ groups' = [groups EXCEPT ![g] = IF info = None THEN @ ELSE info]
       /\ answer' = "ok"
       /\ UNCHANGED <<members, userGroups, drawn>>

\* The relations rels without those to group g (removeUserGroupRelation).
Without(rels, g) == {m \in rels : m.group # g}

\* Mutant of Delete: the relations of the members stay in userGroups.
DeleteOneIndex(g) ==
    /\ Exists(g)
    /\ members' = [members EXCEPT ![g] = {}]
    /\ groups' = [groups EXCEPT ![g] = None]
    /\ answer' = "ok"
    /\ UNCHANGED <<userGroups, drawn>>

Delete(g) ==
    \/ ~Exists(g) /\ Fails("group not found")
    \/ /\ Exists(g)
       /\ userGroups' = [u \in Users |->
             IF \E m \in members[g] : m.user = u
             THEN Without(userGroups[u], g) ELSE userGroups[u]]
       /\ members' = [members EXCEPT ![g] = {}]
       /\ groups' = [groups EXCEPT ![g] = None]
       /\ answer' = "ok"
       /\ UNCHANGED drawn

\* Mutant of AddMember: the existing members are not searched.
AddMemberTwice(member) ==
    /\ Exists(member.group)
    /\ members' = [members EXCEPT ![member.group] = @ \cup {member}]
    /\ userGroups' = [userGroups EXCEPT ![member.user] = @ \cup {member}]
    /\ answer' = "ok"
    /\ UNCHANGED <<groups, drawn>>

AddMember(member) ==
    \/ ~Exists(member.group) /\ Fails("group not found")
    \/ /\ Exists(member.group)
       /\ \E m \in members[member.group] : m.user = member.user
       /\ Fails("member exists")
    \/ /\ Exists(member.group)
       /\ \A m \in members[member.group] : m.user # member.user
       /\ members' = [members EXCEPT ![member.group] = @ \cup {member}]
       /\ userGroups' = [userGroups EXCEPT ![member.user] = @ \cup {member}]
       /\ answer' = "ok"
       /\ UNCHANGED <<groups, drawn>>

\* Does not look the group up: a missing one has no members.
RemoveMember(g, u) ==
    \/ (\A m \in members[g] : m.user # u) /\ Fails("member not found")
    \/ /\ \E m \in members[g] : m.user = u
       /\ members' = [members EXCEPT ![g] = {m \in @ : m.user # u}]
       /\ userGroups' = [userGroups EXCEPT ![u] = Without(@, g)]
       /\ answer' = "ok"
       /\ UNCHANGED <<groups, drawn>>

Next ==
    \/ \E g \in GroupIds, info \in Infos : Create(g, info)
    \/ \E g \in GroupIds, info \in Infos \cup {None} : Update(g, info)
    \/ \E g \in GroupIds : Delete(g)
    \/ \E member \in GroupMember : AddMember(member)
    \/ \E g \in GroupIds, u \in Users : RemoveMember(g, u)

Spec == Init /\ [][Next]_vars

-----------------------------------------------------------------------------
(* Reads.  ListMembers of a missing group is ErrGroupNotFound (see          *)
(* Directory).                                                              *)

ListMembers(g) == members[g]
GetUserGroups(u) == userGroups[u]

-----------------------------------------------------------------------------

\* The two indexes are one relation, each user has at most one relation to a
\* group, and relations lead to groups that exist: whatever the order of
\* additions, removals and deletions, ListMembers and GetUserGroups agree.
IndexesMirror ==
    /\ \A g \in GroupIds : \A m \in ListMembers(g) :
          m.group = g /\ m \in GetUserGroups(m.user) /\ Exists(g)
    /\ \A u \in Users : \A m \in GetUserGroups(u) :
          m.user = u /\ m \in ListMembers(m.group)
    /\ \A g \in GroupIds : \A m, k \in ListMembers(g) : m.user = k.user => m = k

\* The store as Membership sees it, read through the index by user.
Live == {g \in GroupIds : Exists(g)}
Joined == {<<m.group, m.user>> : m \in UNION {userGroups[u] : u \in Users}}

Abstract == INSTANCE Membership WITH Containers <- GroupIds, live <- Live, joined <- Joined

\* Read through the index by user, the store is Membership: a deletion ends all
\* memberships of the group in one step, and no call joins a user twice or to a
\* group that does not exist.
ImplementsMembership == Abstract!Spec
=============================================================================
