----------------------------- MODULE Directory ------------------------------
(***************************************************************************)
(* The directory service (internal/service/directory.go) as the REST and   *)
(* UDS front ends call it, composed of the organization store, the group   *)
(* store and what it sees of the user store.                               *)
(*                                                                         *)
(* Each store call is atomic (OrgStore, GroupStore), but several requests  *)
(* make more than one, on different stores: AddOrgMember asks the user     *)
(* store and then adds; UpdateOrg updates and then reads back; the joins   *)
(* of ListOrgMembers and GetUserOrgs list and then look up every entry.    *)
(* Between the calls of one request other requests run.                    *)
(*                                                                         *)
(* Of a user only what GetByID tells is kept: absent, live or deleted.  A  *)
(* request that does not decode is answered 400 before any store call and  *)
(* is left out.                                                            *)
(***************************************************************************)
EXTENDS Naturals, Sequences

CONSTANTS
    Procs,                      \* request goroutines
    OrgIds, GroupIds, Users,    \* bound what can be created
    Roles, Infos, None

VARIABLES
    account,                                               \* user -> its state
    orgs, orgMembers, userOrgs, orgsDrawn, orgAnswer,      \* the organization store
    groups, groupMembers, userGroups, groupsDrawn, groupAnswer,  \* the group store
    call,                                                  \* requests under way
    reply                                                  \* the last HTTP status

orgStore == <<orgs, orgMembers, userOrgs, orgsDrawn, orgAnswer>>
groupStore == <<groups, groupMembers, userGroups, groupsDrawn, groupAnswer>>
vars == <<account, orgStore, groupStore, call, reply>>

Org == INSTANCE OrgStore WITH
    members <- orgMembers, drawn <- orgsDrawn, answer <- orgAnswer

Group == INSTANCE GroupStore WITH
    members <- groupMembers, drawn <- groupsDrawn, answer <- groupAnswer

\* The requests that make several store calls
MultiCall == {"AddOrgMember", "UpdateOrg", "ListOrgMembers", "GetUserOrgs",
              "AddGroupMember", "UpdateGroup", "ListGroupMembers", "GetUserGroups"}

ASSUME DirectoryAssumption ==
    /\ None \notin OrgIds /\ None \notin Org!Organization /\ None \notin Infos
    /\ None \notin MultiCall

\* A request under way: its name, what it is about, the entries of a listing still to
\* be looked up, and those whose look-up failed and that stay blank.
NoCall == [op |-> None, on |-> None, todo |-> {}, blank |-> {}]

Statuses == {200, 201, 204, 400, 404, 409, 500}

TypeOK ==
    /\ account \in [Users -> {"absent", "live", "deleted"}]
    /\ Org!TypeOK /\ Group!TypeOK
    /\ \A p \in Procs : /\ call[p].op \in MultiCall \cup {None}
                        /\ call[p].todo \cap call[p].blank = {}
                        /\ call[p].todo \cup call[p].blank \subseteq
                              Org!Relation \cup Group!GroupMember
    /\ reply \in Statuses

Init ==
    /\ account = [u \in Users |-> "absent"]
    /\ Org!Init /\ Group!Init
    /\ call = [p \in Procs |-> NoCall]
    /\ reply = 200

Idle(p) == call[p] = NoCall

\* The request goes on after this store call.
Begin(p, c) == call' = [call EXCEPT ![p] = c] /\ UNCHANGED reply

\* The request is answered with HTTP status s.
Answer(p, s) == call' = [call EXCEPT ![p] = NoCall] /\ reply' = s

-----------------------------------------------------------------------------
(* internal/api/directory_handler.go: the status of each outcome.           *)

NotFound ==
    ({"UpdateOrg", "DeleteOrg", "GetOrg", "AddOrgMember", "ListOrgMembers"}
         \X {"org not found"})
    \cup ({"UpdateGroup", "DeleteGroup", "GetGroup", "AddGroupMember", "ListGroupMembers"}
         \X {"group not found"})
    \cup ({"AddOrgMember", "AddGroupMember"} \X {"user not found"})
    \cup ({"RemoveOrgMember", "RemoveGroupMember"} \X {"member not found"})

Created == {"CreateOrg", "CreateGroup", "AddOrgMember", "AddGroupMember"}
Emptied == {"DeleteOrg", "DeleteGroup", "RemoveOrgMember", "RemoveGroupMember"}

\* Mutant of Conflict: the case is missing in one of the two handlers.
ConflictInGroups == {"AddGroupMember"} \X {"member exists"}

Conflict == {"AddOrgMember", "AddGroupMember"} \X {"member exists"}

HttpStatus(op, err) ==
    CASE err = "ok" -> IF op \in Created THEN 201 ELSE IF op \in Emptied THEN 204 ELSE 200
      [] err # "ok" /\ op = "CreateOrg" -> 400
      [] <<op, err>> \in NotFound -> 404
      [] <<op, err>> \in Conflict -> 409
      [] err # "ok" /\ op # "CreateOrg" /\ <<op, err>> \notin NotFound \cup Conflict -> 500

-----------------------------------------------------------------------------
(* What the user store does meanwhile.  Revive: an Update that loaded the   *)
(* record before the deletion stores it back (UserStore).                   *)

CreateUser(u) ==
    /\ account[u] = "absent"
    /\ account' = [account EXCEPT ![u] = "live"]
    /\ UNCHANGED <<orgStore, groupStore, call, reply>>

DeleteUser(u) ==
    /\ account[u] = "live"
    /\ account' = [account EXCEPT ![u] = "deleted"]
    /\ UNCHANGED <<orgStore, groupStore, call, reply>>

Revive(u) ==
    /\ account[u] = "deleted"
    /\ account' = [account EXCEPT ![u] = "live"]
    /\ UNCHANGED <<orgStore, groupStore, call, reply>>

-----------------------------------------------------------------------------
(* Requests of one store call.                                              *)

\* The request op of goroutine p, whose store call answered orgAnswer'.
OrgCall(p, op) ==
    /\ Idle(p)
    /\ Answer(p, HttpStatus(op, orgAnswer'))
    /\ UNCHANGED <<account, groupStore>>

GroupCall(p, op) ==
    /\ Idle(p)
    /\ Answer(p, HttpStatus(op, groupAnswer'))
    /\ UNCHANGED <<account, orgStore>>

CreateOrg(p, o, parent) == Org!Create(o, parent) /\ OrgCall(p, "CreateOrg")
DeleteOrg(p, o) == Org!Delete(o) /\ OrgCall(p, "DeleteOrg")
RemoveOrgMember(p, o, u) == Org!RemoveMember(o, u) /\ OrgCall(p, "RemoveOrgMember")

GetOrg(p, o) ==
    /\ Idle(p)
    /\ Answer(p, HttpStatus("GetOrg", IF Org!Exists(o) THEN "ok" ELSE "org not found"))
    /\ UNCHANGED <<account, orgStore, groupStore>>

CreateGroup(p, g, info) == Group!Create(g, info) /\ GroupCall(p, "CreateGroup")
DeleteGroup(p, g) == Group!Delete(g) /\ GroupCall(p, "DeleteGroup")
RemoveGroupMember(p, g, u) == Group!RemoveMember(g, u) /\ GroupCall(p, "RemoveGroupMember")
GetGroup(p, g) ==
    /\ Idle(p)
    /\ Answer(p, HttpStatus("GetGroup", IF Group!Exists(g) THEN "ok" ELSE "group not found"))
    /\ UNCHANGED <<account, orgStore, groupStore>>

-----------------------------------------------------------------------------
(* Organizations: requests of several store calls.                          *)

\* Mutant of AddOrgMember: the user is not looked up.
AddOrgMemberUnchecked(p, rel) ==
    /\ Idle(p)
    /\ Begin(p, [NoCall EXCEPT !.op = "AddOrgMember", !.on = rel])
    /\ UNCHANGED <<account, orgStore, groupStore>>

\* userStore.GetByID, whose error of any kind is ErrUserNotFound
AddOrgMember(p, rel) ==
    /\ Idle(p)
    /\ \/ /\ account[rel.user] # "live"
          /\ Answer(p, HttpStatus("AddOrgMember", "user not found"))
       \/ /\ account[rel.user] = "live"
          /\ Begin(p, [NoCall EXCEPT !.op = "AddOrgMember", !.on = rel])
    /\ UNCHANGED <<account, orgStore, groupStore>>

\* orgStore.AddMember
AddOrgMemberStore(p) ==
    /\ call[p].op = "AddOrgMember"
    /\ Org!AddMember(call[p].on)
    /\ Answer(p, HttpStatus("AddOrgMember", orgAnswer'))
    /\ UNCHANGED <<account, groupStore>>

\* orgStore.Update
UpdateOrg(p, o, parent) ==
    /\ Idle(p)
    /\ Org!Update(o, parent)
    /\ \/ /\ orgAnswer' = "ok"
          /\ Begin(p, [NoCall EXCEPT !.op = "UpdateOrg", !.on = o])
       \/ /\ orgAnswer' # "ok"
          /\ Answer(p, HttpStatus("UpdateOrg", orgAnswer'))
    /\ UNCHANGED <<account, groupStore>>

\* orgStore.GetByID of what was updated
UpdateOrgRead(p) ==
    /\ call[p].op = "UpdateOrg"
    /\ Answer(p, HttpStatus("UpdateOrg",
                            IF Org!Exists(call[p].on) THEN "ok" ELSE "org not found"))
    /\ UNCHANGED <<account, orgStore, groupStore>>

\* orgStore.ListMembers
ListOrgMembers(p, o) ==
    /\ Idle(p)
    /\ \/ /\ ~Org!Exists(o)
          /\ Answer(p, HttpStatus("ListOrgMembers", "org not found"))
       \/ /\ Org!Exists(o)
          /\ Begin(p, [NoCall EXCEPT !.op = "ListOrgMembers", !.todo = Org!ListMembers(o)])
    /\ UNCHANGED <<account, orgStore, groupStore>>

\* handleGetUserOrgs: orgStore.GetUserOrgs.  (The UDS front end answers "success",
\* here 200; the REST one answers the relations without looking anything up.)
GetUserOrgs(p, u) ==
    /\ Idle(p)
    /\ Begin(p, [NoCall EXCEPT !.op = "GetUserOrgs", !.todo = Org!GetUserOrgs(u)])
    /\ UNCHANGED <<account, orgStore, groupStore>>

-----------------------------------------------------------------------------
(* Groups: the same, over the group store.                                  *)

AddGroupMember(p, member) ==
    /\ Idle(p)
    /\ \/ /\ account[member.user] # "live"
          /\ Answer(p, HttpStatus("AddGroupMember", "user not found"))
       \/ /\ account[member.user] = "live"
          /\ Begin(p, [NoCall EXCEPT !.op = "AddGroupMember", !.on = member])
    /\ UNCHANGED <<account, orgStore, groupStore>>

AddGroupMemberStore(p) ==
    /\ call[p].op = "AddGroupMember"
    /\ Group!AddMember(call[p].on)
    /\ Answer(p, HttpStatus("AddGroupMember", groupAnswer'))
    /\ UNCHANGED <<account, orgStore>>

UpdateGroup(p, g, info) ==
    /\ Idle(p)
    /\ Group!Update(g, info)
    /\ \/ /\ groupAnswer' = "ok"
          /\ Begin(p, [NoCall EXCEPT !.op = "UpdateGroup", !.on = g])
       \/ /\ groupAnswer' # "ok"
          /\ Answer(p, HttpStatus("UpdateGroup", groupAnswer'))
    /\ UNCHANGED <<account, orgStore>>

UpdateGroupRead(p) ==
    /\ call[p].op = "UpdateGroup"
    /\ Answer(p, HttpStatus("UpdateGroup",
                            IF Group!Exists(call[p].on) THEN "ok" ELSE "group not found"))
    /\ UNCHANGED <<account, orgStore, groupStore>>

ListGroupMembers(p, g) ==
    /\ Idle(p)
    /\ \/ /\ ~Group!Exists(g)
          /\ Answer(p, HttpStatus("ListGroupMembers", "group not found"))
       \/ /\ Group!Exists(g)
          /\ Begin(p, [NoCall EXCEPT !.op = "ListGroupMembers",
                                     !.todo = Group!ListMembers(g)])
    /\ UNCHANGED <<account, orgStore, groupStore>>

GetUserGroups(p, u) ==
    /\ Idle(p)
    /\ Begin(p, [NoCall EXCEPT !.op = "GetUserGroups", !.todo = Group!GetUserGroups(u)])
    /\ UNCHANGED <<account, orgStore, groupStore>>

-----------------------------------------------------------------------------
(* The joins: one look-up per entry, in any order, and then the answer.     *)

\* Mutant of Found: every listing looks up the user.
FoundUser(op, r) == account[r.user] = "live"

\* What the look-up of entry r finds in a listing of kind op.
Found(op, r) ==
    CASE op \in {"ListOrgMembers", "ListGroupMembers"} -> account[r.user] = "live"
      [] op = "GetUserOrgs" -> Org!Exists(r.org)
      [] op = "GetUserGroups" -> Group!Exists(r.group)

\* Mutant of LookUp: the entry stays to be looked up again.
LookUpAgain(p, r) ==
    /\ r \in call[p].todo
    /\ Begin(p, [call[p] EXCEPT !.blank = IF Found(call[p].op, r) THEN @ ELSE @ \cup {r}])
    /\ UNCHANGED <<account, orgStore, groupStore>>

LookUp(p, r) ==
    /\ r \in call[p].todo
    /\ Begin(p, [call[p] EXCEPT !.todo = @ \ {r},
                                !.blank = IF Found(call[p].op, r) THEN @ ELSE @ \cup {r}])
    /\ UNCHANGED <<account, orgStore, groupStore>>

Listed(p) ==
    /\ call[p].op \in {"ListOrgMembers", "ListGroupMembers", "GetUserOrgs", "GetUserGroups"}
    /\ call[p].todo = {}
    /\ Answer(p, HttpStatus(call[p].op, "ok"))
    /\ UNCHANGED <<account, orgStore, groupStore>>

-----------------------------------------------------------------------------

UserNext == \E u \in Users : CreateUser(u) \/ DeleteUser(u) \/ Revive(u)

OrgNext(p) ==
    \/ \E o \in OrgIds, parent \in OrgIds \cup {None} :
          CreateOrg(p, o, parent) \/ UpdateOrg(p, o, parent)
    \/ \E o \in OrgIds : DeleteOrg(p, o) \/ GetOrg(p, o) \/ ListOrgMembers(p, o)
    \/ \E o \in OrgIds, u \in Users : RemoveOrgMember(p, o, u)
    \/ \E rel \in Org!Relation : AddOrgMember(p, rel)
    \/ \E u \in Users : GetUserOrgs(p, u)
    \/ AddOrgMemberStore(p) \/ UpdateOrgRead(p)

GroupNext(p) ==
    \/ \E g \in GroupIds, info \in Infos : CreateGroup(p, g, info)
    \/ \E g \in GroupIds, info \in Infos \cup {None} : UpdateGroup(p, g, info)
    \/ \E g \in GroupIds : DeleteGroup(p, g) \/ GetGroup(p, g) \/ ListGroupMembers(p, g)
    \/ \E g \in GroupIds, u \in Users : RemoveGroupMember(p, g, u)
    \/ \E member \in Group!GroupMember : AddGroupMember(p, member)
    \/ \E u \in Users : GetUserGroups(p, u)
    \/ AddGroupMemberStore(p) \/ UpdateGroupRead(p)

Next ==
    \/ UserNext
    \/ \E p \in Procs : \/ OrgNext(p) \/ GroupNext(p) \/ Listed(p)
                        \/ \E r \in call[p].todo : LookUp(p, r)

Spec == Init /\ [][Next]_vars

-----------------------------------------------------------------------------

\* Every relation that a store keeps, that is about to be added or that a listing
\* still holds names a user who was created and an organization or group that was
\* created, although the user is checked in one store and the relation added in
\* another one later (service/directory.go:68 and 81).
RelationsKnown ==
    /\ \A o \in OrgIds, u \in Users : \A r \in orgMembers[o] \cup userOrgs[u] :
          account[r.user] # "absent" /\ r.org \in orgsDrawn
    /\ \A g \in GroupIds, u \in Users : \A m \in groupMembers[g] \cup userGroups[u] :
          account[m.user] # "absent" /\ m.group \in groupsDrawn
    /\ \A p \in Procs :
          /\ call[p].op \in {"AddOrgMember", "AddGroupMember"} =>
                account[call[p].on.user] # "absent"
          /\ \A r \in call[p].todo \cup call[p].blank : account[r.user] # "absent"

\* An organization or group that has been deleted stays without members: an addition
\* that passed its user check before the deletion does not bring one back.
DeletedStaysEmpty ==
    /\ \A o \in orgsDrawn : ~Org!Exists(o) =>
          orgMembers[o] = {} /\ \A u \in Users : \A r \in userOrgs[u] : r.org # o
    /\ \A g \in groupsDrawn : ~Group!Exists(g) =>
          groupMembers[g] = {} /\ \A u \in Users : \A r \in userGroups[u] : r.group # g

\* A blank entry of GetUserOrgs or GetUserGroups (uds/handler.go:288 and 432) tells the
\* client that the organization or group was deleted while the listing was put
\* together, and stays true as long as the listing is under way.
BlankIsDeleted ==
    \A p \in Procs : \A r \in call[p].blank :
        /\ call[p].op = "GetUserOrgs" => r.org \in orgsDrawn /\ ~Org!Exists(r.org)
        /\ call[p].op = "GetUserGroups" => r.group \in groupsDrawn /\ ~Group!Exists(r.group)

\* No request of this module is answered 500: every error that its calls can return, in
\* any interleaving, has a case of its own in directory_handler.go.  ListOrgs and
\* ListGroups are not among them: their slice panics on a negative offset, which the
\* recovery turns into a 500 (Paging).
NoInternalError == reply # 500
=============================================================================
