--------------------------- MODULE DirectoryProofs --------------------------
(***************************************************************************)
(* Theorems about Directory, for every set of goroutines, ids, users, roles *)
(* and infos.  What the two stores do is taken from OrgStoreProofs and      *)
(* GroupStoreProofs: every step of Directory is, for each store, one of its *)
(* own steps or none.                                                       *)
(***************************************************************************)
EXTENDS Directory, TLAPS

OrgP == INSTANCE OrgStoreProofs WITH
    members <- orgMembers, drawn <- orgsDrawn, answer <- orgAnswer

GroupP == INSTANCE GroupStoreProofs WITH
    members <- groupMembers, drawn <- groupsDrawn, answer <- groupAnswer

-----------------------------------------------------------------------------
(* The inductive invariant. *)

Rels == Org!Relation \cup Group!GroupMember

Frames == [op : MultiCall \cup {None}, on : Rels \cup OrgIds \cup GroupIds \cup {None},
           todo : SUBSET Rels, blank : SUBSET Rels]

Listings == {"ListOrgMembers", "ListGroupMembers", "GetUserOrgs", "GetUserGroups"}

\* A request that has passed its user check, or that has listed, holds relations of
\* users who were created, to organizations or groups that were; those it has found
\* missing stay missing.
CallInv(p) ==
    /\ call[p].todo \cap call[p].blank = {}
    /\ call[p].op \notin Listings => call[p].todo = {}
    /\ call[p].op = "AddOrgMember" => call[p].on \in Org!Relation
    /\ call[p].op = "AddGroupMember" => call[p].on \in Group!GroupMember
    /\ call[p].op \in {"AddOrgMember", "AddGroupMember"} =>
          account[call[p].on.user] # "absent"
    /\ call[p].op = "UpdateOrg" => call[p].on \in OrgIds
    /\ call[p].op = "UpdateGroup" => call[p].on \in GroupIds
    /\ \A r \in call[p].todo \cup call[p].blank : account[r.user] # "absent"
    /\ call[p].op = "GetUserOrgs" =>
          \A r \in call[p].todo \cup call[p].blank : r \in Org!Relation /\ r.org \in orgsDrawn
    /\ call[p].op = "GetUserGroups" =>
          \A r \in call[p].todo \cup call[p].blank :
              r \in Group!GroupMember /\ r.group \in groupsDrawn
    /\ call[p].op = "GetUserOrgs" => \A r \in call[p].blank : ~Org!Exists(r.org)
    /\ call[p].op = "GetUserGroups" => \A r \in call[p].blank : ~Group!Exists(r.group)

\* The members of every organization and group are users who were created.
MembersKnown ==
    /\ \A o \in OrgIds : \A r \in orgMembers[o] : account[r.user] # "absent"
    /\ \A g \in GroupIds : \A r \in groupMembers[g] : account[r.user] # "absent"

IndInv ==
    /\ account \in [Users -> {"absent", "live", "deleted"}]
    /\ OrgP!RefInv /\ GroupP!RefInv
    /\ call \in [Procs -> Frames] /\ \A p \in Procs : CallInv(p)
    /\ MembersKnown
    /\ reply \in Statuses \ {500}

-----------------------------------------------------------------------------
(* The stores as Directory calls them are the stores of OrgStoreProofs and   *)
(* GroupStoreProofs.                                                         *)

LEMMA OrgSame ==
  ASSUME NEW o, NEW u, NEW rel
  PROVE  /\ Org!Init <=> OrgP!Init
         /\ Org!TypeOK <=> OrgP!TypeOK
         /\ Org!Relation = OrgP!Relation
         /\ Org!Exists(o) <=> OrgP!Exists(o)
         /\ Org!Create(o, u) => OrgP!Create(o, u)
         /\ Org!Update(o, u) => OrgP!Update(o, u)
         /\ Org!Delete(o) => OrgP!Delete(o)
         /\ Org!AddMember(rel) => OrgP!AddMember(rel)
         /\ Org!RemoveMember(o, u) => OrgP!RemoveMember(o, u)
<1>1. Org!Init <=> OrgP!Init
  BY DEF Org!Init, OrgP!Init
<1>2. Org!TypeOK <=> OrgP!TypeOK
  BY DEF Org!TypeOK, OrgP!TypeOK, Org!Organization, OrgP!Organization, Org!Relation,
         OrgP!Relation, Org!Answers, OrgP!Answers
<1>3. Org!Relation = OrgP!Relation /\ (Org!Exists(o) <=> OrgP!Exists(o))
  BY DEF Org!Relation, OrgP!Relation, Org!Exists, OrgP!Exists
<1>4. Org!Create(o, u) => OrgP!Create(o, u)
  BY DEF Org!Create, OrgP!Create, Org!Exists, OrgP!Exists
<1>5. Org!Update(o, u) => OrgP!Update(o, u)
  BY DEF Org!Update, OrgP!Update, Org!Exists, OrgP!Exists, Org!Fails, OrgP!Fails
<1>6. Org!Delete(o) => OrgP!Delete(o)
  BY DEF Org!Delete, OrgP!Delete, Org!Exists, OrgP!Exists, Org!Fails, OrgP!Fails,
         Org!Without, OrgP!Without
<1>7. Org!AddMember(rel) => OrgP!AddMember(rel)
  BY DEF Org!AddMember, OrgP!AddMember, Org!Exists, OrgP!Exists, Org!Fails, OrgP!Fails
<1>8. Org!RemoveMember(o, u) => OrgP!RemoveMember(o, u)
  BY DEF Org!RemoveMember, OrgP!RemoveMember, Org!Fails, OrgP!Fails, Org!Without,
         OrgP!Without
<1> QED
  BY <1>1, <1>2, <1>3, <1>4, <1>5, <1>6, <1>7, <1>8

LEMMA GroupSame ==
  ASSUME NEW g, NEW u, NEW member
  PROVE  /\ Group!Init <=> GroupP!Init
         /\ Group!TypeOK <=> GroupP!TypeOK
         /\ Group!GroupMember = GroupP!GroupMember
         /\ Group!Exists(g) <=> GroupP!Exists(g)
         /\ Group!Create(g, u) => GroupP!Create(g, u)
         /\ Group!Update(g, u) => GroupP!Update(g, u)
         /\ Group!Delete(g) => GroupP!Delete(g)
         /\ Group!AddMember(member) => GroupP!AddMember(member)
         /\ Group!RemoveMember(g, u) => GroupP!RemoveMember(g, u)
<1>1. Group!Init <=> GroupP!Init
  BY DEF Group!Init, GroupP!Init
<1>2. Group!TypeOK <=> GroupP!TypeOK
  BY DEF Group!TypeOK, GroupP!TypeOK, Group!GroupMember, GroupP!GroupMember,
         Group!Answers, GroupP!Answers, Group!Exists, GroupP!Exists
<1>3. Group!GroupMember = GroupP!GroupMember /\ (Group!Exists(g) <=> GroupP!Exists(g))
  BY DEF Group!GroupMember, GroupP!GroupMember, Group!Exists, GroupP!Exists
<1>4. Group!Create(g, u) => GroupP!Create(g, u)
  BY DEF Group!Create, GroupP!Create
<1>5. Group!Update(g, u) => GroupP!Update(g, u)
  BY DEF Group!Update, GroupP!Update, Group!Exists, GroupP!Exists, Group!Fails,
         GroupP!Fails
<1>6. Group!Delete(g) => GroupP!Delete(g)
  BY DEF Group!Delete, GroupP!Delete, Group!Exists, GroupP!Exists, Group!Fails,
         GroupP!Fails, Group!Without, GroupP!Without
<1>7. Group!AddMember(member) => GroupP!AddMember(member)
  BY DEF Group!AddMember, GroupP!AddMember, Group!Exists, GroupP!Exists, Group!Fails,
         GroupP!Fails
<1>8. Group!RemoveMember(g, u) => GroupP!RemoveMember(g, u)
  BY DEF Group!RemoveMember, GroupP!RemoveMember, Group!Fails, GroupP!Fails,
         Group!Without, GroupP!Without
<1> QED
  BY <1>1, <1>2, <1>3, <1>4, <1>5, <1>6, <1>7, <1>8

\* The assumptions of OrgStoreProofs and GroupStoreProofs hold here.
LEMMA StoreAssumptions ==
  None \notin OrgIds /\ None \notin OrgP!Organization /\ None \notin Infos
PROOF BY DirectoryAssumption DEF Org!Organization, OrgP!Organization

-----------------------------------------------------------------------------
(* Every step is, for each store, a step of its own or none. *)

LEMMA OrgSteps ==
  ASSUME IndInv, [Next]_vars
  PROVE  [OrgP!Next]_(OrgP!vars)
<1>1. CASE UNCHANGED orgStore
  BY <1>1 DEF orgStore, OrgP!vars
<1>2. CASE UNCHANGED vars
  BY <1>1, <1>2 DEF vars
<1>3. CASE UserNext
  BY <1>1, <1>3 DEF UserNext, CreateUser, DeleteUser, Revive
<1>4. ASSUME NEW p \in Procs, OrgNext(p) PROVE [OrgP!Next]_(OrgP!vars)
  <2>1. ASSUME NEW o \in OrgIds, NEW parent \in OrgIds \cup {None},
               CreateOrg(p, o, parent) \/ UpdateOrg(p, o, parent)
        PROVE  OrgP!Next
    BY <2>1, OrgSame DEF CreateOrg, UpdateOrg, OrgP!Next
  <2>2. ASSUME NEW o \in OrgIds, DeleteOrg(p, o) PROVE OrgP!Next
    BY <2>2, OrgSame DEF DeleteOrg, OrgP!Next
  <2>3. ASSUME NEW o \in OrgIds, NEW u \in Users, RemoveOrgMember(p, o, u) PROVE OrgP!Next
    BY <2>3, OrgSame DEF RemoveOrgMember, OrgP!Next
  <2>4. ASSUME AddOrgMemberStore(p) PROVE OrgP!Next
    <3>1. call[p].on \in OrgP!Relation /\ OrgP!AddMember(call[p].on)
      BY <2>4, OrgSame DEF AddOrgMemberStore, IndInv, CallInv
    <3> QED
      BY <3>1 DEF OrgP!Next
  <2>5. CASE UNCHANGED orgStore
    BY <1>1, <2>5
  <2> QED
    BY <1>4, <2>1, <2>2, <2>3, <2>4, <2>5
       DEF OrgNext, GetOrg, ListOrgMembers, AddOrgMember, GetUserOrgs, UpdateOrgRead
<1>5. ASSUME NEW p \in Procs, GroupNext(p) PROVE UNCHANGED orgStore
  BY <1>5 DEF GroupNext, CreateGroup, UpdateGroup, DeleteGroup, GetGroup, ListGroupMembers,
              RemoveGroupMember, AddGroupMember, GetUserGroups, AddGroupMemberStore,
              UpdateGroupRead, GroupCall
<1>6. ASSUME NEW p \in Procs, Listed(p) \/ \E r \in call[p].todo : LookUp(p, r)
      PROVE  UNCHANGED orgStore
  BY <1>6 DEF Listed, LookUp
<1> QED
  BY <1>1, <1>2, <1>3, <1>4, <1>5, <1>6 DEF Next

LEMMA GroupSteps ==
  ASSUME IndInv, [Next]_vars
  PROVE  [GroupP!Next]_(GroupP!vars)
<1>1. CASE UNCHANGED groupStore
  BY <1>1 DEF groupStore, GroupP!vars
<1>2. CASE UNCHANGED vars
  BY <1>1, <1>2 DEF vars
<1>3. CASE UserNext
  BY <1>1, <1>3 DEF UserNext, CreateUser, DeleteUser, Revive
<1>4. ASSUME NEW p \in Procs, GroupNext(p) PROVE [GroupP!Next]_(GroupP!vars)
  <2>1. ASSUME NEW g \in GroupIds, NEW info \in Infos, CreateGroup(p, g, info)
        PROVE  GroupP!Next
    BY <2>1, GroupSame DEF CreateGroup, GroupP!Next
  <2>2. ASSUME NEW g \in GroupIds, NEW info \in Infos \cup {None}, UpdateGroup(p, g, info)
        PROVE  GroupP!Next
    BY <2>2, GroupSame DEF UpdateGroup, GroupP!Next
  <2>3. ASSUME NEW g \in GroupIds, DeleteGroup(p, g) PROVE GroupP!Next
    BY <2>3, GroupSame DEF DeleteGroup, GroupP!Next
  <2>4. ASSUME NEW g \in GroupIds, NEW u \in Users, RemoveGroupMember(p, g, u)
        PROVE  GroupP!Next
    BY <2>4, GroupSame DEF RemoveGroupMember, GroupP!Next
  <2>5. ASSUME AddGroupMemberStore(p) PROVE GroupP!Next
    <3>1. call[p].on \in GroupP!GroupMember /\ GroupP!AddMember(call[p].on)
      BY <2>5, GroupSame DEF AddGroupMemberStore, IndInv, CallInv
    <3> QED
      BY <3>1 DEF GroupP!Next
  <2>6. CASE UNCHANGED groupStore
    BY <1>1, <2>6
  <2> QED
    BY <1>4, <2>1, <2>2, <2>3, <2>4, <2>5, <2>6
       DEF GroupNext, GetGroup, ListGroupMembers, AddGroupMember, GetUserGroups,
           UpdateGroupRead
<1>5. ASSUME NEW p \in Procs, OrgNext(p) PROVE UNCHANGED groupStore
  BY <1>5 DEF OrgNext, CreateOrg, UpdateOrg, DeleteOrg, GetOrg, ListOrgMembers,
              RemoveOrgMember, AddOrgMember, GetUserOrgs, AddOrgMemberStore, UpdateOrgRead,
              OrgCall
<1>6. ASSUME NEW p \in Procs, Listed(p) \/ \E r \in call[p].todo : LookUp(p, r)
      PROVE  UNCHANGED groupStore
  BY <1>6 DEF Listed, LookUp
<1> QED
  BY <1>1, <1>2, <1>3, <1>4, <1>5, <1>6 DEF Next

\* So the invariants of the two stores carry over.
LEMMA StoresStep ==
  ASSUME IndInv, [Next]_vars
  PROVE  OrgP!RefInv' /\ GroupP!RefInv'
<1>1. OrgP!RefInv'
  <2>1. OrgP!PathInv /\ OrgP!TypeOK /\ OrgP!IndexesMirror
    BY DEF IndInv, OrgP!RefInv, OrgP!PathInv
  <2>2. OrgP!PathInv'
    BY <2>1, OrgSteps, StoreAssumptions, OrgP!PathStep
  <2>3. OrgP!IndexesMirror'
    BY <2>1, OrgSteps, StoreAssumptions, OrgP!MirrorStep
  <2> QED
    BY <2>2, <2>3 DEF OrgP!RefInv
<1>2. GroupP!RefInv'
  <2>1. GroupP!TypeOK /\ GroupP!IndexesMirror
    BY DEF IndInv, GroupP!RefInv
  <2>2. GroupP!TypeOK'
    BY <2>1, GroupSteps, StoreAssumptions, GroupP!TypeStep
  <2>3. GroupP!IndexesMirror'
    BY <2>1, GroupSteps, StoreAssumptions, GroupP!MirrorStep
  <2> QED
    BY <2>2, <2>3 DEF GroupP!RefInv
<1> QED
  BY <1>1, <1>2

-----------------------------------------------------------------------------
(* What a request may rely on between its store calls. *)

Persists ==
    /\ \A u \in Users : account[u] # "absent" => account'[u] # "absent"
    /\ orgsDrawn \subseteq orgsDrawn' /\ groupsDrawn \subseteq groupsDrawn'
    /\ \A o \in orgsDrawn : ~Org!Exists(o) => ~Org!Exists(o)'
    /\ \A g \in groupsDrawn : ~Group!Exists(g) => ~Group!Exists(g)'

\* No user becomes absent again, no uuid is drawn twice, and what was deleted stays so.
LEMMA StepPersists ==
  ASSUME IndInv, [Next]_vars
  PROVE  Persists
<1>1. \A u \in Users : account[u] # "absent" => account'[u] # "absent"
  <2>1. CASE UNCHANGED account
    BY <2>1
  <2>2. CASE UserNext
    BY <2>2 DEF UserNext, CreateUser, DeleteUser, Revive, IndInv
  <2>3. CASE UNCHANGED vars
    BY <2>1, <2>3 DEF vars
  <2>4. ASSUME NEW p \in Procs, OrgNext(p) PROVE UNCHANGED account
    BY <2>4 DEF OrgNext, CreateOrg, UpdateOrg, DeleteOrg, GetOrg, ListOrgMembers,
                RemoveOrgMember, AddOrgMember, GetUserOrgs, AddOrgMemberStore,
                UpdateOrgRead, OrgCall
  <2>5. ASSUME NEW p \in Procs, GroupNext(p) PROVE UNCHANGED account
    BY <2>5 DEF GroupNext, CreateGroup, UpdateGroup, DeleteGroup, GetGroup,
                ListGroupMembers, RemoveGroupMember, AddGroupMember, GetUserGroups,
                AddGroupMemberStore, UpdateGroupRead, GroupCall
  <2>6. ASSUME NEW p \in Procs, Listed(p) \/ \E r \in call[p].todo : LookUp(p, r)
        PROVE  UNCHANGED account
    BY <2>6 DEF Listed, LookUp
  <2> QED
    BY <2>1, <2>2, <2>3, <2>4, <2>5, <2>6 DEF Next
<1>2. /\ orgsDrawn \subseteq orgsDrawn'
      /\ \A o \in orgsDrawn : ~OrgP!Exists(o) => ~OrgP!Exists(o)'
  <2>1. OrgP!TypeOK
    BY DEF IndInv, OrgP!RefInv, OrgP!PathInv
  <2> QED
    BY <2>1, OrgSteps, StoreAssumptions, OrgP!StepKeeps
<1>3. /\ groupsDrawn \subseteq groupsDrawn'
      /\ \A g \in groupsDrawn : ~GroupP!Exists(g) => ~GroupP!Exists(g)'
  <2>1. GroupP!TypeOK
    BY DEF IndInv, GroupP!RefInv
  <2> QED
    BY <2>1, GroupSteps, StoreAssumptions, GroupP!StepKeeps
<1> QED
  BY <1>1, <1>2, <1>3
     DEF Persists, Org!Exists, OrgP!Exists, Group!Exists, GroupP!Exists

\* Every relation names a user.
LEMMA RelsNameUsers == \A r \in Rels : r.user \in Users
PROOF BY DEF Rels, Org!Relation, Group!GroupMember

\* What a request holds stays good while others run.
LEMMA CallKept ==
  ASSUME IndInv, Persists, NEW p \in Procs, call'[p] = call[p]
  PROVE  CallInv(p)'
<1> DEFINE c == call[p]
<1>1. c \in Frames /\ CallInv(p)
  BY DEF IndInv
<1>2. /\ c.todo \subseteq Rels /\ c.blank \subseteq Rels
  BY <1>1 DEF Frames
<1>3. \A r \in c.todo \cup c.blank : account'[r.user] # "absent"
  BY <1>1, <1>2, RelsNameUsers DEF CallInv, Persists
<1>4. /\ c.op = "AddOrgMember" => c.on \in Org!Relation
      /\ c.op = "AddGroupMember" => c.on \in Group!GroupMember
      /\ c.op \in {"AddOrgMember", "AddGroupMember"} => account[c.on.user] # "absent"
  BY <1>1 DEF CallInv
<1>5. c.op \in {"AddOrgMember", "AddGroupMember"} => account'[c.on.user] # "absent"
  BY <1>4, RelsNameUsers DEF Persists, Rels
<1>6. c.op = "GetUserOrgs" =>
        /\ \A r \in c.todo \cup c.blank : r \in Org!Relation /\ r.org \in orgsDrawn'
        /\ \A r \in c.blank : ~Org!Exists(r.org)'
  BY <1>1 DEF CallInv, Persists
<1>7. c.op = "GetUserGroups" =>
        /\ \A r \in c.todo \cup c.blank :
              r \in Group!GroupMember /\ r.group \in groupsDrawn'
        /\ \A r \in c.blank : ~Group!Exists(r.group)'
  BY <1>1 DEF CallInv, Persists
<1>8. /\ c.todo \cap c.blank = {}
      /\ c.op \notin Listings => c.todo = {}
      /\ c.op = "UpdateOrg" => c.on \in OrgIds
      /\ c.op = "UpdateGroup" => c.on \in GroupIds
  BY <1>1 DEF CallInv
<1>9. call'[p] = c
  OBVIOUS
<1> HIDE DEF c
<1> QED
  BY <1>3, <1>4, <1>5, <1>6, <1>7, <1>8, <1>9 DEF CallInv

CallsInv == call \in [Procs -> Frames] /\ \A q \in Procs : CallInv(q)

LEMMA CallsKept ==
  ASSUME IndInv, Persists, UNCHANGED call
  PROVE  CallsInv'
PROOF BY CallKept DEF CallsInv, IndInv

\* A step that gives goroutine p the frame c
LEMMA CallsStep ==
  ASSUME IndInv, Persists, NEW p \in Procs, NEW c \in Frames,
         call' = [call EXCEPT ![p] = c], CallInv(p)'
  PROVE  CallsInv'
<1>1. call \in [Procs -> Frames]
  BY DEF IndInv
<1>2. call' \in [Procs -> Frames] /\ \A q \in Procs : q # p => call'[q] = call[q]
  BY <1>1
<1> QED
  BY <1>2, CallKept DEF CallsInv

LEMMA AnswerStep ==
  ASSUME IndInv, Persists, NEW p \in Procs, NEW s \in Statuses \ {500}, Answer(p, s)
  PROVE  CallsInv' /\ reply' \in Statuses \ {500}
<1>1. NoCall \in Frames
  BY DEF NoCall, Frames
<1>2. call' = [call EXCEPT ![p] = NoCall] /\ call'[p] = NoCall
  BY DEF Answer, IndInv
<1>3. CallInv(p)'
  BY <1>2, DirectoryAssumption DEF CallInv, NoCall, MultiCall, Listings
<1> QED
  BY <1>1, <1>2, <1>3, CallsStep DEF Answer

\* The frames of a request that goes on
LEMMA NewFrames ==
  /\ \A op \in MultiCall, x \in Rels \cup OrgIds \cup GroupIds :
        LET c == [NoCall EXCEPT !.op = op, !.on = x] IN
        c \in Frames /\ c.op = op /\ c.on = x /\ c.todo = {} /\ c.blank = {}
  /\ \A op \in MultiCall, R \in SUBSET Rels :
        LET c == [NoCall EXCEPT !.op = op, !.todo = R] IN
        c \in Frames /\ c.op = op /\ c.todo = R /\ c.blank = {}
<1>1. ASSUME NEW op \in MultiCall, NEW x \in Rels \cup OrgIds \cup GroupIds
      PROVE  LET c == [NoCall EXCEPT !.op = op, !.on = x] IN
             c \in Frames /\ c.op = op /\ c.on = x /\ c.todo = {} /\ c.blank = {}
  BY DEF NoCall, Frames
<1>2. ASSUME NEW op \in MultiCall, NEW R \in SUBSET Rels
      PROVE  LET c == [NoCall EXCEPT !.op = op, !.todo = R] IN
             c \in Frames /\ c.op = op /\ c.todo = R /\ c.blank = {}
  BY DEF NoCall, Frames
<1> QED
  BY <1>1, <1>2

\* A request that holds a relation to add, or an id to read back
LEMMA BeginOn ==
  ASSUME IndInv, Persists, NEW p \in Procs, NEW c \in Frames, Begin(p, c),
         c.todo = {}, c.blank = {},
         \/ c.op = "AddOrgMember" /\ c.on \in Org!Relation /\ account[c.on.user] # "absent"
         \/ c.op = "AddGroupMember" /\ c.on \in Group!GroupMember /\ account[c.on.user] # "absent"
         \/ c.op = "UpdateOrg" /\ c.on \in OrgIds
         \/ c.op = "UpdateGroup" /\ c.on \in GroupIds
  PROVE  CallsInv' /\ reply' \in Statuses \ {500}
<1>1. call' = [call EXCEPT ![p] = c] /\ call'[p] = c /\ reply' \in Statuses \ {500}
  BY DEF Begin, IndInv
<1>2. c.op \in {"AddOrgMember", "AddGroupMember"} => account'[c.on.user] # "absent"
  BY RelsNameUsers DEF Rels, Persists
<1>3. CallInv(p)'
  BY <1>1, <1>2 DEF CallInv
<1> QED
  BY <1>1, <1>3, CallsStep

\* A request that holds the relations of a listing
LEMMA BeginList ==
  ASSUME IndInv, Persists, NEW p \in Procs, NEW c \in Frames, Begin(p, c),
         c.op \in Listings, c.todo \cap c.blank = {},
         \A r \in c.todo \cup c.blank : account[r.user] # "absent",
         c.op = "GetUserOrgs" =>
             /\ \A r \in c.todo \cup c.blank : r \in Org!Relation /\ r.org \in orgsDrawn
             /\ \A r \in c.blank : ~Org!Exists(r.org),
         c.op = "GetUserGroups" =>
             /\ \A r \in c.todo \cup c.blank : r \in Group!GroupMember /\ r.group \in groupsDrawn
             /\ \A r \in c.blank : ~Group!Exists(r.group)
  PROVE  CallsInv' /\ reply' \in Statuses \ {500}
<1>1. call' = [call EXCEPT ![p] = c] /\ call'[p] = c /\ reply' \in Statuses \ {500}
  BY DEF Begin, IndInv
<1>2. c.todo \cup c.blank \subseteq Rels
  BY DEF Frames
<1>3. \A r \in c.todo \cup c.blank : account'[r.user] # "absent"
  BY <1>2, RelsNameUsers DEF Persists
<1>4. CallInv(p)'
  BY <1>1, <1>3 DEF CallInv, Persists, Listings
<1> QED
  BY <1>1, <1>4, CallsStep

-----------------------------------------------------------------------------
(* The answers: every error that a call of the request can return has a     *)
(* case of its own.                                                         *)

LEMMA Answered ==
  ASSUME NEW op, NEW err,
         err = "ok" \/ op = "CreateOrg" \/ <<op, err>> \in NotFound \cup Conflict
  PROVE  HttpStatus(op, err) \in Statuses \ {500}
<1>1. <<op, err>> \in NotFound \cup Conflict => err # "ok"
  BY DEF NotFound, Conflict
<1>2. ~(<<op, err>> \in NotFound /\ <<op, err>> \in Conflict)
  BY DEF NotFound, Conflict
<1>3. CASE err = "ok"
  BY <1>1, <1>3 DEF HttpStatus, Statuses
<1>4. CASE err # "ok" /\ op = "CreateOrg"
  <2>1. <<op, err>> \notin NotFound /\ <<op, err>> \notin Conflict
    BY <1>4 DEF NotFound, Conflict
  <2> QED
    BY <1>4, <2>1 DEF HttpStatus, Statuses
<1>5. CASE err # "ok" /\ op # "CreateOrg"
  BY <1>2, <1>5 DEF HttpStatus, Statuses
<1> QED
  BY <1>3, <1>4, <1>5

-----------------------------------------------------------------------------
(* The requests. *)

\* What the two indexes of the organization store hold
LEMMA OrgListings ==
  ASSUME IndInv
  PROVE  /\ \A o \in OrgIds : \A r \in orgMembers[o] :
               r \in Org!Relation /\ account[r.user] # "absent" /\ r.org \in orgsDrawn
         /\ \A u \in Users : \A r \in userOrgs[u] :
               r \in Org!Relation /\ account[r.user] # "absent" /\ r.org \in orgsDrawn
<1>1. /\ \A o \in OrgIds : \A r \in orgMembers[o] : r.org = o /\ o \in orgsDrawn
      /\ \A u \in Users : \A r \in userOrgs[u] : r.user = u /\ r \in orgMembers[r.org]
  BY StoreAssumptions, OrgP!RelationsDrawn DEF IndInv
<1>2. orgMembers \in [OrgIds -> SUBSET Org!Relation] /\ userOrgs \in [Users -> SUBSET Org!Relation]
  BY DEF IndInv, OrgP!RefInv, OrgP!PathInv, OrgP!TypeOK, OrgP!Relation, Org!Relation
<1>3. \A o \in OrgIds : \A r \in orgMembers[o] :
        r \in Org!Relation /\ account[r.user] # "absent" /\ r.org \in orgsDrawn
  BY <1>1, <1>2 DEF IndInv, MembersKnown
<1>4. \A u \in Users : \A r \in userOrgs[u] : r \in Org!Relation /\ r.org \in OrgIds
  BY <1>2 DEF Org!Relation
<1> QED
  BY <1>1, <1>3, <1>4

LEMMA GroupListings ==
  ASSUME IndInv
  PROVE  /\ \A g \in GroupIds : \A m \in groupMembers[g] :
               m \in Group!GroupMember /\ account[m.user] # "absent" /\ m.group \in groupsDrawn
         /\ \A u \in Users : \A m \in userGroups[u] :
               m \in Group!GroupMember /\ account[m.user] # "absent" /\ m.group \in groupsDrawn
<1>1. /\ \A g \in GroupIds : \A m \in groupMembers[g] : m.group = g /\ g \in groupsDrawn
      /\ \A u \in Users : \A m \in userGroups[u] : m.user = u /\ m \in groupMembers[m.group]
  BY StoreAssumptions, GroupP!RelationsDrawn DEF IndInv
<1>2. /\ groupMembers \in [GroupIds -> SUBSET Group!GroupMember]
      /\ userGroups \in [Users -> SUBSET Group!GroupMember]
  BY DEF IndInv, GroupP!RefInv, GroupP!TypeOK, GroupP!GroupMember, Group!GroupMember
<1>3. \A g \in GroupIds : \A m \in groupMembers[g] :
        m \in Group!GroupMember /\ account[m.user] # "absent" /\ m.group \in groupsDrawn
  BY <1>1, <1>2 DEF IndInv, MembersKnown
<1>4. \A u \in Users : \A m \in userGroups[u] : m \in Group!GroupMember /\ m.group \in GroupIds
  BY <1>2 DEF Group!GroupMember
<1> QED
  BY <1>1, <1>3, <1>4

LEMMA OrgRequests ==
  ASSUME IndInv, Persists, NEW p \in Procs, OrgNext(p)
  PROVE  CallsInv' /\ reply' \in Statuses \ {500}
<1> DEFINE Good == CallsInv' /\ reply' \in Statuses \ {500}
<1>0. ASSUME NEW op, NEW err,
             err = "ok" \/ op = "CreateOrg" \/ <<op, err>> \in NotFound \cup Conflict,
             Answer(p, HttpStatus(op, err))
      PROVE  Good
  BY <1>0, Answered, AnswerStep
<1>1. ASSUME NEW o \in OrgIds, NEW parent \in OrgIds \cup {None}, CreateOrg(p, o, parent)
      PROVE  Good
  BY <1>0, <1>1 DEF CreateOrg, OrgCall
<1>2. ASSUME NEW o \in OrgIds, NEW parent \in OrgIds \cup {None}, UpdateOrg(p, o, parent)
      PROVE  Good
  <2>1. CASE Begin(p, [NoCall EXCEPT !.op = "UpdateOrg", !.on = o])
    <3> DEFINE c == [NoCall EXCEPT !.op = "UpdateOrg", !.on = o]
    <3>1. c \in Frames /\ c.op = "UpdateOrg" /\ c.on = o /\ c.todo = {} /\ c.blank = {}
      BY NewFrames DEF MultiCall
    <3>2. Begin(p, c)
      BY <2>1
    <3> HIDE DEF c
    <3> QED
      BY <3>1, <3>2, BeginOn
  <2>2. CASE orgAnswer' # "ok" /\ Answer(p, HttpStatus("UpdateOrg", orgAnswer'))
    <3>1. orgAnswer' = "org not found"
      BY <1>2, <2>2 DEF UpdateOrg, Org!Update, Org!Fails
    <3>2. <<"UpdateOrg", orgAnswer'>> \in NotFound
      BY <3>1 DEF NotFound
    <3> QED
      BY <1>0, <2>2, <3>2
  <2> QED
    BY <1>2, <2>1, <2>2 DEF UpdateOrg
<1>3. ASSUME NEW o \in OrgIds, DeleteOrg(p, o) PROVE Good
  <2>1. orgAnswer' \in {"ok", "org not found"}
    BY <1>3 DEF DeleteOrg, Org!Delete, Org!Fails
  <2>2. orgAnswer' = "ok" \/ <<"DeleteOrg", orgAnswer'>> \in NotFound
    BY <2>1 DEF NotFound
  <2> QED
    BY <1>0, <1>3, <2>2 DEF DeleteOrg, OrgCall
<1>4. ASSUME NEW o \in OrgIds, GetOrg(p, o) PROVE Good
  <2> DEFINE err == IF Org!Exists(o) THEN "ok" ELSE "org not found"
  <2>1. err = "ok" \/ <<"GetOrg", err>> \in NotFound
    BY DEF NotFound
  <2>2. Answer(p, HttpStatus("GetOrg", err))
    BY <1>4 DEF GetOrg
  <2> QED
    BY <1>0, <2>1, <2>2
<1>5. ASSUME NEW o \in OrgIds, ListOrgMembers(p, o) PROVE Good
  <2>1. CASE Answer(p, HttpStatus("ListOrgMembers", "org not found"))
    BY <1>0, <2>1 DEF NotFound
  <2>2. CASE Begin(p, [NoCall EXCEPT !.op = "ListOrgMembers", !.todo = Org!ListMembers(o)])
    <3> DEFINE c == [NoCall EXCEPT !.op = "ListOrgMembers", !.todo = Org!ListMembers(o)]
    <3>1. /\ Org!ListMembers(o) \in SUBSET Rels
          /\ \A r \in Org!ListMembers(o) : account[r.user] # "absent"
      BY OrgListings DEF Org!ListMembers, Rels
    <3>2. c \in Frames /\ c.op = "ListOrgMembers" /\ c.todo = Org!ListMembers(o) /\ c.blank = {}
      BY <3>1, NewFrames DEF MultiCall
    <3>3. Begin(p, c)
      BY <2>2
    <3> HIDE DEF c
    <3> QED
      BY <3>1, <3>2, <3>3, BeginList DEF Listings
  <2> QED
    BY <1>5, <2>1, <2>2 DEF ListOrgMembers
<1>6. ASSUME NEW o \in OrgIds, NEW u \in Users, RemoveOrgMember(p, o, u) PROVE Good
  <2>1. orgAnswer' \in {"ok", "member not found"}
    BY <1>6 DEF RemoveOrgMember, Org!RemoveMember, Org!Fails
  <2>2. orgAnswer' = "ok" \/ <<"RemoveOrgMember", orgAnswer'>> \in NotFound
    BY <2>1 DEF NotFound
  <2> QED
    BY <1>0, <1>6, <2>2 DEF RemoveOrgMember, OrgCall
<1>7. ASSUME NEW rel \in Org!Relation, AddOrgMember(p, rel) PROVE Good
  <2>1. CASE Answer(p, HttpStatus("AddOrgMember", "user not found"))
    BY <1>0, <2>1 DEF NotFound
  <2>2. CASE /\ account[rel.user] = "live"
             /\ Begin(p, [NoCall EXCEPT !.op = "AddOrgMember", !.on = rel])
    <3> DEFINE c == [NoCall EXCEPT !.op = "AddOrgMember", !.on = rel]
    <3>1. c \in Frames /\ c.op = "AddOrgMember" /\ c.on = rel /\ c.todo = {} /\ c.blank = {}
      BY NewFrames DEF MultiCall, Rels
    <3>2. Begin(p, c) /\ account[rel.user] # "absent"
      BY <2>2
    <3> HIDE DEF c
    <3> QED
      BY <3>1, <3>2, BeginOn
  <2> QED
    BY <1>7, <2>1, <2>2 DEF AddOrgMember
<1>8. ASSUME NEW u \in Users, GetUserOrgs(p, u) PROVE Good
  <2> DEFINE c == [NoCall EXCEPT !.op = "GetUserOrgs", !.todo = Org!GetUserOrgs(u)]
  <2>1. /\ Org!GetUserOrgs(u) \in SUBSET Rels
        /\ \A r \in Org!GetUserOrgs(u) :
              r \in Org!Relation /\ account[r.user] # "absent" /\ r.org \in orgsDrawn
    BY OrgListings DEF Org!GetUserOrgs, Rels
  <2>2. c \in Frames /\ c.op = "GetUserOrgs" /\ c.todo = Org!GetUserOrgs(u) /\ c.blank = {}
    BY <2>1, NewFrames DEF MultiCall
  <2>3. Begin(p, c)
    BY <1>8 DEF GetUserOrgs
  <2> HIDE DEF c
  <2> QED
    BY <2>1, <2>2, <2>3, BeginList DEF Listings
<1>9. ASSUME AddOrgMemberStore(p) PROVE Good
  <2>1. orgAnswer' \in {"ok", "org not found", "member exists"}
    BY <1>9 DEF AddOrgMemberStore, Org!AddMember, Org!Fails
  <2>2. orgAnswer' = "ok" \/ <<"AddOrgMember", orgAnswer'>> \in NotFound \cup Conflict
    BY <2>1 DEF NotFound, Conflict
  <2> QED
    BY <1>0, <1>9, <2>2 DEF AddOrgMemberStore
<1>10. ASSUME UpdateOrgRead(p) PROVE Good
  <2> DEFINE err == IF Org!Exists(call[p].on) THEN "ok" ELSE "org not found"
  <2>1. err = "ok" \/ <<"UpdateOrg", err>> \in NotFound
    BY DEF NotFound
  <2>2. Answer(p, HttpStatus("UpdateOrg", err))
    BY <1>10 DEF UpdateOrgRead
  <2> QED
    BY <1>0, <2>1, <2>2
<1> HIDE DEF Good
<1>11. Good
  BY <1>1, <1>2, <1>3, <1>4, <1>5, <1>6, <1>7, <1>8, <1>9, <1>10 DEF OrgNext
<1> QED
  BY <1>11 DEF Good

LEMMA GroupRequests ==
  ASSUME IndInv, Persists, NEW p \in Procs, GroupNext(p)
  PROVE  CallsInv' /\ reply' \in Statuses \ {500}
<1> DEFINE Good == CallsInv' /\ reply' \in Statuses \ {500}
<1>0. ASSUME NEW op, NEW err,
             err = "ok" \/ <<op, err>> \in NotFound \cup Conflict,
             Answer(p, HttpStatus(op, err))
      PROVE  Good
  BY <1>0, Answered, AnswerStep
<1>1. ASSUME NEW g \in GroupIds, NEW info \in Infos, CreateGroup(p, g, info)
      PROVE  Good
  BY <1>0, <1>1 DEF CreateGroup, GroupCall, Group!Create
<1>2. ASSUME NEW g \in GroupIds, NEW info \in Infos \cup {None}, UpdateGroup(p, g, info)
      PROVE  Good
  <2>1. CASE Begin(p, [NoCall EXCEPT !.op = "UpdateGroup", !.on = g])
    <3> DEFINE c == [NoCall EXCEPT !.op = "UpdateGroup", !.on = g]
    <3>1. c \in Frames /\ c.op = "UpdateGroup" /\ c.on = g /\ c.todo = {} /\ c.blank = {}
      BY NewFrames DEF MultiCall
    <3>2. Begin(p, c)
      BY <2>1
    <3> HIDE DEF c
    <3> QED
      BY <3>1, <3>2, BeginOn
  <2>2. CASE groupAnswer' # "ok" /\ Answer(p, HttpStatus("UpdateGroup", groupAnswer'))
    <3>1. groupAnswer' = "group not found"
      BY <1>2, <2>2 DEF UpdateGroup, Group!Update, Group!Fails
    <3>2. <<"UpdateGroup", groupAnswer'>> \in NotFound
      BY <3>1 DEF NotFound
    <3> QED
      BY <1>0, <2>2, <3>2
  <2> QED
    BY <1>2, <2>1, <2>2 DEF UpdateGroup
<1>3. ASSUME NEW g \in GroupIds, DeleteGroup(p, g) PROVE Good
  <2>1. groupAnswer' \in {"ok", "group not found"}
    BY <1>3 DEF DeleteGroup, Group!Delete, Group!Fails
  <2>2. groupAnswer' = "ok" \/ <<"DeleteGroup", groupAnswer'>> \in NotFound
    BY <2>1 DEF NotFound
  <2> QED
    BY <1>0, <1>3, <2>2 DEF DeleteGroup, GroupCall
<1>4. ASSUME NEW g \in GroupIds, GetGroup(p, g) PROVE Good
  <2> DEFINE err == IF Group!Exists(g) THEN "ok" ELSE "group not found"
  <2>1. err = "ok" \/ <<"GetGroup", err>> \in NotFound
    BY DEF NotFound
  <2>2. Answer(p, HttpStatus("GetGroup", err))
    BY <1>4 DEF GetGroup
  <2> QED
    BY <1>0, <2>1, <2>2
<1>5. ASSUME NEW g \in GroupIds, ListGroupMembers(p, g) PROVE Good
  <2>1. CASE Answer(p, HttpStatus("ListGroupMembers", "group not found"))
    BY <1>0, <2>1 DEF NotFound
  <2>2. CASE Begin(p, [NoCall EXCEPT !.op = "ListGroupMembers", !.todo = Group!ListMembers(g)])
    <3> DEFINE c == [NoCall EXCEPT !.op = "ListGroupMembers", !.todo = Group!ListMembers(g)]
    <3>1. /\ Group!ListMembers(g) \in SUBSET Rels
          /\ \A r \in Group!ListMembers(g) : account[r.user] # "absent"
      BY GroupListings DEF Group!ListMembers, Rels
    <3>2. c \in Frames /\ c.op = "ListGroupMembers" /\ c.todo = Group!ListMembers(g) /\ c.blank = {}
      BY <3>1, NewFrames DEF MultiCall
    <3>3. Begin(p, c)
      BY <2>2
    <3> HIDE DEF c
    <3> QED
      BY <3>1, <3>2, <3>3, BeginList DEF Listings
  <2> QED
    BY <1>5, <2>1, <2>2 DEF ListGroupMembers
<1>6. ASSUME NEW g \in GroupIds, NEW u \in Users, RemoveGroupMember(p, g, u) PROVE Good
  <2>1. groupAnswer' \in {"ok", "member not found"}
    BY <1>6 DEF RemoveGroupMember, Group!RemoveMember, Group!Fails
  <2>2. groupAnswer' = "ok" \/ <<"RemoveGroupMember", groupAnswer'>> \in NotFound
    BY <2>1 DEF NotFound
  <2> QED
    BY <1>0, <1>6, <2>2 DEF RemoveGroupMember, GroupCall
<1>7. ASSUME NEW member \in Group!GroupMember, AddGroupMember(p, member) PROVE Good
  <2>1. CASE Answer(p, HttpStatus("AddGroupMember", "user not found"))
    BY <1>0, <2>1 DEF NotFound
  <2>2. CASE /\ account[member.user] = "live"
             /\ Begin(p, [NoCall EXCEPT !.op = "AddGroupMember", !.on = member])
    <3> DEFINE c == [NoCall EXCEPT !.op = "AddGroupMember", !.on = member]
    <3>1. c \in Frames /\ c.op = "AddGroupMember" /\ c.on = member /\ c.todo = {} /\ c.blank = {}
      BY NewFrames DEF MultiCall, Rels
    <3>2. Begin(p, c) /\ account[member.user] # "absent"
      BY <2>2
    <3> HIDE DEF c
    <3> QED
      BY <3>1, <3>2, BeginOn
  <2> QED
    BY <1>7, <2>1, <2>2 DEF AddGroupMember
<1>8. ASSUME NEW u \in Users, GetUserGroups(p, u) PROVE Good
  <2> DEFINE c == [NoCall EXCEPT !.op = "GetUserGroups", !.todo = Group!GetUserGroups(u)]
  <2>1. /\ Group!GetUserGroups(u) \in SUBSET Rels
        /\ \A r \in Group!GetUserGroups(u) :
              r \in Group!GroupMember /\ account[r.user] # "absent" /\ r.group \in groupsDrawn
    BY GroupListings DEF Group!GetUserGroups, Rels
  <2>2. c \in Frames /\ c.op = "GetUserGroups" /\ c.todo = Group!GetUserGroups(u) /\ c.blank = {}
    BY <2>1, NewFrames DEF MultiCall
  <2>3. Begin(p, c)
    BY <1>8 DEF GetUserGroups
  <2> HIDE DEF c
  <2> QED
    BY <2>1, <2>2, <2>3, BeginList DEF Listings
<1>9. ASSUME AddGroupMemberStore(p) PROVE Good
  <2>1. groupAnswer' \in {"ok", "group not found", "member exists"}
    BY <1>9 DEF AddGroupMemberStore, Group!AddMember, Group!Fails
  <2>2. groupAnswer' = "ok" \/ <<"AddGroupMember", groupAnswer'>> \in NotFound \cup Conflict
    BY <2>1 DEF NotFound, Conflict
  <2> QED
    BY <1>0, <1>9, <2>2 DEF AddGroupMemberStore
<1>10. ASSUME UpdateGroupRead(p) PROVE Good
  <2> DEFINE err == IF Group!Exists(call[p].on) THEN "ok" ELSE "group not found"
  <2>1. err = "ok" \/ <<"UpdateGroup", err>> \in NotFound
    BY DEF NotFound
  <2>2. Answer(p, HttpStatus("UpdateGroup", err))
    BY <1>10 DEF UpdateGroupRead
  <2> QED
    BY <1>0, <2>1, <2>2
<1> HIDE DEF Good
<1>11. Good
  BY <1>1, <1>2, <1>3, <1>4, <1>5, <1>6, <1>7, <1>8, <1>9, <1>10 DEF GroupNext
<1> QED
  BY <1>11 DEF Good

\* One look-up of a join, and its answer
LEMMA LookUps ==
  ASSUME IndInv, Persists, NEW p \in Procs,
         Listed(p) \/ \E r \in call[p].todo : LookUp(p, r)
  PROVE  CallsInv' /\ reply' \in Statuses \ {500}
<1>1. CASE Listed(p)
  <2>1. PICK op \in Listings : Answer(p, HttpStatus(op, "ok"))
    BY <1>1 DEF Listed, Listings
  <2>2. HttpStatus(op, "ok") \in Statuses \ {500}
    BY Answered
  <2> QED
    BY <2>1, <2>2, AnswerStep
<1>2. ASSUME NEW r \in call[p].todo, LookUp(p, r)
      PROVE  CallsInv' /\ reply' \in Statuses \ {500}
  <2> DEFINE b == IF Found(call[p].op, r) THEN call[p].blank ELSE call[p].blank \cup {r}
             c == [call[p] EXCEPT !.todo = call[p].todo \ {r}, !.blank = b]
  <2>1. call[p] \in Frames /\ CallInv(p) /\ r \in Rels
    BY DEF IndInv, Frames
  <2>2. b \in SUBSET Rels
    BY <2>1 DEF Frames
  <2>3. Begin(p, c)
    BY <1>2 DEF LookUp
  <2> HIDE DEF b
  <2>4. /\ c \in Frames /\ c.op = call[p].op
        /\ c.todo = call[p].todo \ {r} /\ c.blank = b
    BY <2>1, <2>2 DEF Frames
  <2> HIDE DEF c
  <2>5. b \subseteq call[p].blank \cup {r}
    BY DEF b
  <2>6. c.todo \cap c.blank = {} /\ c.todo \cup c.blank \subseteq call[p].todo \cup call[p].blank
    BY <2>1, <2>4, <2>5 DEF CallInv
  <2>7. c.op = "GetUserOrgs" => \A x \in c.blank : ~Org!Exists(x.org)
    BY <2>1, <2>4 DEF CallInv, b, Found
  <2>8. c.op = "GetUserGroups" => \A x \in c.blank : ~Group!Exists(x.group)
    BY <2>1, <2>4 DEF CallInv, b, Found
  <2>9. c.op \in Listings
    BY <2>1, <2>4 DEF CallInv
  <2> QED
    BY <2>1, <2>3, <2>4, <2>6, <2>7, <2>8, <2>9, BeginList DEF CallInv
<1> QED
  BY <1>1, <1>2

-----------------------------------------------------------------------------
(* Members.  The only step that adds one is AddOrgMemberStore (or           *)
(* AddGroupMemberStore), of a user whom the same request found earlier.     *)

LEMMA OrgMembersFrom ==
  ASSUME IndInv, [Next]_vars, NEW o \in OrgIds, NEW r \in orgMembers'[o]
  PROVE  r \in orgMembers[o] \/ \E p \in Procs : call[p].op = "AddOrgMember" /\ r = call[p].on
<1> DEFINE Goal == r \in orgMembers[o]
                     \/ \E p \in Procs : call[p].op = "AddOrgMember" /\ r = call[p].on
<1>0. orgMembers \in [OrgIds -> SUBSET Org!Relation]
  BY DEF IndInv, OrgP!RefInv, OrgP!PathInv, OrgP!TypeOK, OrgP!Relation, Org!Relation
<1>1. ASSUME orgMembers' = orgMembers PROVE Goal
  BY <1>1
<1>2. ASSUME NEW p \in Procs, OrgNext(p) PROVE Goal
  <2>1. ASSUME NEW q \in OrgIds, DeleteOrg(p, q) PROVE Goal
    BY <1>0, <2>1 DEF DeleteOrg, Org!Delete, Org!Fails
  <2>2. ASSUME NEW q \in OrgIds, NEW u \in Users, RemoveOrgMember(p, q, u) PROVE Goal
    BY <1>0, <2>2 DEF RemoveOrgMember, Org!RemoveMember, Org!Fails
  <2>3. ASSUME AddOrgMemberStore(p) PROVE Goal
    <3> DEFINE rel == call[p].on
    <3>1. rel \in Org!Relation /\ rel.org \in OrgIds
      BY <2>3 DEF AddOrgMemberStore, IndInv, CallInv, Org!Relation
    <3>2. \/ orgMembers' = orgMembers
          \/ orgMembers' = [orgMembers EXCEPT ![rel.org] = @ \cup {rel}]
      BY <2>3 DEF AddOrgMemberStore, Org!AddMember, Org!Fails
    <3> HIDE DEF rel
    <3>3. r \in orgMembers[o] \/ r = rel
      BY <1>0, <3>1, <3>2
    <3> QED
      BY <2>3, <3>3 DEF AddOrgMemberStore, rel
  <2>4. ASSUME NEW q \in OrgIds, NEW parent \in OrgIds \cup {None},
               CreateOrg(p, q, parent) \/ UpdateOrg(p, q, parent)
        PROVE  orgMembers' = orgMembers
    BY <2>4 DEF CreateOrg, UpdateOrg, Org!Create, Org!Update, Org!Fails
  <2>5. CASE UNCHANGED orgStore
    BY <1>1, <2>5 DEF orgStore
  <2> HIDE DEF Goal
  <2> QED
    BY <1>1, <1>2, <2>1, <2>2, <2>3, <2>4, <2>5
       DEF OrgNext, GetOrg, ListOrgMembers, AddOrgMember, GetUserOrgs, UpdateOrgRead
<1>3. ASSUME NEW p \in Procs, GroupNext(p) PROVE UNCHANGED orgStore
  BY <1>3 DEF GroupNext, CreateGroup, UpdateGroup, DeleteGroup, GetGroup, ListGroupMembers,
              RemoveGroupMember, AddGroupMember, GetUserGroups, AddGroupMemberStore,
              UpdateGroupRead, GroupCall
<1>4. ASSUME NEW p \in Procs, Listed(p) \/ \E x \in call[p].todo : LookUp(p, x)
      PROVE  UNCHANGED orgStore
  BY <1>4 DEF Listed, LookUp
<1>5. ASSUME UserNext \/ UNCHANGED vars PROVE Goal
  BY <1>1, <1>5 DEF UserNext, CreateUser, DeleteUser, Revive, vars, orgStore
<1> HIDE DEF Goal
<1>6. Goal
  BY <1>1, <1>2, <1>3, <1>4, <1>5 DEF Next, orgStore
<1> QED
  BY <1>6 DEF Goal

LEMMA GroupMembersFrom ==
  ASSUME IndInv, [Next]_vars, NEW g \in GroupIds, NEW m \in groupMembers'[g]
  PROVE  m \in groupMembers[g] \/ \E p \in Procs : call[p].op = "AddGroupMember" /\ m = call[p].on
<1> DEFINE Goal == m \in groupMembers[g]
                     \/ \E p \in Procs : call[p].op = "AddGroupMember" /\ m = call[p].on
<1>0. groupMembers \in [GroupIds -> SUBSET Group!GroupMember]
  BY DEF IndInv, GroupP!RefInv, GroupP!TypeOK, GroupP!GroupMember, Group!GroupMember
<1>1. ASSUME groupMembers' = groupMembers PROVE Goal
  BY <1>1
<1>2. ASSUME NEW p \in Procs, GroupNext(p) PROVE Goal
  <2>1. ASSUME NEW q \in GroupIds, DeleteGroup(p, q) PROVE Goal
    BY <1>0, <2>1 DEF DeleteGroup, Group!Delete, Group!Fails
  <2>2. ASSUME NEW q \in GroupIds, NEW u \in Users, RemoveGroupMember(p, q, u) PROVE Goal
    BY <1>0, <2>2 DEF RemoveGroupMember, Group!RemoveMember, Group!Fails
  <2>3. ASSUME AddGroupMemberStore(p) PROVE Goal
    <3> DEFINE member == call[p].on
    <3>1. member \in Group!GroupMember /\ member.group \in GroupIds
      BY <2>3 DEF AddGroupMemberStore, IndInv, CallInv, Group!GroupMember
    <3>2. \/ groupMembers' = groupMembers
          \/ groupMembers' = [groupMembers EXCEPT ![member.group] = @ \cup {member}]
      BY <2>3 DEF AddGroupMemberStore, Group!AddMember, Group!Fails
    <3> HIDE DEF member
    <3>3. m \in groupMembers[g] \/ m = member
      BY <1>0, <3>1, <3>2
    <3> QED
      BY <2>3, <3>3 DEF AddGroupMemberStore, member
  <2>4. ASSUME NEW q \in GroupIds, NEW info \in Infos \cup {None},
               CreateGroup(p, q, info) \/ UpdateGroup(p, q, info)
        PROVE  groupMembers' = groupMembers
    BY <2>4 DEF CreateGroup, UpdateGroup, Group!Create, Group!Update, Group!Fails
  <2>5. CASE UNCHANGED groupStore
    BY <1>1, <2>5 DEF groupStore
  <2> HIDE DEF Goal
  <2> QED
    BY <1>1, <1>2, <2>1, <2>2, <2>3, <2>4, <2>5
       DEF GroupNext, GetGroup, ListGroupMembers, AddGroupMember, GetUserGroups,
           UpdateGroupRead
<1>3. ASSUME NEW p \in Procs, OrgNext(p) PROVE UNCHANGED groupStore
  BY <1>3 DEF OrgNext, CreateOrg, UpdateOrg, DeleteOrg, GetOrg, ListOrgMembers,
              RemoveOrgMember, AddOrgMember, GetUserOrgs, AddOrgMemberStore, UpdateOrgRead,
              OrgCall
<1>4. ASSUME NEW p \in Procs, Listed(p) \/ \E x \in call[p].todo : LookUp(p, x)
      PROVE  UNCHANGED groupStore
  BY <1>4 DEF Listed, LookUp
<1>5. ASSUME UserNext \/ UNCHANGED vars PROVE Goal
  BY <1>1, <1>5 DEF UserNext, CreateUser, DeleteUser, Revive, vars, groupStore
<1> HIDE DEF Goal
<1>6. Goal
  BY <1>1, <1>2, <1>3, <1>4, <1>5 DEF Next, groupStore
<1> QED
  BY <1>6 DEF Goal

LEMMA MembersStep ==
  ASSUME IndInv, [Next]_vars
  PROVE  MembersKnown'
<1>1. ASSUME NEW r \in Rels, account[r.user] # "absent" PROVE account'[r.user] # "absent"
  BY <1>1, StepPersists, RelsNameUsers DEF Persists
<1>2. \A p \in Procs : call[p].op \in {"AddOrgMember", "AddGroupMember"} =>
         call[p].on \in Rels /\ account[call[p].on.user] # "absent"
  BY DEF IndInv, CallInv, Rels
<1>3. ASSUME NEW o \in OrgIds, NEW r \in orgMembers'[o] PROVE account'[r.user] # "absent"
  <2>1. r \in Rels /\ account[r.user] # "absent"
    BY <1>2, OrgMembersFrom, OrgListings DEF Rels
  <2> QED
    BY <1>1, <2>1
<1>4. ASSUME NEW g \in GroupIds, NEW m \in groupMembers'[g] PROVE account'[m.user] # "absent"
  <2>1. m \in Rels /\ account[m.user] # "absent"
    BY <1>2, GroupMembersFrom, GroupListings DEF Rels
  <2> QED
    BY <1>1, <2>1
<1> QED
  BY <1>3, <1>4 DEF MembersKnown

-----------------------------------------------------------------------------

LEMMA InitIndInv == Init => IndInv
<1> SUFFICES ASSUME Init PROVE IndInv
  OBVIOUS
<1>1. OrgP!RefInv
  <2>1. OrgP!Init
    BY OrgSame DEF Init
  <2> QED
    BY <2>1, StoreAssumptions, OrgP!PathInit, OrgP!MirrorInit DEF OrgP!RefInv
<1>2. GroupP!RefInv
  <2>1. GroupP!Init
    BY GroupSame DEF Init
  <2> QED
    BY <2>1, StoreAssumptions, GroupP!TypeInit, GroupP!MirrorInit DEF GroupP!RefInv
<1>3. call \in [Procs -> Frames]
  BY DEF Init, NoCall, Frames
<1>4. ASSUME NEW p \in Procs PROVE CallInv(p)
  <2>1. call[p] = NoCall
    BY DEF Init
  <2> QED
    BY <2>1, DirectoryAssumption DEF CallInv, NoCall, MultiCall, Listings
<1>5. MembersKnown
  BY DEF Init, MembersKnown, Org!Init, Group!Init
<1> QED
  BY <1>1, <1>2, <1>3, <1>4, <1>5 DEF IndInv, Init, Statuses

LEMMA StepIndInv == IndInv /\ [Next]_vars => IndInv'
<1> SUFFICES ASSUME IndInv, [Next]_vars PROVE IndInv'
  OBVIOUS
<1>1. account' \in [Users -> {"absent", "live", "deleted"}]
  <2>1. UNCHANGED account \/ UserNext
    BY DEF Next, vars, OrgNext, CreateOrg, UpdateOrg, DeleteOrg, GetOrg, ListOrgMembers,
           RemoveOrgMember, AddOrgMember, GetUserOrgs, AddOrgMemberStore, UpdateOrgRead,
           OrgCall, GroupNext, CreateGroup, UpdateGroup, DeleteGroup, GetGroup,
           ListGroupMembers, RemoveGroupMember, AddGroupMember, GetUserGroups,
           AddGroupMemberStore, UpdateGroupRead, GroupCall, Listed, LookUp
  <2> QED
    BY <2>1 DEF UserNext, CreateUser, DeleteUser, Revive, IndInv
<1>2. CallsInv' /\ reply' \in Statuses \ {500}
  <2>1. CASE UNCHANGED <<call, reply>>
    BY <2>1, StepPersists, CallsKept DEF IndInv
  <2>2. CASE UserNext \/ UNCHANGED vars
    BY <2>1, <2>2 DEF UserNext, CreateUser, DeleteUser, Revive, vars
  <2>3. CASE \E p \in Procs : \/ OrgNext(p) \/ GroupNext(p) \/ Listed(p)
                              \/ \E r \in call[p].todo : LookUp(p, r)
    BY <2>3, StepPersists, OrgRequests, GroupRequests, LookUps
  <2> QED
    BY <2>2, <2>3 DEF Next
<1> QED
  BY <1>1, <1>2, StoresStep, MembersStep DEF IndInv, CallsInv

LEMMA Invariance == Spec => []IndInv
PROOF BY InitIndInv, StepIndInv, PTL DEF Spec

-----------------------------------------------------------------------------
(* The theorems. *)

\* The three stores, the requests under way and the last answer are well formed,
\* whatever requests run and however their store calls interleave.
THEOREM TypeCorrect == Spec => []TypeOK
<1>1. IndInv => TypeOK
  <2> SUFFICES ASSUME IndInv PROVE TypeOK
    OBVIOUS
  <2>1. Org!TypeOK /\ Group!TypeOK
    BY OrgSame, GroupSame DEF IndInv, OrgP!RefInv, OrgP!PathInv, GroupP!RefInv
  <2>2. ASSUME NEW p \in Procs
        PROVE  /\ call[p].op \in MultiCall \cup {None}
               /\ call[p].todo \cap call[p].blank = {}
               /\ call[p].todo \cup call[p].blank \subseteq Org!Relation \cup Group!GroupMember
    BY DEF IndInv, CallInv, Frames, Rels
  <2> QED
    BY <2>1, <2>2 DEF IndInv, TypeOK
<1> QED
  BY <1>1, Invariance, PTL

\* Every relation that a store keeps, that a request is about to add or that a listing
\* holds names a user and an organization or group that were created, although the user
\* is looked up in one store and the relation added in another one later.
THEOREM Known == Spec => []RelationsKnown
<1>1. IndInv => RelationsKnown
  <2> SUFFICES ASSUME IndInv PROVE RelationsKnown
    OBVIOUS
  <2>1. ASSUME NEW p \in Procs
        PROVE  /\ call[p].op \in {"AddOrgMember", "AddGroupMember"} =>
                     account[call[p].on.user] # "absent"
               /\ \A r \in call[p].todo \cup call[p].blank : account[r.user] # "absent"
    BY DEF IndInv, CallInv
  <2> QED
    BY <2>1, OrgListings, GroupListings DEF RelationsKnown
<1> QED
  BY <1>1, Invariance, PTL

\* A deleted organization or group stays without members: an addition that passed its
\* user check before the deletion does not bring one back.
THEOREM Empty == Spec => []DeletedStaysEmpty
<1>1. IndInv => DeletedStaysEmpty
  <2> SUFFICES ASSUME IndInv PROVE DeletedStaysEmpty
    OBVIOUS
  <2>1. orgsDrawn \subseteq OrgIds /\ groupsDrawn \subseteq GroupIds
    BY DEF IndInv, OrgP!RefInv, OrgP!PathInv, OrgP!TypeOK, GroupP!RefInv, GroupP!TypeOK
  <2>2. \A o \in OrgIds : ~Org!Exists(o) => orgMembers[o] = {}
    BY DEF IndInv, OrgP!RefInv, OrgP!IndexesMirror, OrgP!ListMembers, OrgP!Exists, Org!Exists
  <2>3. \A u \in Users : \A r \in userOrgs[u] : r \in orgMembers[r.org]
    BY StoreAssumptions, OrgP!RelationsDrawn DEF IndInv
  <2>4. \A g \in GroupIds : ~Group!Exists(g) => groupMembers[g] = {}
    BY DEF IndInv, GroupP!RefInv, GroupP!IndexesMirror, GroupP!ListMembers, GroupP!Exists,
           Group!Exists
  <2>5. \A u \in Users : \A m \in userGroups[u] : m \in groupMembers[m.group]
    BY StoreAssumptions, GroupP!RelationsDrawn DEF IndInv
  <2> QED
    BY <2>1, <2>2, <2>3, <2>4, <2>5 DEF DeletedStaysEmpty
<1> QED
  BY <1>1, Invariance, PTL

\* A blank entry in the answer of GetUserOrgs or GetUserGroups names an organization or
\* group that was deleted while the listing was put together, and stays true until the
\* answer is sent.
THEOREM Blank == Spec => []BlankIsDeleted
<1>1. IndInv => BlankIsDeleted
  BY DEF IndInv, CallInv, BlankIsDeleted
<1> QED
  BY <1>1, Invariance, PTL

\* No interleaving makes a directory request other than the listings ListOrgs and
\* ListGroups (see Paging) answer 500: every error that one of its store calls can return
\* has a case in its handler.
THEOREM NoError == Spec => []NoInternalError
<1>1. IndInv => NoInternalError
  BY DEF IndInv, NoInternalError
<1> QED
  BY <1>1, Invariance, PTL

-----------------------------------------------------------------------------
(* Composition: behind the service each store still keeps its promise. *)

\* What the stores show of themselves is the same in Directory and in the modules that
\* prove about them, and so are the steps of Membership.
LEMMA OrgView ==
  /\ Org!Live = OrgP!Live /\ Org!Joined = OrgP!Joined
  /\ OrgP!Abstract!Init => Org!Abstract!Init
  /\ [OrgP!Abstract!Next]_<<OrgP!Live, OrgP!Joined>> =>
        [Org!Abstract!Next]_<<Org!Live, Org!Joined>>
<1>1. /\ Org!Live = OrgP!Live /\ Org!Joined = OrgP!Joined
      /\ Org!Live' = OrgP!Live' /\ Org!Joined' = OrgP!Joined'
  BY DEF Org!Live, OrgP!Live, Org!Joined, OrgP!Joined, Org!Exists, OrgP!Exists
<1>2. OrgP!Abstract!Init => Org!Abstract!Init
  BY <1>1 DEF OrgP!Abstract!Init, Org!Abstract!Init
<1>3. OrgP!Abstract!Next => Org!Abstract!Next
  BY <1>1 DEF OrgP!Abstract!Next, Org!Abstract!Next, OrgP!Abstract!Open, Org!Abstract!Open,
              OrgP!Abstract!Close, Org!Abstract!Close, OrgP!Abstract!Join,
              Org!Abstract!Join, OrgP!Abstract!Leave, Org!Abstract!Leave
<1> QED
  BY <1>1, <1>2, <1>3

\* Whatever requests the service interleaves, the organization store implements
\* Membership: the user check of AddOrgMember, made before the store call, and the
\* read-back of UpdateOrg, made after it, leave the store's promise whole.
THEOREM OrgMembership == Spec => Org!ImplementsMembership
<1>1. Init => Org!Abstract!Init
  BY OrgSame, OrgView, StoreAssumptions, OrgP!InitRefines DEF Init
<1>2. IndInv /\ [Next]_vars => [Org!Abstract!Next]_<<Org!Live, Org!Joined>>
  <2> SUFFICES ASSUME IndInv, [Next]_vars
               PROVE  [Org!Abstract!Next]_<<Org!Live, Org!Joined>>
    OBVIOUS
  <2>1. OrgP!RefInv /\ [OrgP!Next]_(OrgP!vars)
    BY OrgSteps DEF IndInv
  <2>2. [OrgP!Abstract!Next]_<<OrgP!Live, OrgP!Joined>>
    BY <2>1, StoreAssumptions, OrgP!NextRefines
  <2> QED
    BY <2>2, OrgView
<1> QED
  BY <1>1, <1>2, Invariance, PTL
     DEF Spec, Org!ImplementsMembership, Org!Abstract!Spec, Org!Abstract!vars

LEMMA GroupView ==
  /\ Group!Live = GroupP!Live /\ Group!Joined = GroupP!Joined
  /\ GroupP!Abstract!Init => Group!Abstract!Init
  /\ [GroupP!Abstract!Next]_<<GroupP!Live, GroupP!Joined>> =>
        [Group!Abstract!Next]_<<Group!Live, Group!Joined>>
<1>1. /\ Group!Live = GroupP!Live /\ Group!Joined = GroupP!Joined
      /\ Group!Live' = GroupP!Live' /\ Group!Joined' = GroupP!Joined'
  BY DEF Group!Live, GroupP!Live, Group!Joined, GroupP!Joined, Group!Exists, GroupP!Exists
<1>2. GroupP!Abstract!Init => Group!Abstract!Init
  BY <1>1 DEF GroupP!Abstract!Init, Group!Abstract!Init
<1>3. GroupP!Abstract!Next => Group!Abstract!Next
  BY <1>1 DEF GroupP!Abstract!Next, Group!Abstract!Next, GroupP!Abstract!Open,
              Group!Abstract!Open, GroupP!Abstract!Close, Group!Abstract!Close,
              GroupP!Abstract!Join, Group!Abstract!Join, GroupP!Abstract!Leave,
              Group!Abstract!Leave
<1> QED
  BY <1>1, <1>2, <1>3

\* The same of the group store, with AddGroupMember and UpdateGroup.
THEOREM GroupMembership == Spec => Group!ImplementsMembership
<1>1. Init => Group!Abstract!Init
  BY GroupSame, GroupView, StoreAssumptions, GroupP!InitRefines DEF Init
<1>2. IndInv /\ [Next]_vars => [Group!Abstract!Next]_<<Group!Live, Group!Joined>>
  <2> SUFFICES ASSUME IndInv, [Next]_vars
               PROVE  [Group!Abstract!Next]_<<Group!Live, Group!Joined>>
    OBVIOUS
  <2>1. GroupP!RefInv /\ [GroupP!Next]_(GroupP!vars)
    BY GroupSteps DEF IndInv
  <2>2. [GroupP!Abstract!Next]_<<GroupP!Live, GroupP!Joined>>
    BY <2>1, StoreAssumptions, GroupP!NextRefines
  <2> QED
    BY <2>2, GroupView
<1> QED
  BY <1>1, <1>2, Invariance, PTL
     DEF Spec, Group!ImplementsMembership, Group!Abstract!Spec, Group!Abstract!vars

\* So do the invariants of the stores, whichever requests interleave: the two indexes of
\* each agree, and the stored paths of organizations fit together.
THEOREM StoresWhole == Spec => [](Org!PathsChain /\ Org!IndexesMirror /\ Group!IndexesMirror)
<1>1. IndInv => Org!PathsChain /\ Org!IndexesMirror /\ Group!IndexesMirror
  <2> SUFFICES ASSUME IndInv
               PROVE  Org!PathsChain /\ Org!IndexesMirror /\ Group!IndexesMirror
    OBVIOUS
  <2>1. OrgP!PathsChain /\ OrgP!IndexesMirror /\ GroupP!IndexesMirror
    BY DEF IndInv, OrgP!RefInv, OrgP!PathInv, GroupP!RefInv
  <2>2. Org!PathsChain
    BY <2>1 DEF Org!PathsChain, OrgP!PathsChain, Org!Exists, OrgP!Exists
  <2>3. Org!IndexesMirror
    BY <2>1 DEF Org!IndexesMirror, OrgP!IndexesMirror, Org!Exists, OrgP!Exists,
                Org!ListMembers, OrgP!ListMembers, Org!GetUserOrgs, OrgP!GetUserOrgs
  <2>4. Group!IndexesMirror
    BY <2>1 DEF Group!IndexesMirror, GroupP!IndexesMirror, Group!Exists, GroupP!Exists,
                Group!ListMembers, GroupP!ListMembers, Group!GetUserGroups,
                GroupP!GetUserGroups
  <2> QED
    BY <2>2, <2>3, <2>4
<1> QED
  BY <1>1, Invariance, PTL
=============================================================================
