----------------------------- MODULE UserStore ------------------------------
(***************************************************************************)
(* The in-memory user store (internal/user/memory_store.go) and the user   *)
(* service above it (internal/service/user.go), as the goroutines of the   *)
(* HTTP, UDS and UDP front ends run them.                                   *)
(*                                                                         *)
(* MemoryStore keeps three sync.Maps and takes no lock: every Load, Store, *)
(* Delete and LoadOrStore is atomic, and nothing is between them.  So the   *)
(* grain of this module is one action per sync.Map call; what a goroutine  *)
(* has read so far lives in its frame call[p].                              *)
(*                                                                         *)
(* A request's display name, its password and all timestamps carry no      *)
(* control and are left out (a wrong password is a choice of FindUser).    *)
(* A status other than the three constants of model.UserStatus behaves as  *)
(* "disabled" does and is left out too.                                     *)
(***************************************************************************)
CONSTANTS
    Procs,        \* request goroutines
    Ids,          \* the uuids that uuid.New() can still draw: bounds the accounts
    Usernames,
    Emails,
    None,         \* an absent map entry, a nil error, or an empty request field
    AdminId, AdminName, AdminEmail,  \* the account bootstrapAdmin creates
    Ops,          \* the requests the clients issue, and the statuses that
    StatusInputs, \* their updates ask for: these two select a workload
    Overlap       \* do clients send a writing request about a user while another
                  \* one about it is under way?  The code serialises nothing, so
                  \* FALSE is an assumption on the clients.

Statuses == {"active", "disabled", "deleted"}

User == [username : Usernames, email : Emails, status : Statuses, online : BOOLEAN]

AllOps == {"CreateUser", "GetUser", "UpdateUser", "DeleteUser", "SetOnline",
           "Login", "Auth"}

Labels == {"idle", "reserveName", "reserveEmail", "undoName", "storeNew",
           "findName", "findUser", "load", "claimEmail", "dropEmail",
           "storeUpdate", "read", "loadDelete", "storeDelete"}

Replies == {"ok", "already exists", "not found", "invalid credentials", "disabled"}

ASSUME AdminAssumption ==
    AdminId \in Ids /\ AdminName \in Usernames /\ AdminEmail \in Emails

ASSUME NoneAssumption ==
    /\ None \notin Ids
    /\ None \notin Usernames
    /\ None \notin Emails
    /\ None \notin Statuses
    /\ None \notin AllOps
    /\ None \notin User
    /\ None \notin Procs \X Replies

ASSUME WorkloadAssumption ==
    /\ Ops \subseteq AllOps
    /\ StatusInputs \subseteq Statuses \cup {None}
    /\ Overlap \in BOOLEAN

VARIABLES
    users,        \* id -> record, the sync.Map of clones
    byUsername,   \* username -> id
    byEmail,      \* email -> id
    issued,       \* uuids drawn by CreateUser so far
    pc,           \* the next sync.Map call of each goroutine
    call,         \* its arguments, and the record it has loaded
    reply         \* the answer the last step sent, if it sent one

store == <<users, byUsername, byEmail>>
vars == <<users, byUsername, byEmail, issued, pc, call, reply>>

Call == [op : AllOps \cup {None}, id : Ids \cup {None},
         username : Usernames \cup {None}, email : Emails \cup {None},
         status : Statuses \cup {None}, online : BOOLEAN,
         seen : User \cup {None}]

NoCall == [op |-> None, id |-> None, username |-> None, email |-> None,
           status |-> None, online |-> FALSE, seen |-> None]

TypeOK ==
    /\ users \in [Ids -> User \cup {None}]
    /\ byUsername \in [Usernames -> Ids \cup {None}]
    /\ byEmail \in [Emails -> Ids \cup {None}]
    /\ issued \subseteq Ids
    /\ pc \in [Procs -> Labels]
    /\ call \in [Procs -> Call]
    /\ reply \in (Procs \X Replies) \cup {None}

-----------------------------------------------------------------------------

NewUser(n, e) == [username |-> n, email |-> e, status |-> "active", online |-> FALSE]

\* The servers start after bootstrapAdmin has returned.
Init ==
    /\ users = [i \in Ids |-> IF i = AdminId THEN NewUser(AdminName, AdminEmail) ELSE None]
    /\ byUsername = [n \in Usernames |-> IF n = AdminName THEN AdminId ELSE None]
    /\ byEmail = [e \in Emails |-> IF e = AdminEmail THEN AdminId ELSE None]
    /\ issued = {AdminId}
    /\ pc = [p \in Procs |-> "idle"]
    /\ call = [p \in Procs |-> NoCall]
    /\ reply = None

\* A goroutine's request starts at label l with frame c.
Start(p, c, l) ==
    /\ pc[p] = "idle"
    /\ c.op \in Ops
    /\ pc' = [pc EXCEPT ![p] = l]
    /\ call' = [call EXCEPT ![p] = c]
    /\ reply' = None
    /\ UNCHANGED store

\* A goroutine goes on to label l with frame c.
GotoWith(p, l, c) ==
    /\ pc' = [pc EXCEPT ![p] = l]
    /\ call' = [call EXCEPT ![p] = c]
    /\ reply' = None
    /\ UNCHANGED issued

Goto(p, l) == GotoWith(p, l, call[p])

\* A goroutine answers r and is free for the next request.
Finish(p, r) ==
    /\ pc' = [pc EXCEPT ![p] = "idle"]
    /\ call' = [call EXCEPT ![p] = NoCall]
    /\ reply' = <<p, r>>
    /\ UNCHANGED issued

\* Requests that write nothing; any number of them runs at any time.
ReadOps == {"GetUser", "Auth"}

\* The users that the request of goroutine p is about, a login's also before it has
\* looked its name up.
Targets(p) ==
    {i \in Ids : \/ call[p].id = i
                 \/ call[p].op = "Login" /\ byUsername[call[p].username] = i}

MayWrite(i) ==
    Overlap \/ \A q \in Procs : call[q].op \notin ReadOps => i \notin Targets(q)

\* A login is about the account of its username, also when there is none yet.
MayLogin(n) ==
    /\ MayWrite(byUsername[n])
    /\ Overlap \/ \A q \in Procs : call[q].op = "Login" => call[q].username # n

\* Mutant of Found: the deleted status is not looked at.
FoundAny(r) == r # None

\* GetByID's and Update's test of a loaded value: present and not deleted.
Found(r) == r # None /\ r.status # "deleted"

-----------------------------------------------------------------------------
(* CreateUser: service.CreateUser, then MemoryStore.Create. *)

\* A fresh uuid is not one that a writing request under way names (MayWrite).
CreateUser(p, n, e, i) ==
    /\ i \notin issued /\ MayWrite(i)
    /\ issued' = issued \cup {i}
    /\ Start(p, [NoCall EXCEPT !.op = "CreateUser", !.id = i, !.username = n,
                               !.email = e], "reserveName")

\* Mutant of ReserveName: Store instead of LoadOrStore.
ReserveNameBlindly(p) ==
    /\ pc[p] = "reserveName"
    /\ byUsername' = [byUsername EXCEPT ![call[p].username] = call[p].id]
    /\ Goto(p, "reserveEmail")
    /\ UNCHANGED <<users, byEmail>>

\* byUsername.LoadOrStore
ReserveName(p) ==
    /\ pc[p] = "reserveName"
    /\ UNCHANGED <<users, byEmail>>
    /\ \/ /\ byUsername[call[p].username] # None
          /\ Finish(p, "already exists")
          /\ UNCHANGED byUsername
       \/ /\ byUsername[call[p].username] = None
          /\ byUsername' = [byUsername EXCEPT ![call[p].username] = call[p].id]
          /\ Goto(p, "reserveEmail")

\* byEmail.LoadOrStore
ReserveEmail(p) ==
    /\ pc[p] = "reserveEmail"
    /\ UNCHANGED <<users, byUsername>>
    /\ \/ /\ byEmail[call[p].email] # None
          /\ Goto(p, "undoName")
          /\ UNCHANGED byEmail
       \/ /\ byEmail[call[p].email] = None
          /\ byEmail' = [byEmail EXCEPT ![call[p].email] = call[p].id]
          /\ Goto(p, "storeNew")

\* Mutant of UndoName: the reservation is not given back.
UndoNameForgotten(p) ==
    /\ pc[p] = "undoName"
    /\ Finish(p, "already exists")
    /\ UNCHANGED store

\* byUsername.Delete after an email conflict
UndoName(p) ==
    /\ pc[p] = "undoName"
    /\ byUsername' = [byUsername EXCEPT ![call[p].username] = None]
    /\ Finish(p, "already exists")
    /\ UNCHANGED <<users, byEmail>>

\* users.Store
StoreNew(p) ==
    /\ pc[p] = "storeNew"
    /\ users' = [users EXCEPT ![call[p].id] = NewUser(call[p].username, call[p].email)]
    /\ Finish(p, "ok")
    /\ UNCHANGED <<byUsername, byEmail>>

-----------------------------------------------------------------------------
(* MemoryStore.Update, which UpdateUser, SetOnline, Logout, Login and the   *)
(* UDP server's processPacket all go through.                               *)

\* service.UpdateUser: IsOnline is not part of the request and is left FALSE.
UpdateUser(p, i, e, s) ==
    /\ MayWrite(i)
    /\ Start(p, [NoCall EXCEPT !.op = "UpdateUser", !.id = i, !.email = e,
                               !.status = s], "load")
    /\ UNCHANGED issued

\* service.SetOnline (o = TRUE) and service.Logout (o = FALSE)
SetOnline(p, i, o) ==
    /\ MayWrite(i)
    /\ Start(p, [NoCall EXCEPT !.op = "SetOnline", !.id = i, !.online = o], "load")
    /\ UNCHANGED issued

\* What the caller of Update answers when Update returns error r.
UpdateFails(p, r) ==
    Finish(p, IF call[p].op = "Login" THEN "ok" ELSE r)

\* Does this Update change the email of the record it has loaded?
ChangesEmail(c, r) == c.email # None /\ c.email # r.email

\* users.Load
Load(p) ==
    /\ pc[p] = "load"
    /\ UNCHANGED store
    /\ LET r == users[call[p].id] IN
       \/ ~Found(r) /\ UpdateFails(p, "not found")
       \/ /\ Found(r)
          /\ GotoWith(p, IF ChangesEmail(call[p], r) THEN "claimEmail" ELSE "storeUpdate",
                      [call[p] EXCEPT !.seen = r])

\* byEmail.LoadOrStore of the new email
ClaimEmail(p) ==
    /\ pc[p] = "claimEmail"
    /\ UNCHANGED <<users, byUsername>>
    /\ \/ /\ byEmail[call[p].email] # None
          /\ UpdateFails(p, "already exists")
          /\ UNCHANGED byEmail
       \/ /\ byEmail[call[p].email] = None
          /\ byEmail' = [byEmail EXCEPT ![call[p].email] = call[p].id]
          /\ Goto(p, "dropEmail")

\* Mutant of DropEmail: the old email stays in the index.
DropEmailForgotten(p) ==
    /\ pc[p] = "dropEmail"
    /\ Goto(p, "storeUpdate")
    /\ UNCHANGED store

\* byEmail.Delete of the email that was loaded
DropEmail(p) ==
    /\ pc[p] = "dropEmail"
    /\ byEmail' = [byEmail EXCEPT ![call[p].seen.email] = None]
    /\ Goto(p, "storeUpdate")
    /\ UNCHANGED <<users, byUsername>>

\* Mutant of Updated: an empty email is stored.
UpdatedEmptyEmail(c) ==
    [c.seen EXCEPT !.email = c.email,
                   !.status = IF c.status # None THEN c.status ELSE @,
                   !.online = c.online]

\* Mutant of Updated: the username comes from the request, which has none.
UpdatedFromRequest(c) ==
    [c.seen EXCEPT !.username = c.username,
                   !.email = IF c.email # None THEN c.email ELSE @,
                   !.status = IF c.status # None THEN c.status ELSE @,
                   !.online = c.online]

\* The record Update stores, built from the one it loaded.
Updated(c) ==
    [c.seen EXCEPT !.email = IF c.email # None THEN c.email ELSE @,
                   !.status = IF c.status # None THEN c.status ELSE @,
                   !.online = c.online]

\* users.Store; UpdateUser then reads the record back
StoreUpdate(p) ==
    /\ pc[p] = "storeUpdate"
    /\ users' = [users EXCEPT ![call[p].id] = Updated(call[p])]
    /\ UNCHANGED <<byUsername, byEmail>>
    /\ \/ call[p].op = "UpdateUser" /\ Goto(p, "read")
       \/ call[p].op # "UpdateUser" /\ Finish(p, "ok")

-----------------------------------------------------------------------------
(* GetUser and the read that ends UpdateUser: MemoryStore.GetByID.          *)

GetUser(p, i) ==
    /\ Start(p, [NoCall EXCEPT !.op = "GetUser", !.id = i], "read")
    /\ UNCHANGED issued

Read(p) ==
    /\ pc[p] = "read"
    /\ Finish(p, IF Found(users[call[p].id]) THEN "ok" ELSE "not found")
    /\ UNCHANGED store

-----------------------------------------------------------------------------
(* DeleteUser: MemoryStore.Delete, a soft delete.                           *)

DeleteUser(p, i) ==
    /\ MayWrite(i)
    /\ Start(p, [NoCall EXCEPT !.op = "DeleteUser", !.id = i,
                               !.status = "deleted"], "loadDelete")
    /\ UNCHANGED issued

LoadDelete(p) ==
    /\ pc[p] = "loadDelete"
    /\ UNCHANGED store
    /\ LET r == users[call[p].id] IN
       \/ ~Found(r) /\ Finish(p, "not found")
       \/ Found(r) /\ GotoWith(p, "storeDelete", [call[p] EXCEPT !.seen = r])

StoreDelete(p) ==
    /\ pc[p] = "storeDelete"
    /\ users' = [users EXCEPT ![call[p].id] = [call[p].seen EXCEPT !.status = "deleted"]]
    /\ Finish(p, "ok")
    /\ UNCHANGED <<byUsername, byEmail>>

-----------------------------------------------------------------------------
(* Login (REST, and UDP packets, which do the same store calls) and Auth   *)
(* (UDS): VerifyCredentials, then for Login an Update whose error is ignored.*)

\* Mutant of Login: the user it updates leaves IsOnline unset.
LoginForgetsOnline(p, n) ==
    /\ MayLogin(n)
    /\ Start(p, [NoCall EXCEPT !.op = "Login", !.username = n], "findName")
    /\ UNCHANGED issued

Login(p, n) ==
    /\ MayLogin(n)
    /\ Start(p, [NoCall EXCEPT !.op = "Login", !.username = n, !.online = TRUE],
             "findName")
    /\ UNCHANGED issued

Auth(p, n) ==
    /\ Start(p, [NoCall EXCEPT !.op = "Auth", !.username = n], "findName")
    /\ UNCHANGED issued

\* GetByUsername: byUsername.Load
FindName(p) ==
    /\ pc[p] = "findName"
    /\ UNCHANGED store
    /\ LET i == byUsername[call[p].username] IN
       \/ i = None /\ Finish(p, "invalid credentials")
       \/ i # None /\ GotoWith(p, "findUser", [call[p] EXCEPT !.id = i])

\* Mutant of FindUser: the id of the index is trusted without loading the record.
FindUserUnchecked(p) ==
    /\ pc[p] = "findUser"
    /\ Goto(p, "load")
    /\ UNCHANGED store

\* GetByUsername: users.Load, then the status and the password
FindUser(p) ==
    /\ pc[p] = "findUser"
    /\ UNCHANGED store
    /\ LET r == users[call[p].id] IN
       \/ ~Found(r) /\ Finish(p, "invalid credentials")
       \/ Found(r) /\ r.status # "active" /\ Finish(p, "disabled")
       \/ Found(r) /\ r.status = "active" /\ Finish(p, "invalid credentials")
       \/ /\ Found(r) /\ r.status = "active"
          /\ \/ call[p].op = "Login" /\ Goto(p, "load")
             \/ call[p].op = "Auth" /\ Finish(p, "ok")

-----------------------------------------------------------------------------

Invoke(p) ==
    \/ \E n \in Usernames, e \in Emails, i \in Ids : CreateUser(p, n, e, i)
    \/ \E i \in Ids, e \in Emails \cup {None}, s \in StatusInputs :
          UpdateUser(p, i, e, s)
    \/ \E i \in Ids, o \in BOOLEAN : SetOnline(p, i, o)
    \/ \E i \in Ids : DeleteUser(p, i)
    \/ \E i \in Ids : GetUser(p, i)
    \/ \E n \in Usernames : Login(p, n)
    \/ \E n \in Usernames : Auth(p, n)

Step(p) ==
    \/ ReserveName(p) \/ ReserveEmail(p) \/ UndoName(p) \/ StoreNew(p)
    \/ Load(p) \/ ClaimEmail(p) \/ DropEmail(p) \/ StoreUpdate(p)
    \/ Read(p)
    \/ LoadDelete(p) \/ StoreDelete(p)
    \/ FindName(p) \/ FindUser(p)

Next == \E p \in Procs : Invoke(p) \/ Step(p)

Spec == Init /\ [][Next]_vars

-----------------------------------------------------------------------------
(* Properties that hold whatever the clients do.                            *)

\* Goroutine p holds a reservation of its username: LoadOrStore succeeded and
\* the record is not stored, and the reservation not undone, yet.
HoldsName(p) ==
    call[p].op = "CreateUser" /\ pc[p] \in {"reserveEmail", "undoName", "storeNew"}

\* The username index and the records agree: every record is indexed under its
\* username, and an entry leads to a record of that name or belongs to a
\* CreateUser still in flight.  So usernames are unique, and neither a rejected
\* CreateUser (memory_store.go:31) nor any interleaving leaks a reservation.
UsernameIndexExact ==
    /\ \A i \in Ids : users[i] # None => byUsername[users[i].username] = i
    /\ \A n \in Usernames : byUsername[n] # None =>
          \/ users[byUsername[n]] # None /\ users[byUsername[n]].username = n
          \/ \E p \in Procs : /\ HoldsName(p)
                              /\ call[p].username = n
                              /\ call[p].id = byUsername[n]

\* A Login that has passed VerifyCredentials works on an account of the username
\* that was asked for, although the id was read from an index whose entries
\* CreateUser may undo and hand to another account meanwhile.
LoginBindsName ==
    \A p \in Procs :
        call[p].op = "Login" /\ pc[p] \in {"load", "storeUpdate"} =>
            /\ users[call[p].id] # None
            /\ users[call[p].id].username = call[p].username

\* The accounts of the records, as UserRegistry sees them.
Accounts == {<<users[i].username, i>> : i \in {j \in Ids : users[j] # None}}

Registry == INSTANCE UserRegistry WITH accounts <- Accounts

\* The store implements UserRegistry: accounts appear one at a time with a fresh
\* username and id, and no Update, Delete or Login renames or loses one.
ImplementsRegistry == Registry!Spec

\* Goroutine p holds a record that it has loaded and whose replacement it has still
\* to store.
Loaded(p) == pc[p] \in {"claimEmail", "dropEmail", "storeUpdate", "storeDelete"}

\* User i is deleted, and no request that loaded the record before is under way.
Gone(i) ==
    /\ users[i] # None
    /\ users[i].status = "deleted"
    /\ \A p \in Procs : Loaded(p) => call[p].id # i

\* Once the requests that had loaded its record (memory_store.go:77, 112) are through,
\* a user who is deleted then is deleted for good: no later request, login or datagram
\* gets hold of the record or changes it.  Before that a deletion may be undone
\* (DeletedIsFinal).
DeletionSettles == [][\A i \in Ids : Gone(i) => Gone(i)' /\ users'[i] = users[i]]_vars

-----------------------------------------------------------------------------
(* A property that needs Overlap = FALSE.                                   *)

\* The email index and the records agree, up to the three windows the code has:
\* a CreateUser between LoadOrStore and Store, an Update between claiming its
\* new email and Store, and an Update between dropping its old email and Store.
\* So emails are unique (uniqueIndex in model/models.go:18) whenever no request is
\* under way.
EmailIndexExact ==
    /\ \A i \in Ids : users[i] # None =>
          \/ byEmail[users[i].email] = i
          \/ \E p \in Procs : /\ pc[p] = "storeUpdate"
                              /\ call[p].id = i
                              /\ ChangesEmail(call[p], users[i])
    /\ \A e \in Emails : byEmail[e] # None =>
          \/ users[byEmail[e]] # None /\ users[byEmail[e]].email = e
          \/ \E p \in Procs : /\ pc[p] \in {"storeNew", "dropEmail", "storeUpdate"}
                              /\ call[p].id = byEmail[e]
                              /\ call[p].email = e

-----------------------------------------------------------------------------
(* What the documents of the repository say and overlapping requests break. *)

\* A deleted user stays deleted: no Update that loaded the record before the
\* deletion stores it back (memory_store.go:77 and 107).
DeletedIsFinal ==
    [][\A i \in Ids : users[i] # None /\ users[i].status = "deleted"
                         => users'[i] = users[i]]_vars
=============================================================================
