------------------------------ MODULE PgStore -------------------------------
(***************************************************************************)
(* The Postgres user store (internal/user/pg_store.go) on the table of     *)
(* migrations/001_init.sql, below the user service: the other              *)
(* implementation of user.Store, which main.go does not use.               *)
(*                                                                         *)
(* One SQL statement is one step: an INSERT or UPDATE of one row checks    *)
(* the constraints and the WHERE clause and writes, whatever others do.    *)
(* There is no transaction around two statements, so the requests that     *)
(* need two (UpdateUser, Login, a listing) keep a frame between them.       *)
(* created_at is a number, the database's DEFAULT NOW() (001_init.sql:12): *)
(* two rows may have the same, and rows may become visible in another      *)
(* order than that of their stamps.                                         *)
(***************************************************************************)
EXTENDS Integers, FiniteSets

CONSTANTS
    Procs, Ids, Usernames, Emails, None,
    AdminId, AdminName, AdminEmail,   \* the account bootstrapAdmin creates
    StatusInputs,                     \* what updates ask for
    Stamps,                           \* the values of created_at
    PageSize

Statuses == {"active", "disabled", "deleted"}

Row == [username : Usernames, email : Emails, status : Statuses, online : BOOLEAN, at : Stamps]

ASSUME PgAssumption ==
    /\ AdminId \in Ids /\ AdminName \in Usernames /\ AdminEmail \in Emails
    /\ 0 \in Stamps /\ Stamps \subseteq Int
    /\ StatusInputs \subseteq Statuses \cup {None}
    /\ PageSize \in Nat \ {0}
    /\ None \notin Row /\ None \notin Ids /\ None \notin Emails /\ None \notin Statuses

VARIABLES
    rows,     \* the users table: id -> row
    pc,       \* the next statement of each goroutine
    call,     \* the id its second statement is about
    walk      \* a client that pages through ListUsers

vars == <<rows, pc, call, walk>>

NoWalk == [state |-> "none", offset |-> 0, seen |-> {}, kept |-> {}, calm |-> TRUE]

TypeOK ==
    /\ rows \in [Ids -> Row \cup {None}]
    /\ pc \in [Procs -> {"idle", "readBack", "setOnline"}]
    /\ call \in [Procs -> Ids \cup {None}]
    /\ walk \in [state : {"none", "walking", "done"}, offset : Nat,
                seen : SUBSET Ids, kept : SUBSET Ids, calm : BOOLEAN]

\* Mutant of Matches: the status is not part of the WHERE clause.
MatchesAny(i) == rows[i] # None

\* WHERE id = $1 AND status != 'deleted'
Matches(i) == rows[i] # None /\ rows[i].status # "deleted"

NewRow(n, e, t) == [username |-> n, email |-> e, status |-> "active", online |-> FALSE, at |-> t]

Init ==
    /\ rows = [i \in Ids |-> IF i = AdminId THEN NewRow(AdminName, AdminEmail, 0) ELSE None]
    /\ pc = [p \in Procs |-> "idle"]
    /\ call = [p \in Procs |-> None]
    /\ walk = NoWalk

\* A statement replaces the row of i; a walk notices that a row leaves its list.
Write(i, r) ==
    /\ rows' = [rows EXCEPT ![i] = r]
    /\ walk' = [walk EXCEPT !.calm = @ /\ ~(Matches(i) /\ r.status = "deleted")]

Leave == UNCHANGED <<rows, walk>>

Goto(p, l, i) ==
    /\ pc' = [pc EXCEPT ![p] = l]
    /\ call' = [call EXCEPT ![p] = i]

Answer(p) == Goto(p, "idle", None)

-----------------------------------------------------------------------------
(* The statements. *)

\* UNIQUE (email); a deleted row keeps its email.
EmailTaken(i, e) == \E j \in Ids \ {i} : rows[j] # None /\ rows[j].email = e

\* Mutant of NameTaken: the column is not UNIQUE.
NameTakenNever(n) == FALSE

\* UNIQUE (username)
NameTaken(n) == \E j \in Ids : rows[j] # None /\ rows[j].username = n

\* CreateUser: INSERT.  The id is a new uuid; "duplicate" becomes ErrUserAlreadyExists.
Create(p, i, n, e, t) ==
    /\ pc[p] = "idle" /\ rows[i] = None
    /\ Answer(p)
    /\ \/ (NameTaken(n) \/ EmailTaken(i, e)) /\ Leave
       \/ ~NameTaken(n) /\ ~EmailTaken(i, e) /\ Write(i, NewRow(n, e, t))

\* SET email = COALESCE(NULLIF($2, ''), email), ..., is_online = $5
Updated(r, e, s, o) ==
    [r EXCEPT !.email = IF e # None THEN e ELSE @,
              !.status = IF s # None THEN s ELSE @, !.online = o]

\* Update: the statement changes a row, or none, or breaks UNIQUE (email).  When it
\* succeeds goroutine p goes on to l.
Update(p, i, e, s, o, l) ==
    \/ ~Matches(i) /\ Leave /\ Answer(p)
    \/ Matches(i) /\ EmailTaken(i, e) /\ Leave /\ Answer(p)
    \/ /\ Matches(i) /\ ~EmailTaken(i, e)
       /\ Write(i, Updated(rows[i], e, s, o))
       /\ Goto(p, l, IF l = "idle" THEN None ELSE i)

\* GetByID
Select(p) == Leave /\ Answer(p)

Delete(p, i) ==
    /\ pc[p] = "idle" /\ Answer(p)
    /\ \/ ~Matches(i) /\ Leave
       \/ Matches(i) /\ Write(i, [rows[i] EXCEPT !.status = "deleted"])

-----------------------------------------------------------------------------
(* The service's requests over them. *)

UpdateUser(p, i, e, s) == pc[p] = "idle" /\ Update(p, i, e, s, FALSE, "readBack")

\* The SELECT that ends UpdateUser
ReadBack(p) == pc[p] = "readBack" /\ Select(p)

SetOnline(p, i, o) == pc[p] = "idle" /\ Update(p, i, None, None, o, "idle")

GetUser(p) == pc[p] = "idle" /\ Select(p)

\* VerifyCredentials with the right password: GetByUsername, then the status.
\* Every other outcome leaves the table alone and ends the request.
LoginSelect(p, i) ==
    /\ pc[p] = "idle" /\ Matches(i) /\ rows[i].status = "active"
    /\ Goto(p, "setOnline", i)
    /\ Leave

\* Login's UPDATE, whose error is ignored
LoginUpdate(p) == pc[p] = "setOnline" /\ Update(p, call[p], None, None, TRUE, "idle")

-----------------------------------------------------------------------------
(* A client that asks for page after page until one is empty. *)

Listed == {i \in Ids : Matches(i)}

\* Mutant of Leads: there is no ORDER BY.
LeadsAny(S) == TRUE

\* ORDER BY created_at DESC: S may be the rows at the head of the list.  Nothing
\* settles the order of rows with equal stamps, and each query settles it anew.
Leads(S) == \A i \in S, j \in Listed \ S : rows[i].at >= rows[j].at

\* What the first k rows of a query may be
First(k) ==
    {S \in SUBSET Listed : /\ Leads(S)
                           /\ Cardinality(S) <= k
                           /\ Cardinality(S) = k \/ S = Listed}

WalkStart ==
    /\ walk.state # "walking"
    /\ walk' = [NoWalk EXCEPT !.state = "walking", !.kept = Listed]
    /\ UNCHANGED <<rows, pc, call>>

\* The client takes a page; it asks for the next one, or ends with an empty one.
Turn(page) ==
    walk' = [walk EXCEPT !.seen = @ \cup page,
                         !.offset = IF page = {} THEN @ ELSE @ + PageSize,
                         !.state = IF page = {} THEN "done" ELSE @]

\* LIMIT PageSize OFFSET walk.offset
WalkPage ==
    /\ walk.state = "walking"
    /\ \E before \in First(walk.offset), upto \in First(walk.offset + PageSize) :
          before \subseteq upto /\ Turn(upto \ before)
    /\ UNCHANGED <<rows, pc, call>>

Next ==
    \/ \E p \in Procs :
        \/ \E i \in Ids, n \in Usernames, e \in Emails, t \in Stamps : Create(p, i, n, e, t)
        \/ \E i \in Ids, e \in Emails \cup {None}, s \in StatusInputs :
              UpdateUser(p, i, e, s)
        \/ ReadBack(p)
        \/ \E i \in Ids, o \in BOOLEAN : SetOnline(p, i, o)
        \/ \E i \in Ids : Delete(p, i)
        \/ GetUser(p)
        \/ \E i \in Ids : LoginSelect(p, i)
        \/ LoginUpdate(p)
    \/ WalkStart \/ WalkPage

Spec == Init /\ [][Next]_vars

-----------------------------------------------------------------------------

\* A deleted row never changes again, whatever request was under way at the deletion:
\* the second statement of a Login tests the status anew (pg_store.go:78).
PgDeletedIsFinal ==
    [][\A i \in Ids : rows[i] # None /\ rows[i].status = "deleted" => rows'[i] = rows[i]]_vars

Accounts == {<<rows[i].username, i>> : i \in {j \in Ids : rows[j] # None}}

Registry == INSTANCE UserRegistry WITH accounts <- Accounts

\* This store, too, implements UserRegistry: accounts appear one at a time with a
\* fresh username and id and are never renamed or lost.
ImplementsRegistry == Registry!Spec

\* Another row of the list has the same created_at.
Tied(i) == \E j \in Listed \ {i} : rows[j].at = rows[i].at

\* A client that pages to the end sees every user that was there when it began and has
\* a created_at of its own, even while users are created in front of it, as long as none
\* is deleted: a new row only pushes others to later pages (pg_store.go:108).  Users
\* with equal stamps it may miss, for ORDER BY created_at has no tie-break: one query
\* may put such a row behind the page, the next one in front of it.
WalkLosesNothing ==
    walk.state = "done" /\ walk.calm => \A i \in walk.kept : i \in walk.seen \/ Tied(i)
=============================================================================
