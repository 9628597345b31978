--------------------------- MODULE PgStoreProofs ----------------------------
(***************************************************************************)
(* Theorems about PgStore, for every set of goroutines, ids, usernames,    *)
(* emails and stamps and every workload.                                    *)
(*                                                                         *)
(* The type invariant is inductive once it is known that a second          *)
(* statement has an id to be about (CallInv).  The UNIQUE constraint on     *)
(* username then makes the table a registry: a row is added with a fresh   *)
(* id and username, and no statement changes the username of a row.  That  *)
(* paging loses nobody whose stamp is unique needs more: such a row is     *)
(* among the first k rows of a query exactly when fewer than k rows come   *)
(* before it, however the database orders the others (HeadHas), and no     *)
(* statement but a deletion moves it to an earlier position (WriteKeeps).  *)
(***************************************************************************)
EXTENDS PgStore, FiniteSetTheorems, TLAPS

\* Between two statements the frame names the row of the first.
CallInv == \A p \in Procs : pc[p] # "idle" => call[p] \in Ids

IndInv == TypeOK /\ CallInv

-----------------------------------------------------------------------------
(* What each statement may do to the table. *)

\* The table gets a row under a new id, with a username that no row has.
Inserted ==
    \E i \in Ids, n \in Usernames, e \in Emails, t \in Stamps :
        /\ rows[i] = None
        /\ ~NameTaken(n)
        /\ rows' = [rows EXCEPT ![i] = NewRow(n, e, t)]

\* A row that is not deleted is replaced by one of the same username.
Replaced ==
    \E i \in Ids, r \in Row :
        /\ Matches(i)
        /\ r.username = rows[i].username
        /\ rows' = [rows EXCEPT ![i] = r]

LEMMA NewRowType ==
  ASSUME NEW n \in Usernames, NEW e \in Emails, NEW t \in Stamps
  PROVE  /\ NewRow(n, e, t) \in Row
         /\ NewRow(n, e, t).username = n
PROOF BY DEF NewRow, Row, Statuses

\* Updated keeps the type and the username of a row.
LEMMA UpdatedType ==
  ASSUME NEW r \in Row, NEW e \in Emails \cup {None}, NEW s \in Statuses \cup {None},
         NEW o \in BOOLEAN
  PROVE  /\ Updated(r, e, s, o) \in Row
         /\ Updated(r, e, s, o).username = r.username
PROOF BY DEF Updated, Row

\* Write keeps the type of the table and of the walk.
LEMMA WriteType ==
  ASSUME TypeOK, NEW i \in Ids, NEW r \in Row, Write(i, r)
  PROVE  /\ rows' \in [Ids -> Row \cup {None}]
         /\ walk' \in [state : {"none", "walking", "done"}, offset : Nat,
                       seen : SUBSET Ids, kept : SUBSET Ids, calm : BOOLEAN]
         /\ rows' = [rows EXCEPT ![i] = r]
<1>1. rows' = [rows EXCEPT ![i] = r]
  BY DEF Write
<1>2. rows' \in [Ids -> Row \cup {None}]
  BY <1>1 DEF TypeOK
<1>3. (walk.calm /\ ~(Matches(i) /\ r.status = "deleted")) \in BOOLEAN
  OBVIOUS
<1>4. walk' \in [state : {"none", "walking", "done"}, offset : Nat,
                 seen : SUBSET Ids, kept : SUBSET Ids, calm : BOOLEAN]
  BY <1>3 DEF Write, TypeOK
<1> QED
  BY <1>1, <1>2, <1>4

\* Where a goroutine goes on; the frame it leaves names a row.
LEMMA GotoType ==
  ASSUME IndInv, NEW p \in Procs, NEW l \in {"idle", "readBack", "setOnline"},
         NEW i \in Ids \cup {None}, l # "idle" => i \in Ids, Goto(p, l, i)
  PROVE  /\ pc' \in [Procs -> {"idle", "readBack", "setOnline"}]
         /\ call' \in [Procs -> Ids \cup {None}]
         /\ CallInv'
PROOF BY DEF IndInv, TypeOK, CallInv, Goto

\* The statement of Update, from whichever request it comes.
LEMMA UpdateStep ==
  ASSUME IndInv, NEW p \in Procs, NEW i \in Ids, NEW e \in Emails \cup {None},
         NEW s \in Statuses \cup {None}, NEW o \in BOOLEAN,
         NEW l \in {"idle", "readBack", "setOnline"},
         Update(p, i, e, s, o, l)
  PROVE  IndInv' /\ (Replaced \/ rows' = rows)
<1> USE PgAssumption
<1>1. CASE Leave /\ Answer(p)
  <2>1. Goto(p, "idle", None)
    BY <1>1 DEF Answer
  <2> QED
    BY <1>1, <2>1, GotoType DEF IndInv, TypeOK, Leave
<1>2. CASE /\ Matches(i) /\ ~EmailTaken(i, e)
           /\ Write(i, Updated(rows[i], e, s, o))
           /\ Goto(p, l, IF l = "idle" THEN None ELSE i)
  <2>1. rows[i] \in Row
    BY <1>2 DEF IndInv, TypeOK, Matches
  <2>2. PICK r \in Row : /\ r = Updated(rows[i], e, s, o)
                         /\ r.username = rows[i].username
    BY <2>1, UpdatedType
  <2>3. Write(i, r)
    BY <1>2, <2>2
  <2>4. IndInv'
    BY <1>2, <2>3, WriteType, GotoType DEF IndInv, TypeOK
  <2>5. Replaced
    BY <1>2, <2>2, <2>3 DEF Replaced, Write
  <2> QED
    BY <2>4, <2>5
<1> QED
  BY <1>1, <1>2 DEF Update

LEMMA CreateStep ==
  ASSUME IndInv, NEW p \in Procs, NEW i \in Ids, NEW n \in Usernames, NEW e \in Emails,
         NEW t \in Stamps, Create(p, i, n, e, t)
  PROVE  IndInv' /\ (Inserted \/ rows' = rows)
<1>1. Goto(p, "idle", None)
  BY DEF Create, Answer
<1>2. /\ pc' \in [Procs -> {"idle", "readBack", "setOnline"}]
      /\ call' \in [Procs -> Ids \cup {None}]
      /\ CallInv'
  BY <1>1, GotoType
<1>3. CASE Leave
  BY <1>2, <1>3 DEF IndInv, TypeOK, Leave
<1>4. CASE ~NameTaken(n) /\ ~EmailTaken(i, e) /\ Write(i, NewRow(n, e, t))
  <2>1. NewRow(n, e, t) \in Row
    BY NewRowType
  <2>2. IndInv'
    BY <1>2, <1>4, <2>1, WriteType DEF IndInv, TypeOK
  <2>3. Inserted
    BY <1>4 DEF Inserted, Create, Write
  <2> QED
    BY <2>2, <2>3
<1> QED
  BY <1>3, <1>4 DEF Create

LEMMA DeleteStep ==
  ASSUME IndInv, NEW p \in Procs, NEW i \in Ids, Delete(p, i)
  PROVE  IndInv' /\ (Replaced \/ rows' = rows)
<1>1. Goto(p, "idle", None)
  BY DEF Delete, Answer
<1>2. /\ pc' \in [Procs -> {"idle", "readBack", "setOnline"}]
      /\ call' \in [Procs -> Ids \cup {None}]
      /\ CallInv'
  BY <1>1, GotoType
<1>3. CASE Leave
  BY <1>2, <1>3 DEF IndInv, TypeOK, Leave
<1>4. CASE Matches(i) /\ Write(i, [rows[i] EXCEPT !.status = "deleted"])
  <2>1. rows[i] \in Row
    BY <1>4 DEF IndInv, TypeOK, Matches
  <2>2. PICK r \in Row : /\ r = [rows[i] EXCEPT !.status = "deleted"]
                         /\ r.username = rows[i].username
    <3>1. [rows[i] EXCEPT !.status = "deleted"] \in Row
      BY <2>1 DEF Row, Statuses
    <3>2. [rows[i] EXCEPT !.status = "deleted"].username = rows[i].username
      BY <2>1 DEF Row
    <3> QED
      BY <3>1, <3>2
  <2>3. Write(i, r)
    BY <1>4, <2>2
  <2>4. IndInv'
    BY <1>2, <2>3, WriteType DEF IndInv, TypeOK
  <2>5. Replaced
    BY <1>4, <2>2, <2>3 DEF Replaced, Write
  <2> QED
    BY <2>4, <2>5
<1> QED
  BY <1>3, <1>4 DEF Delete

\* A page of a walk, and its beginning, leave the table alone.
LEMMA WalkStep ==
  ASSUME IndInv, WalkStart \/ WalkPage
  PROVE  IndInv' /\ rows' = rows
<1>1. UNCHANGED <<rows, pc, call>>
  BY DEF WalkStart, WalkPage
<1>2. CASE WalkStart
  BY <1>1, <1>2 DEF WalkStart, NoWalk, Listed, IndInv, TypeOK, CallInv
<1>3. CASE WalkPage
  <2>0. PICK page \in SUBSET Ids : Turn(page)
    <3>1. PICK before \in First(walk.offset), upto \in First(walk.offset + PageSize) :
             Turn(upto \ before)
      BY <1>3 DEF WalkPage
    <3>2. upto \ before \in SUBSET Ids
      BY DEF First, Listed
    <3> QED
      BY <3>1, <3>2
  <2>1. page \subseteq Ids
    OBVIOUS
  <2>2. PageSize \in Nat
    BY PgAssumption
  <2>3. walk' = [walk EXCEPT !.seen = @ \cup page,
                             !.offset = IF page = {} THEN @ ELSE @ + PageSize,
                             !.state = IF page = {} THEN "done" ELSE @]
    BY <2>0 DEF Turn
  <2>4. walk \in [state : {"none", "walking", "done"}, offset : Nat,
                  seen : SUBSET Ids, kept : SUBSET Ids, calm : BOOLEAN]
    BY DEF IndInv, TypeOK
  <2>5. CASE page = {}
    <3>1. walk' = [walk EXCEPT !.seen = @ \cup page, !.state = "done"]
      BY <2>3, <2>4, <2>5
    <3>2. walk' \in [state : {"none", "walking", "done"}, offset : Nat,
                     seen : SUBSET Ids, kept : SUBSET Ids, calm : BOOLEAN]
      BY <2>1, <2>4, <3>1
    <3> QED
      BY <1>1, <3>2 DEF IndInv, TypeOK, CallInv
  <2>6. CASE page # {}
    <3>1. walk' = [walk EXCEPT !.seen = @ \cup page, !.offset = @ + PageSize]
      BY <2>3, <2>4, <2>6
    <3>2. walk' \in [state : {"none", "walking", "done"}, offset : Nat,
                     seen : SUBSET Ids, kept : SUBSET Ids, calm : BOOLEAN]
      <4>1. walk.offset + PageSize \in Nat /\ walk.seen \cup page \in SUBSET Ids
        BY <2>1, <2>2, <2>4
      <4> QED
        BY <2>4, <3>1, <4>1
    <3> QED
      BY <1>1, <3>2 DEF IndInv, TypeOK, CallInv
  <2> QED
    BY <2>5, <2>6
<1> QED
  BY <1>2, <1>3, <1>1

LEMMA IndInvInit == Init => IndInv
<1> SUFFICES ASSUME Init PROVE IndInv
  OBVIOUS
<1>1. NewRow(AdminName, AdminEmail, 0) \in Row
  BY NewRowType, PgAssumption
<1>2. rows \in [Ids -> Row \cup {None}]
  BY <1>1 DEF Init
<1> QED
  BY <1>2 DEF Init, IndInv, TypeOK, CallInv, NoWalk

\* Every step keeps the types and inserts a row, replaces a row or leaves the table.
LEMMA IndInvStep ==
  ASSUME IndInv, [Next]_vars
  PROVE  IndInv' /\ (Inserted \/ Replaced \/ rows' = rows)
<1> USE PgAssumption
<1>1. CASE UNCHANGED vars
  BY <1>1 DEF vars, IndInv, TypeOK, CallInv
<1>2. CASE WalkStart \/ WalkPage
  BY <1>2, WalkStep
<1>3. ASSUME NEW p \in Procs, NEW i \in Ids, NEW n \in Usernames, NEW e \in Emails,
             NEW t \in Stamps, Create(p, i, n, e, t)
      PROVE  IndInv' /\ (Inserted \/ Replaced \/ rows' = rows)
  BY <1>3, CreateStep
<1>4. ASSUME NEW p \in Procs, NEW i \in Ids, NEW e \in Emails \cup {None},
             NEW s \in StatusInputs, UpdateUser(p, i, e, s)
      PROVE  IndInv' /\ (Inserted \/ Replaced \/ rows' = rows)
  <2>1. s \in Statuses \cup {None}
    OBVIOUS
  <2>2. Update(p, i, e, s, FALSE, "readBack")
    BY <1>4 DEF UpdateUser
  <2> QED
    BY <2>1, <2>2, UpdateStep
<1>5. ASSUME NEW p \in Procs, NEW i \in Ids, NEW o \in BOOLEAN, SetOnline(p, i, o)
      PROVE  IndInv' /\ (Inserted \/ Replaced \/ rows' = rows)
  <2>1. Update(p, i, None, None, o, "idle")
    BY <1>5 DEF SetOnline
  <2> QED
    BY <2>1, UpdateStep
<1>6. ASSUME NEW p \in Procs, NEW i \in Ids, Delete(p, i)
      PROVE  IndInv' /\ (Inserted \/ Replaced \/ rows' = rows)
  BY <1>6, DeleteStep
<1>7. ASSUME NEW p \in Procs, ReadBack(p) \/ GetUser(p)
      PROVE  IndInv' /\ (Inserted \/ Replaced \/ rows' = rows)
  <2>1. Leave /\ Goto(p, "idle", None)
    BY <1>7 DEF ReadBack, GetUser, Select, Answer
  <2> QED
    BY <2>1, GotoType DEF IndInv, TypeOK, Leave
<1>8. ASSUME NEW p \in Procs, NEW i \in Ids, LoginSelect(p, i)
      PROVE  IndInv' /\ (Inserted \/ Replaced \/ rows' = rows)
  <2>1. Leave /\ Goto(p, "setOnline", i)
    BY <1>8 DEF LoginSelect
  <2> QED
    BY <2>1, GotoType DEF IndInv, TypeOK, Leave
<1>9. ASSUME NEW p \in Procs, LoginUpdate(p)
      PROVE  IndInv' /\ (Inserted \/ Replaced \/ rows' = rows)
  <2>1. call[p] \in Ids
    BY <1>9 DEF LoginUpdate, IndInv, CallInv
  <2>2. Update(p, call[p], None, None, TRUE, "idle")
    BY <1>9 DEF LoginUpdate
  <2> QED
    BY <2>1, <2>2, UpdateStep
<1> QED
  BY <1>1, <1>2, <1>3, <1>4, <1>5, <1>6, <1>7, <1>8, <1>9 DEF Next

LEMMA Invariance == Spec => []IndInv
<1>1. IndInv /\ [Next]_vars => IndInv'
  BY IndInvStep
<1> QED
  BY <1>1, IndInvInit, PTL DEF Spec

-----------------------------------------------------------------------------
(* The theorems. *)

\* Every row is well formed, whatever statements of whatever requests interleave.
THEOREM TypeCorrect == Spec => []TypeOK
<1>1. IndInv => TypeOK
  BY DEF IndInv
<1> QED
  BY <1>1, Invariance, PTL

\* Nothing changes a deleted row, not even the second statement of a request that
\* found it alive: each statement's WHERE clause looks at the status again.
THEOREM DeletionFinal == Spec => PgDeletedIsFinal
<1> DEFINE Final == \A i \in Ids :
                       rows[i] # None /\ rows[i].status = "deleted" => rows'[i] = rows[i]
<1>1. ASSUME IndInv, [Next]_vars PROVE Final
  <2>1. rows \in [Ids -> Row \cup {None}]
    BY <1>1 DEF IndInv, TypeOK
  <2>2. CASE Inserted
    BY <2>1, <2>2 DEF Inserted
  <2>3. CASE Replaced
    BY <2>1, <2>3 DEF Replaced, Matches
  <2>4. CASE rows' = rows
    BY <2>4
  <2> QED
    BY <1>1, <2>2, <2>3, <2>4, IndInvStep
<1>2. IndInv /\ [Next]_vars => [Final]_vars
  BY <1>1
<1> QED
  BY <1>2, Invariance, PTL DEF Spec, PgDeletedIsFinal

-----------------------------------------------------------------------------
(* Refinement: PgStore implements UserRegistry. *)

LEMMA AccountsInit == Init => Registry!Init
<1> SUFFICES ASSUME Init PROVE Registry!Init
  OBVIOUS
<1> DEFINE r == NewRow(AdminName, AdminEmail, 0)
<1>1. r \in Row /\ r.username = AdminName
  BY NewRowType, PgAssumption
<1>2. r # None
  BY <1>1, PgAssumption
<1>3. rows = [i \in Ids |-> IF i = AdminId THEN r ELSE None]
  BY DEF Init
<1> HIDE DEF r
<1>4. \A i \in Ids : rows[i] # None <=> i = AdminId
  BY <1>2, <1>3
<1>5. rows[AdminId].username = AdminName
  BY <1>1, <1>3, PgAssumption
<1>6. Accounts = {<<AdminName, AdminId>>}
  BY <1>4, <1>5, PgAssumption DEF Accounts
<1> QED
  BY <1>6, PgAssumption DEF Registry!Init

LEMMA InsertRegisters ==
  ASSUME IndInv, Inserted
  PROVE  Registry!Next
<1>1. PICK i \in Ids, n \in Usernames, e \in Emails, t \in Stamps :
         /\ rows[i] = None /\ ~NameTaken(n)
         /\ rows' = [rows EXCEPT ![i] = NewRow(n, e, t)]
  BY DEF Inserted
<1> DEFINE r == NewRow(n, e, t)
<1>2. r \in Row /\ r.username = n
  BY NewRowType
<1>3. r # None
  BY <1>2, PgAssumption
<1>4. rows'[i] = r /\ \A j \in Ids : j # i => rows'[j] = rows[j]
  BY <1>1 DEF IndInv, TypeOK
<1> HIDE DEF r
<1>5. \A j \in Ids : rows[j] # None => rows[j].username # n /\ j # i
  BY <1>1 DEF NameTaken
<1>6. \A a \in Accounts : a[1] # n /\ a[2] # i
  BY <1>5 DEF Accounts
<1>7. Accounts' = Accounts \cup {<<n, i>>}
  <2>1. ASSUME NEW a \in Accounts' PROVE a \in Accounts \cup {<<n, i>>}
    <3>1. PICK j \in Ids : rows'[j] # None /\ a = <<rows'[j].username, j>>
      BY <2>1 DEF Accounts
    <3> QED
      BY <3>1, <1>2, <1>4 DEF Accounts
  <2>2. ASSUME NEW a \in Accounts PROVE a \in Accounts'
    <3>1. PICK j \in Ids : rows[j] # None /\ a = <<rows[j].username, j>>
      BY <2>2 DEF Accounts
    <3>2. rows'[j] = rows[j]
      BY <3>1, <1>4, <1>5
    <3> QED
      BY <3>1, <3>2 DEF Accounts
  <2>3. <<n, i>> \in Accounts'
    BY <1>2, <1>3, <1>4 DEF Accounts
  <2> QED
    BY <2>1, <2>2, <2>3
<1>8. Registry!Register(n, i)
  BY <1>6, <1>7 DEF Registry!Register
<1> QED
  BY <1>8 DEF Registry!Next

LEMMA ReplaceStutters ==
  ASSUME IndInv, Replaced
  PROVE  UNCHANGED Accounts
<1>1. PICK i \in Ids, r \in Row : /\ Matches(i) /\ r.username = rows[i].username
                                 /\ rows' = [rows EXCEPT ![i] = r]
  BY DEF Replaced
<1>2. r # None
  BY PgAssumption
<1>3. \A j \in Ids : rows'[j] = IF j = i THEN r ELSE rows[j]
  BY <1>1 DEF IndInv, TypeOK
<1>4. \A j \in Ids : /\ rows'[j] # None <=> rows[j] # None
                     /\ rows[j] # None => rows'[j].username = rows[j].username
  BY <1>1, <1>2, <1>3 DEF Matches
<1> QED
  BY <1>4 DEF Accounts

\* The table implements the atomic registry, as the lock-free maps do: each account
\* appears in one INSERT with a username and an id that no row has, and no UPDATE,
\* soft deletion or login renames or loses it.
THEOREM Refinement == Spec => ImplementsRegistry
<1>1. ASSUME IndInv, [Next]_vars PROVE [Registry!Next]_Accounts
  <2>1. CASE Inserted
    BY <1>1, <2>1, InsertRegisters
  <2>2. CASE Replaced
    BY <1>1, <2>2, ReplaceStutters
  <2>3. CASE rows' = rows
    BY <2>3 DEF Accounts
  <2> QED
    BY <1>1, <2>1, <2>2, <2>3, IndInvStep
<1>2. IndInv /\ [Next]_vars => [Registry!Next]_Accounts
  BY <1>1
<1> QED
  BY <1>2, AccountsInit, Invariance, PTL DEF Spec, ImplementsRegistry, Registry!Spec

-----------------------------------------------------------------------------
(* A client that pages through the list. *)

\* The rows that come before i in every order the query may choose
Before(i) == {j \in Listed : rows[j].at > rows[i].at}

TableInv == IsFiniteSet({i \in Ids : rows[i] # None})

\* Whoever was in the list at the start still is, and has been seen, shares its stamp or
\* comes on a later page.
WalkInv ==
    walk.state # "none" /\ walk.calm =>
        \A i \in walk.kept :
            /\ Matches(i)
            /\ \/ i \in walk.seen \/ Tied(i)
               \/ walk.state = "walking" /\ walk.offset <= Cardinality(Before(i))

PagingInv == IndInv /\ TableInv /\ WalkInv

LEMMA BeforeFinite ==
  ASSUME TableInv, NEW i \in Ids
  PROVE  IsFiniteSet(Before(i)) /\ Cardinality(Before(i)) \in Nat
<1>1. Before(i) \in SUBSET {j \in Ids : rows[j] # None}
  BY DEF Before, Listed, Matches
<1>2. IsFiniteSet(Before(i))
  BY <1>1, FS_Subset DEF TableInv
<1> QED
  BY <1>2, FS_CardinalityType

LEMMA StampType ==
  ASSUME TypeOK, NEW i \in Listed
  PROVE  rows[i].at \in Int
<1>1. rows[i] \in Row
  BY DEF TypeOK, Listed, Matches
<1> QED
  BY <1>1, PgAssumption DEF Row

\* A row with a stamp of its own is among the first k rows of a query exactly when fewer
\* than k rows come before it; a query with fewer than k rows to give has it.
LEMMA HeadHas ==
  ASSUME TypeOK, TableInv, NEW i \in Listed, ~Tied(i), NEW k \in Nat, NEW S \in First(k)
  PROVE  /\ i \in S <=> Cardinality(Before(i)) < k
         /\ IsFiniteSet(S) /\ Cardinality(S) \in Nat
         /\ i \notin S => Cardinality(S) = k
<1>1. /\ S \subseteq Listed /\ Cardinality(S) <= k /\ (Cardinality(S) = k \/ S = Listed)
      /\ \A a \in S, b \in Listed \ S : rows[a].at >= rows[b].at
  BY DEF First, Leads
<1>2. IsFiniteSet(S) /\ Cardinality(S) \in Nat
  <2>1. S \in SUBSET {j \in Ids : rows[j] # None}
    BY <1>1 DEF Listed, Matches
  <2>2. IsFiniteSet(S)
    BY <2>1, FS_Subset DEF TableInv
  <2> QED
    BY <2>2, FS_CardinalityType
<1>3. i \in Ids
  BY DEF Listed
<1>4. IsFiniteSet(Before(i)) /\ Cardinality(Before(i)) \in Nat
  BY <1>3, BeforeFinite
<1>5. CASE i \in S
  <2>1. ASSUME NEW j \in Before(i) PROVE j \in S
    <3>1. j \in Listed /\ rows[j].at > rows[i].at /\ rows[j].at \in Int /\ rows[i].at \in Int
      BY StampType DEF Before
    <3> QED
      BY <1>1, <1>5, <3>1
  <2>2. i \notin Before(i)
    <3>1. rows[i].at \in Int
      BY StampType
    <3> QED
      BY <3>1 DEF Before
  <2>3. Before(i) \cup {i} \in SUBSET S
    BY <1>5, <2>1
  <2>4. Cardinality(Before(i) \cup {i}) = Cardinality(Before(i)) + 1
    BY <1>4, <2>2, FS_AddElement
  <2>5. Cardinality(Before(i)) + 1 <= Cardinality(S)
    BY <1>2, <2>3, <2>4, FS_Subset
  <2> QED
    BY <1>1, <1>2, <1>4, <1>5, <2>5
<1>6. CASE i \notin S
  <2>1. Cardinality(S) = k
    BY <1>1, <1>6
  <2>2. ASSUME NEW j \in S PROVE j \in Before(i)
    <3>1. j \in Listed /\ rows[j].at \in Int /\ rows[i].at \in Int
      BY <1>1, StampType
    <3>2. rows[j].at >= rows[i].at
      BY <1>1, <1>6
    <3>3. rows[j].at # rows[i].at
      BY <1>6, <3>1 DEF Tied
    <3> QED
      BY <3>1, <3>2, <3>3 DEF Before
  <2>3. S \in SUBSET Before(i)
    BY <2>2
  <2>4. Cardinality(S) <= Cardinality(Before(i))
    BY <1>4, <2>3, FS_Subset
  <2> QED
    BY <1>2, <1>4, <1>6, <2>1, <2>4
<1> QED
  BY <1>5, <1>6

\* A row that is written is new or keeps its stamp.
Placed(i, r) == rows[i] = None \/ (Matches(i) /\ r.at = rows[i].at)

LEMMA UpdatePlaces ==
  ASSUME IndInv, NEW p \in Procs, NEW i \in Ids, NEW e \in Emails \cup {None},
         NEW s \in Statuses \cup {None}, NEW o \in BOOLEAN, NEW l, Update(p, i, e, s, o, l)
  PROVE  Leave \/ \E j \in Ids, r \in Row : Write(j, r) /\ Placed(j, r)
<1>1. CASE Matches(i) /\ Write(i, Updated(rows[i], e, s, o))
  <2>1. rows[i] \in Row
    BY <1>1 DEF IndInv, TypeOK, Matches
  <2>2. Updated(rows[i], e, s, o) \in Row
    BY <2>1, UpdatedType
  <2>3. Updated(rows[i], e, s, o).at = rows[i].at
    BY <2>1 DEF Updated, Row
  <2> QED
    BY <1>1, <2>2, <2>3 DEF Placed
<1> QED
  BY <1>1 DEF Update

\* Every step of a request leaves the table and the walk, or places one row.
LEMMA Places ==
  ASSUME IndInv, Next
  PROVE  \/ WalkStart \/ WalkPage \/ Leave
         \/ \E i \in Ids, r \in Row : Write(i, r) /\ Placed(i, r)
<1> USE PgAssumption
<1> DEFINE Goal == Leave \/ \E i \in Ids, r \in Row : Write(i, r) /\ Placed(i, r)
<1>1. ASSUME NEW p \in Procs, NEW i \in Ids, NEW n \in Usernames, NEW e \in Emails,
             NEW t \in Stamps, Create(p, i, n, e, t)
      PROVE  Goal
  <2>1. CASE Write(i, NewRow(n, e, t))
    <3>1. NewRow(n, e, t) \in Row
      BY NewRowType
    <3>2. rows[i] = None
      BY <1>1 DEF Create
    <3> QED
      BY <2>1, <3>1, <3>2 DEF Placed
  <2> QED
    BY <1>1, <2>1 DEF Create
<1>2. ASSUME NEW p \in Procs, NEW i \in Ids, NEW e \in Emails \cup {None},
             NEW s \in StatusInputs, UpdateUser(p, i, e, s)
      PROVE  Goal
  <2>1. s \in Statuses \cup {None} /\ Update(p, i, e, s, FALSE, "readBack")
    BY <1>2 DEF UpdateUser
  <2> QED
    BY <2>1, UpdatePlaces
<1>3. ASSUME NEW p \in Procs, NEW i \in Ids, NEW o \in BOOLEAN, SetOnline(p, i, o)
      PROVE  Goal
  <2>1. Update(p, i, None, None, o, "idle")
    BY <1>3 DEF SetOnline
  <2> QED
    BY <2>1, UpdatePlaces
<1>4. ASSUME NEW p \in Procs, LoginUpdate(p) PROVE Goal
  <2>1. call[p] \in Ids /\ Update(p, call[p], None, None, TRUE, "idle")
    BY <1>4 DEF LoginUpdate, IndInv, CallInv
  <2> QED
    BY <2>1, UpdatePlaces
<1>5. ASSUME NEW p \in Procs, NEW i \in Ids, Delete(p, i) PROVE Goal
  <2> DEFINE r == [rows[i] EXCEPT !.status = "deleted"]
  <2>1. CASE Matches(i) /\ Write(i, r)
    <3>1. rows[i] \in Row
      BY <2>1 DEF IndInv, TypeOK, Matches
    <3>2. r \in Row
      BY <3>1 DEF Row, Statuses
    <3>3. r.at = rows[i].at
      BY <3>1 DEF Row
    <3> HIDE DEF r
    <3> QED
      BY <2>1, <3>2, <3>3 DEF Placed
  <2> QED
    BY <1>5, <2>1 DEF Delete
<1>6. ASSUME NEW p \in Procs, ReadBack(p) \/ GetUser(p) \/ (\E i \in Ids : LoginSelect(p, i))
      PROVE  Goal
  BY <1>6 DEF ReadBack, GetUser, Select, LoginSelect
<1> QED
  BY <1>1, <1>2, <1>3, <1>4, <1>5, <1>6 DEF Next

\* A row that is placed moves nobody to an earlier position and unties nobody, unless it
\* is deleted.
LEMMA WriteKeeps ==
  ASSUME PagingInv, NEW i \in Ids, NEW r \in Row, Write(i, r), Placed(i, r)
  PROVE  TableInv' /\ WalkInv'
<1>0. /\ rows \in [Ids -> Row \cup {None}] /\ TableInv /\ WalkInv
      /\ walk \in [state : {"none", "walking", "done"}, offset : Nat,
                   seen : SUBSET Ids, kept : SUBSET Ids, calm : BOOLEAN]
  BY DEF PagingInv, IndInv, TypeOK
<1>1. r # None
  BY PgAssumption
<1>2. rows'[i] = r /\ \A j \in Ids : j # i => rows'[j] = rows[j]
  BY <1>0 DEF Write
<1>3. \A j \in Ids : rows[j] # None => rows'[j] # None /\ rows'[j].at = rows[j].at
  BY <1>1, <1>2 DEF Placed, Matches
<1>5. TableInv'
  <2> DEFINE S == {j \in Ids : rows[j] # None}
             S1 == {j \in Ids : rows'[j] # None}
  <2>1. S1 \in SUBSET (S \cup {i})
    BY <1>1, <1>2
  <2>2. IsFiniteSet(S)
    BY <1>0 DEF TableInv
  <2> HIDE DEF S, S1
  <2>3. IsFiniteSet(S \cup {i})
    BY <2>2, FS_AddElement
  <2>4. IsFiniteSet(S1)
    BY <2>1, <2>3, FS_Subset
  <2> QED
    BY <2>4 DEF TableInv, S1
<1>6. /\ walk'.state = walk.state /\ walk'.offset = walk.offset
      /\ walk'.seen = walk.seen /\ walk'.kept = walk.kept
      /\ walk'.calm = (walk.calm /\ ~(Matches(i) /\ r.status = "deleted"))
  BY <1>0 DEF Write
<1>7. ASSUME walk.state # "none", walk'.calm, NEW j \in walk.kept
      PROVE  /\ Matches(j)'
             /\ \/ j \in walk.seen \/ Tied(j)'
                \/ walk.state = "walking" /\ walk.offset <= Cardinality(Before(j)')
  <2>1. walk.calm /\ ~(Matches(i) /\ r.status = "deleted")
    BY <1>6, <1>7
  <2>2. \A k \in Ids : Matches(k) => Matches(k)'
    BY <1>1, <1>2, <2>1 DEF Matches
  <2>3. /\ j \in Ids /\ Matches(j)
        /\ \/ j \in walk.seen \/ Tied(j)
           \/ walk.state = "walking" /\ walk.offset <= Cardinality(Before(j))
    BY <1>0, <1>7, <2>1 DEF WalkInv
  <2>4. Before(j) \in SUBSET Before(j)'
    BY <1>3, <2>2, <2>3 DEF Before, Listed, Matches
  <2>5. IsFiniteSet(Before(j)')
    <3>1. Before(j)' \in SUBSET {k \in Ids : rows'[k] # None}
      BY DEF Before, Listed, Matches
    <3> QED
      BY <1>5, <3>1, FS_Subset DEF TableInv
  <2>6. /\ Cardinality(Before(j)) <= Cardinality(Before(j)')
        /\ Cardinality(Before(j)) \in Nat /\ Cardinality(Before(j)') \in Nat
    BY <1>0, <2>3, <2>4, <2>5, BeforeFinite, FS_Subset, FS_CardinalityType
  <2>7. walk.offset \in Nat
    BY <1>0
  <2>8. Tied(j) => Tied(j)'
    BY <1>3, <2>2, <2>3 DEF Tied, Listed, Matches
  <2> QED
    BY <2>2, <2>3, <2>6, <2>7, <2>8
<1> QED
  BY <1>5, <1>6, <1>7 DEF WalkInv

\* A page takes what is at its positions; an empty one means that nothing is left.
LEMMA WalkPageKeeps ==
  ASSUME PagingInv, WalkPage
  PROVE  WalkInv'
<1>0. /\ TypeOK /\ TableInv /\ WalkInv /\ walk.state = "walking" /\ rows' = rows
      /\ walk \in [state : {"none", "walking", "done"}, offset : Nat,
                   seen : SUBSET Ids, kept : SUBSET Ids, calm : BOOLEAN]
  BY DEF PagingInv, IndInv, TypeOK, WalkPage
<1>1. PageSize \in Nat /\ PageSize > 0 /\ walk.offset \in Nat /\ walk.offset + PageSize \in Nat
  BY <1>0, PgAssumption
<1>2. PICK before \in First(walk.offset), upto \in First(walk.offset + PageSize) :
         before \subseteq upto /\ Turn(upto \ before)
  BY DEF WalkPage
<1> DEFINE page == upto \ before
<1>3. /\ walk'.seen = walk.seen \cup page /\ walk'.kept = walk.kept /\ walk'.calm = walk.calm
      /\ walk'.offset = IF page = {} THEN walk.offset ELSE walk.offset + PageSize
      /\ walk'.state = IF page = {} THEN "done" ELSE "walking"
  <2> HIDE DEF page
  <2>1. walk' = [walk EXCEPT !.seen = @ \cup page,
                             !.offset = IF page = {} THEN @ ELSE @ + PageSize,
                             !.state = IF page = {} THEN "done" ELSE @]
    BY <1>2 DEF Turn, page
  <2> QED
    BY <1>0, <2>1
<1>4. ASSUME walk.calm, NEW i \in walk.kept
      PROVE  /\ Matches(i)
             /\ \/ i \in walk.seen \cup page \/ Tied(i)
                \/ page # {} /\ walk.offset + PageSize <= Cardinality(Before(i))
  <2>1. /\ i \in Listed /\ Matches(i) /\ Cardinality(Before(i)) \in Nat
        /\ i \in walk.seen \/ Tied(i) \/ walk.offset <= Cardinality(Before(i))
    BY <1>0, <1>4, BeforeFinite DEF WalkInv, Listed
  <2>2. SUFFICES ASSUME i \notin walk.seen, ~Tied(i), i \notin page
                 PROVE  page # {} /\ walk.offset + PageSize <= Cardinality(Before(i))
    BY <2>1
  <2>3. walk.offset <= Cardinality(Before(i))
    BY <2>1, <2>2
  <2>4. /\ i \in before <=> Cardinality(Before(i)) < walk.offset
        /\ IsFiniteSet(before) /\ Cardinality(before) \in Nat
    BY <1>0, <1>1, <1>2, <2>1, <2>2, HeadHas
  <2>5. /\ i \in upto <=> Cardinality(Before(i)) < walk.offset + PageSize
        /\ i \notin upto => Cardinality(upto) = walk.offset + PageSize
    BY <1>0, <1>1, <1>2, <2>1, <2>2, HeadHas
  <2>6. i \notin before
    BY <1>1, <2>1, <2>3, <2>4
  <2>7. i \notin upto
    BY <2>2, <2>6
  <2>8. walk.offset + PageSize <= Cardinality(Before(i))
    BY <1>1, <2>1, <2>5, <2>7
  <2>9. ASSUME page = {} PROVE FALSE
    <3>1. upto = before
      BY <1>2, <2>9
    <3>2. Cardinality(before) <= walk.offset
      BY DEF First
    <3> QED
      BY <1>1, <2>4, <2>5, <2>7, <3>1, <3>2
  <2> QED
    BY <2>8, <2>9
<1>5. \A i \in Ids : (Matches(i)' <=> Matches(i)) /\ Before(i)' = Before(i) /\ (Tied(i)' <=> Tied(i))
  BY <1>0 DEF Matches, Before, Listed, Tied
<1>6. walk.kept \subseteq Ids
  BY <1>0
<1> HIDE DEF page
<1> QED
  BY <1>3, <1>4, <1>5, <1>6 DEF WalkInv

LEMMA WalkStartKeeps ==
  ASSUME PagingInv, WalkStart
  PROVE  WalkInv'
<1>1. /\ rows' = rows /\ TableInv
      /\ walk' = [NoWalk EXCEPT !.state = "walking", !.kept = Listed]
  BY DEF WalkStart, PagingInv
<1>2. walk'.state = "walking" /\ walk'.kept = Listed /\ walk'.offset = 0
  BY <1>1 DEF NoWalk
<1>3. \A i \in Listed : Matches(i)' /\ 0 <= Cardinality(Before(i)')
  <2> SUFFICES ASSUME NEW i \in Listed PROVE Matches(i)' /\ 0 <= Cardinality(Before(i)')
    OBVIOUS
  <2>1. i \in Ids /\ Matches(i)' /\ Before(i)' = Before(i)
    BY <1>1 DEF Matches, Before, Listed
  <2>2. Cardinality(Before(i)) \in Nat
    BY <1>1, <2>1, BeforeFinite
  <2> QED
    BY <2>1, <2>2
<1> QED
  BY <1>2, <1>3 DEF WalkInv

LEMMA PagingInit == Init => PagingInv
<1> SUFFICES ASSUME Init PROVE PagingInv
  OBVIOUS
<1>1. IndInv
  BY IndInvInit
<1>2. \A i \in Ids : i # AdminId => rows[i] = None
  BY DEF Init
<1>3. TableInv
  <2>1. {i \in Ids : rows[i] # None} \in SUBSET {AdminId}
    BY <1>2
  <2> QED
    BY <2>1, FS_Singleton, FS_Subset DEF TableInv
<1>4. walk.state = "none"
  BY DEF Init, NoWalk
<1> QED
  BY <1>1, <1>3, <1>4 DEF PagingInv, WalkInv

LEMMA PagingStep == PagingInv /\ [Next]_vars => PagingInv'
<1> SUFFICES ASSUME PagingInv, [Next]_vars PROVE PagingInv'
  OBVIOUS
<1>1. IndInv' /\ IndInv
  BY IndInvStep DEF PagingInv
<1>2. ASSUME rows' = rows, walk' = walk PROVE TableInv' /\ WalkInv'
  BY <1>2 DEF PagingInv, TableInv, WalkInv, Tied, Listed, Matches, Before
<1>3. ASSUME rows' = rows PROVE TableInv'
  BY <1>3 DEF PagingInv, TableInv
<1>4. CASE WalkStart \/ WalkPage
  <2>1. rows' = rows
    BY <1>4 DEF WalkStart, WalkPage
  <2> QED
    BY <1>1, <1>3, <1>4, <2>1, WalkStartKeeps, WalkPageKeeps DEF PagingInv
<1>5. CASE UNCHANGED vars \/ Leave
  BY <1>1, <1>2, <1>5 DEF vars, Leave, PagingInv
<1>6. CASE \E i \in Ids, r \in Row : Write(i, r) /\ Placed(i, r)
  BY <1>1, <1>6, WriteKeeps DEF PagingInv
<1> QED
  BY <1>1, <1>4, <1>5, <1>6, Places

\* For any number of rows, any page size, any stamps and any interleaving with creations
\* and updates: a client that pages to the end with LIMIT and OFFSET (pg_store.go:108) has
\* seen every user that was there when it began, unless a user was deleted meanwhile or
\* the user shares its created_at with another, which the query may then put anywhere
\* among its equals.
THEOREM WalkComplete == Spec => []WalkLosesNothing
<1>1. PagingInv => WalkLosesNothing
  BY DEF PagingInv, WalkInv, WalkLosesNothing
<1> QED
  BY <1>1, PagingInit, PagingStep, PTL DEF Spec
=============================================================================
