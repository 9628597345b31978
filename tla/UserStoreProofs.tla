-------------------------- MODULE UserStoreProofs ---------------------------
(***************************************************************************)
(* Theorems about UserStore, for every set of goroutines, ids, usernames   *)
(* and emails and every workload: first for requests that overlap in any   *)
(* way, then for clients that serialise the requests on one user.  The     *)
(* last part is about Session: the front ends keep the inductive invariant *)
(* of the store, because all they do to it is UserStore's own steps.        *)
(***************************************************************************)
EXTENDS Session, TLAPS

Creating(p) == pc[p] \in {"reserveName", "reserveEmail", "undoName", "storeNew"}

Holding(p) == pc[p] \in {"reserveEmail", "undoName", "storeNew"}

\* A creating goroutine owns a fresh id, and its name once it has reserved it.
CreatorInv(p) ==
    /\ Creating(p) => /\ call[p].op = "CreateUser"
                      /\ call[p].id \in issued
                      /\ users[call[p].id] = None
                      /\ call[p].username \in Usernames
                      /\ call[p].email \in Emails
    /\ Holding(p) => byUsername[call[p].username] = call[p].id

\* A goroutine that has loaded a record works on a record of the same name.
UpdaterInv(p) ==
    /\ pc[p] \in {"load", "read", "loadDelete"} => call[p].id \in Ids
    /\ pc[p] = "loadDelete" => call[p].op # "Login"
    /\ pc[p] = "claimEmail" => call[p].email \in Emails
    /\ Loaded(p) => /\ call[p].id \in Ids
                    /\ call[p].seen \in User
                    /\ users[call[p].id] # None
                    /\ users[call[p].id].username = call[p].seen.username

\* The id a login has looked up is one whose record, now or once its creator has
\* stored it, carries the username of the login.
LoginInv(p) ==
    /\ pc[p] \in {"findName", "findUser"} => call[p].username \in Usernames
    /\ pc[p] = "findUser" =>
          /\ call[p].id \in issued
          /\ users[call[p].id] # None => users[call[p].id].username = call[p].username
          /\ \A q \in Procs : Creating(q) /\ call[q].id = call[p].id
                                 => call[q].username = call[p].username
    /\ call[p].op = "Login" /\ (pc[p] = "load" \/ Loaded(p)) =>
          /\ call[p].id \in Ids
          /\ users[call[p].id] # None
          /\ users[call[p].id].username = call[p].username

FrameInv == \A p \in Procs : CreatorInv(p) /\ UpdaterInv(p) /\ LoginInv(p)

\* No two goroutines create the same id, and records have ids that were drawn.
FreshInv ==
    /\ \A p, q \in Procs : Creating(p) /\ Creating(q) /\ call[p].id = call[q].id => p = q
    /\ \A i \in Ids : users[i] # None => i \in issued

IndInv == TypeOK /\ FrameInv /\ FreshInv /\ UsernameIndexExact

USE DEF Statuses, AllOps, Labels, Replies

LEMMA InitIndInv == Init => IndInv
  <1> SUFFICES ASSUME Init PROVE IndInv
    OBVIOUS
  <1> USE AdminAssumption, NoneAssumption DEF Init, NewUser, NoCall
  <1>a. NewUser(AdminName, AdminEmail) \in User
    BY DEF User
  <1>1. TypeOK
    BY <1>a DEF TypeOK, Call
  <1>2. FrameInv
    BY DEF FrameInv, CreatorInv, UpdaterInv, LoginInv, Creating, Holding, Loaded
  <1>3. FreshInv
    BY DEF FreshInv, Creating
  <1>4. UsernameIndexExact
    BY <1>a DEF UsernameIndexExact
  <1> QED
    BY <1>1, <1>2, <1>3, <1>4 DEF IndInv

-----------------------------------------------------------------------------
(* How a step of one goroutine looks to the others.                         *)

\* Goroutine p goes to label l with frame c, and every other one stays put.
Moves(p, l, c) ==
    /\ pc' = [pc EXCEPT ![p] = l]
    /\ call' = [call EXCEPT ![p] = c]

LEMMA MovesFacts ==
    ASSUME TypeOK, NEW p \in Procs, NEW l \in Labels, NEW c \in Call, Moves(p, l, c)
    PROVE  /\ pc' \in [Procs -> Labels]
           /\ call' \in [Procs -> Call]
           /\ pc'[p] = l
           /\ call'[p] = c
           /\ \A q \in Procs : q # p => pc'[q] = pc[q] /\ call'[q] = call[q]
  <1>1. pc \in [Procs -> Labels] /\ call \in [Procs -> Call]
    BY DEF TypeOK
  <1> QED
    BY <1>1 DEF Moves

\* No record appears, disappears or changes its username.
SameNames ==
    \A i \in Ids : /\ users[i] = None <=> users'[i] = None
                   /\ users[i] # None => users'[i].username = users[i].username

\* A step of p that leaves names, index and fresh ids alone preserves IndInv if it
\* leaves p itself in a good frame and keeps p's reservation.
LEMMA QuietPreserves ==
    ASSUME IndInv, TypeOK', NEW p \in Procs,
           issued' = issued, byUsername' = byUsername, SameNames,
           \A q \in Procs : q # p => pc'[q] = pc[q] /\ call'[q] = call[q],
           (CreatorInv(p) /\ UpdaterInv(p) /\ LoginInv(p))',
           Creating(p)' => Creating(p) /\ call'[p] = call[p],
           Holding(p) => Holding(p)'
    PROVE  IndInv'
  <1>1. ASSUME NEW q \in Procs, q # p
        PROVE  (CreatorInv(q) /\ UpdaterInv(q) /\ LoginInv(q))'
    <2>0. CreatorInv(q) /\ UpdaterInv(q) /\ LoginInv(q) /\ issued \subseteq Ids
      BY DEF IndInv, FrameInv, TypeOK
    <2>1. pc'[q] = pc[q] /\ call'[q] = call[q]
      BY <1>1
    <2>2. CreatorInv(q)'
      BY <2>0, <2>1 DEF CreatorInv, Creating, Holding, SameNames
    <2>3. UpdaterInv(q)'
      BY <2>0, <2>1 DEF UpdaterInv, Loaded, SameNames
    <2>4. \A r \in Procs : Creating(r)' => Creating(r) /\ call'[r] = call[r]
      BY DEF Creating
    <2>5. LoginInv(q)'
      BY <2>0, <2>1, <2>4 DEF LoginInv, Loaded, SameNames
    <2> QED
      BY <2>2, <2>3, <2>5
  <1>2. FrameInv'
    BY <1>1 DEF FrameInv
  <1>3. FreshInv'
    BY DEF IndInv, FreshInv, Creating, SameNames
  <1>4. UsernameIndexExact'
    <2>1. \A r \in Procs : HoldsName(r) => HoldsName(r)' /\ call'[r] = call[r]
      BY <1>2 DEF HoldsName, Holding, Creating, FrameInv, CreatorInv
    <2>2. UsernameIndexExact /\ byUsername \in [Usernames -> Ids \cup {None}]
      BY DEF IndInv, TypeOK
    <2>3. ASSUME NEW n \in Usernames, byUsername[n] # None
          PROVE  \/ users'[byUsername[n]] # None /\ users'[byUsername[n]].username = n
                 \/ \E r \in Procs : /\ HoldsName(r)'
                                     /\ call'[r].username = n
                                     /\ call'[r].id = byUsername[n]
      <3>1. byUsername[n] \in Ids
        BY <2>2, <2>3
      <3> QED
        BY <2>1, <2>2, <2>3, <3>1 DEF UsernameIndexExact, SameNames
    <2>4. \A i \in Ids : users'[i] # None => byUsername[users'[i].username] = i
      BY <2>2 DEF UsernameIndexExact, SameNames
    <2> QED
      BY <2>3, <2>4 DEF UsernameIndexExact
  <1> QED
    BY <1>2, <1>3, <1>4 DEF IndInv

LEMMA NoCallType == NoCall \in Call
  BY DEF NoCall, Call

\* A request that creates nothing starts in a good frame.
LEMMA StartPreserves ==
    ASSUME IndInv, NEW p \in Procs, NEW c \in Call, NEW l \in Labels,
           Start(p, c, l), issued' = issued,
           \/ l \in {"load", "read", "loadDelete"} /\ c.id \in Ids /\ c.op # "Login"
           \/ l = "findName" /\ c.username \in Usernames
    PROVE  IndInv'
  <1>0. pc[p] = "idle" /\ UNCHANGED store /\ reply' = None /\ Moves(p, l, c)
    BY DEF Start, Moves
  <1>1. /\ pc' \in [Procs -> Labels] /\ call' \in [Procs -> Call]
        /\ pc'[p] = l /\ call'[p] = c
        /\ \A q \in Procs : q # p => pc'[q] = pc[q] /\ call'[q] = call[q]
    BY <1>0, MovesFacts DEF IndInv
  <1>2. TypeOK'
    BY <1>0, <1>1 DEF IndInv, TypeOK, store
  <1>3. (CreatorInv(p) /\ UpdaterInv(p) /\ LoginInv(p))' /\ ~Creating(p)'
    BY <1>1 DEF CreatorInv, UpdaterInv, LoginInv, Creating, Holding, Loaded
  <1>4. SameNames /\ byUsername' = byUsername
    BY <1>0 DEF SameNames, store
  <1>5. ~Holding(p)
    BY <1>0 DEF Holding
  <1> QED
    BY <1>1, <1>2, <1>3, <1>4, <1>5, QuietPreserves

\* Answering preserves IndInv, unless a reservation would be lost.
LEMMA FinishPreserves ==
    ASSUME IndInv, NEW p \in Procs, NEW r \in Replies, Finish(p, r), ~Holding(p),
           users' \in [Ids -> User \cup {None}], byEmail' \in [Emails -> Ids \cup {None}],
           byUsername' = byUsername, SameNames
    PROVE  IndInv'
  <1>0. issued' = issued /\ reply' = <<p, r>> /\ Moves(p, "idle", NoCall)
    BY DEF Finish, Moves
  <1>1. /\ pc' \in [Procs -> Labels] /\ call' \in [Procs -> Call]
        /\ pc'[p] = "idle" /\ call'[p] = NoCall
        /\ \A q \in Procs : q # p => pc'[q] = pc[q] /\ call'[q] = call[q]
    BY <1>0, MovesFacts, NoCallType DEF IndInv
  <1>2. TypeOK'
    BY <1>0, <1>1 DEF IndInv, TypeOK
  <1>3. (CreatorInv(p) /\ UpdaterInv(p) /\ LoginInv(p))' /\ ~Creating(p)'
    BY <1>1 DEF CreatorInv, UpdaterInv, LoginInv, Creating, Holding, Loaded
  <1> QED
    BY <1>0, <1>1, <1>2, <1>3, QuietPreserves

\* So does going on to a label whose frame is good.
LEMMA GotoPreserves ==
    ASSUME IndInv, NEW p \in Procs, NEW l \in Labels, NEW c \in Call, GotoWith(p, l, c),
           users' \in [Ids -> User \cup {None}], byEmail' \in [Emails -> Ids \cup {None}],
           byUsername' = byUsername, SameNames,
           pc'[p] = l /\ call'[p] = c => (CreatorInv(p) /\ UpdaterInv(p) /\ LoginInv(p))',
           \/ ~Holding(p) /\ l \notin {"reserveName", "reserveEmail", "undoName", "storeNew"}
           \/ Holding(p) /\ l \in {"reserveEmail", "undoName", "storeNew"} /\ c = call[p]
    PROVE  IndInv'
  <1>0. issued' = issued /\ reply' = None /\ Moves(p, l, c)
    BY DEF GotoWith, Moves
  <1>1. /\ pc' \in [Procs -> Labels] /\ call' \in [Procs -> Call]
        /\ pc'[p] = l /\ call'[p] = c
        /\ \A q \in Procs : q # p => pc'[q] = pc[q] /\ call'[q] = call[q]
    BY <1>0, MovesFacts DEF IndInv
  <1>2. TypeOK'
    BY <1>0, <1>1 DEF IndInv, TypeOK
  <1>3. Creating(p)' => Creating(p) /\ call'[p] = call[p]
    BY <1>1 DEF Creating, Holding
  <1>4. Holding(p) => Holding(p)'
    BY <1>1 DEF Holding
  <1> QED
    BY <1>0, <1>1, <1>2, <1>3, <1>4, QuietPreserves

LEMMA RecordType ==
    ASSUME TypeOK, NEW i \in Ids, users[i] # None
    PROVE  users[i] \in User /\ users[i].username \in Usernames
  <1>1. users[i] \in User
    BY DEF TypeOK
  <1> QED
    BY <1>1 DEF User

LEMMA ReadOnlyFacts ==
    ASSUME IndInv, UNCHANGED users, UNCHANGED byUsername
    PROVE  users' \in [Ids -> User \cup {None}] /\ byUsername' = byUsername /\ SameNames
  BY DEF IndInv, TypeOK, SameNames

-----------------------------------------------------------------------------
(* The requests.                                                             *)

LEMMA CreateUserPreserves ==
    ASSUME IndInv, NEW p \in Procs, NEW n \in Usernames, NEW e \in Emails, NEW i \in Ids,
           CreateUser(p, n, e, i)
    PROVE  IndInv'
  <1> DEFINE c == [NoCall EXCEPT !.op = "CreateUser", !.id = i, !.username = n, !.email = e]
  <1>0. /\ pc[p] = "idle" /\ i \notin issued /\ issued' = issued \cup {i}
        /\ UNCHANGED store /\ reply' = None /\ Moves(p, "reserveName", c)
    BY DEF CreateUser, Start, Moves
  <1>c. /\ c \in Call /\ c.op = "CreateUser" /\ c.id = i /\ c.username = n /\ c.email = e
    BY DEF Call, NoCall
  <1> HIDE DEF c
  <1>1. /\ pc' \in [Procs -> Labels] /\ call' \in [Procs -> Call]
        /\ pc'[p] = "reserveName" /\ call'[p] = c
        /\ \A q \in Procs : q # p => pc'[q] = pc[q] /\ call'[q] = call[q]
    BY <1>0, <1>c, MovesFacts DEF IndInv
  <1>2. TypeOK'
    BY <1>0, <1>1 DEF IndInv, TypeOK, store
  <1>3. users[i] = None /\ users' = users /\ byUsername' = byUsername
    BY <1>0 DEF IndInv, FreshInv, store
  <1>4. ASSUME NEW q \in Procs
        PROVE  (CreatorInv(q) /\ UpdaterInv(q) /\ LoginInv(q))'
    <2>1. CASE q = p
      BY <2>1, <1>0, <1>1, <1>3, <1>c
         DEF CreatorInv, UpdaterInv, LoginInv, Creating, Holding, Loaded
    <2>2. CASE q # p
      <3>1. CreatorInv(q) /\ UpdaterInv(q) /\ LoginInv(q) /\ pc'[q] = pc[q] /\ call'[q] = call[q]
        BY <2>2, <1>1 DEF IndInv, FrameInv
      <3>2. CreatorInv(q)'
        BY <3>1, <1>0, <1>3 DEF CreatorInv, Creating, Holding
      <3>3. UpdaterInv(q)'
        BY <3>1, <1>3 DEF UpdaterInv, Loaded
      <3>4. ASSUME NEW r \in Procs, Creating(r)', pc[q] = "findUser",
                   call'[r].id = call[q].id
            PROVE  call'[r].username = call[q].username
        <4>1. call[q].id # i
          BY <3>1, <3>4, <1>0 DEF LoginInv
        <4>2. r # p
          BY <4>1, <1>1, <1>c, <3>4
        <4> QED
          BY <4>2, <1>1, <3>1, <3>4 DEF LoginInv, Creating
      <3>5. LoginInv(q)'
        BY <3>1, <3>4, <1>0, <1>3 DEF LoginInv, Loaded
      <3> QED
        BY <3>2, <3>3, <3>5
    <2> QED
      BY <2>1, <2>2
  <1>5. FreshInv'
    <2>1. ASSUME NEW q \in Procs, Creating(q), q # p PROVE call[q].id # i
      BY <2>1, <1>0 DEF IndInv, FrameInv, CreatorInv
    <2> QED
      BY <2>1, <1>0, <1>1, <1>3, <1>c DEF IndInv, FreshInv, Creating
  <1>6. UsernameIndexExact'
    <2>1. ASSUME NEW q \in Procs, HoldsName(q)
          PROVE  HoldsName(q)' /\ call'[q] = call[q]
      BY <2>1, <1>0, <1>1 DEF HoldsName
    <2> QED
      BY <2>1, <1>3 DEF IndInv, UsernameIndexExact
  <1> QED
    BY <1>2, <1>4, <1>5, <1>6 DEF IndInv, FrameInv

LEMMA UpdateUserPreserves ==
    ASSUME IndInv, NEW p \in Procs, NEW i \in Ids, NEW e \in Emails \cup {None},
           NEW s \in StatusInputs, UpdateUser(p, i, e, s)
    PROVE  IndInv'
  <1> DEFINE c == [NoCall EXCEPT !.op = "UpdateUser", !.id = i, !.email = e, !.status = s]
  <1>1. c \in Call /\ c.id \in Ids /\ c.op # "Login"
    BY WorkloadAssumption DEF Call, NoCall
  <1>2. Start(p, c, "load") /\ issued' = issued
    BY DEF UpdateUser
  <1> QED
    BY <1>1, <1>2, StartPreserves

LEMMA SetOnlinePreserves ==
    ASSUME IndInv, NEW p \in Procs, NEW i \in Ids, NEW o \in BOOLEAN, SetOnline(p, i, o)
    PROVE  IndInv'
  <1> DEFINE c == [NoCall EXCEPT !.op = "SetOnline", !.id = i, !.online = o]
  <1>1. c \in Call /\ c.id \in Ids /\ c.op # "Login"
    BY DEF Call, NoCall
  <1>2. Start(p, c, "load") /\ issued' = issued
    BY DEF SetOnline
  <1> QED
    BY <1>1, <1>2, StartPreserves

LEMMA DeleteUserPreserves ==
    ASSUME IndInv, NEW p \in Procs, NEW i \in Ids, DeleteUser(p, i)
    PROVE  IndInv'
  <1> DEFINE c == [NoCall EXCEPT !.op = "DeleteUser", !.id = i, !.status = "deleted"]
  <1>1. c \in Call /\ c.id \in Ids /\ c.op # "Login"
    BY DEF Call, NoCall
  <1>2. Start(p, c, "loadDelete") /\ issued' = issued
    BY DEF DeleteUser
  <1> QED
    BY <1>1, <1>2, StartPreserves

LEMMA GetUserPreserves ==
    ASSUME IndInv, NEW p \in Procs, NEW i \in Ids, GetUser(p, i)
    PROVE  IndInv'
  <1> DEFINE c == [NoCall EXCEPT !.op = "GetUser", !.id = i]
  <1>1. c \in Call /\ c.id \in Ids /\ c.op # "Login"
    BY DEF Call, NoCall
  <1>2. Start(p, c, "read") /\ issued' = issued
    BY DEF GetUser
  <1> QED
    BY <1>1, <1>2, StartPreserves

LEMMA LoginPreserves ==
    ASSUME IndInv, NEW p \in Procs, NEW n \in Usernames, Login(p, n)
    PROVE  IndInv'
  <1> DEFINE c == [NoCall EXCEPT !.op = "Login", !.username = n, !.online = TRUE]
  <1>1. c \in Call /\ c.username \in Usernames
    BY DEF Call, NoCall
  <1>2. Start(p, c, "findName") /\ issued' = issued
    BY DEF Login
  <1> QED
    BY <1>1, <1>2, StartPreserves

LEMMA AuthPreserves ==
    ASSUME IndInv, NEW p \in Procs, NEW n \in Usernames, Auth(p, n)
    PROVE  IndInv'
  <1> DEFINE c == [NoCall EXCEPT !.op = "Auth", !.username = n]
  <1>1. c \in Call /\ c.username \in Usernames
    BY DEF Call, NoCall
  <1>2. Start(p, c, "findName") /\ issued' = issued
    BY DEF Auth
  <1> QED
    BY <1>1, <1>2, StartPreserves

-----------------------------------------------------------------------------
(* The steps of Create.                                                     *)

LEMMA ReserveNamePreserves ==
    ASSUME IndInv, NEW p \in Procs, ReserveName(p)
    PROVE  IndInv'
  <1> DEFINE n == call[p].username
             i == call[p].id
  <1>0. /\ pc[p] = "reserveName" /\ users' = users /\ byEmail' = byEmail
        /\ TypeOK /\ CreatorInv(p)
    BY DEF ReserveName, IndInv, FrameInv
  <1>1. CASE byUsername[n] # None /\ Finish(p, "already exists") /\ UNCHANGED byUsername
    <2>1. users' \in [Ids -> User \cup {None}] /\ byUsername' = byUsername /\ SameNames
      BY <1>0, <1>1, ReadOnlyFacts
    <2>2. ~Holding(p) /\ byEmail' \in [Emails -> Ids \cup {None}]
      BY <1>0 DEF Holding, TypeOK
    <2> QED
      BY <1>1, <2>1, <2>2, FinishPreserves
  <1>2. CASE /\ byUsername[n] = None
             /\ byUsername' = [byUsername EXCEPT ![n] = i]
             /\ Goto(p, "reserveEmail")
    <2>0. /\ n \in Usernames /\ i \in issued /\ i \in Ids /\ users[i] = None
          /\ call[p].op = "CreateUser" /\ call[p].email \in Emails
      BY <1>0 DEF CreatorInv, Creating, TypeOK
    <2>1. issued' = issued /\ reply' = None /\ Moves(p, "reserveEmail", call[p])
      BY <1>2 DEF Goto, GotoWith, Moves
    <2>2. /\ pc' \in [Procs -> Labels] /\ call' \in [Procs -> Call]
          /\ pc'[p] = "reserveEmail" /\ call'[p] = call[p]
          /\ \A q \in Procs : q # p => pc'[q] = pc[q] /\ call'[q] = call[q]
      <3>1. call[p] \in Call
        BY <1>0 DEF TypeOK
      <3> QED
        BY <1>0, <2>1, <3>1, MovesFacts
    <2>3. TypeOK'
      BY <1>0, <1>2, <2>0, <2>1, <2>2 DEF TypeOK
    <2>4. /\ byUsername'[n] = i
          /\ \A m \in Usernames : m # n => byUsername'[m] = byUsername[m]
      BY <1>0, <1>2, <2>0 DEF TypeOK
    <2>5. \A q \in Procs : Creating(q)' <=> Creating(q)
      BY <1>0, <2>2 DEF Creating
    <2>6. ASSUME NEW q \in Procs
          PROVE  (CreatorInv(q) /\ UpdaterInv(q) /\ LoginInv(q))'
      <3>0. CreatorInv(q) /\ UpdaterInv(q) /\ LoginInv(q)
        BY DEF IndInv, FrameInv
      <3>1. CASE q = p
        BY <3>1, <1>0, <2>0, <2>1, <2>2, <2>4
           DEF CreatorInv, UpdaterInv, LoginInv, Creating, Holding, Loaded
      <3>2. CASE q # p
        <4>1. pc'[q] = pc[q] /\ call'[q] = call[q]
          BY <3>2, <2>2
        <4>2. Holding(q) => byUsername'[call[q].username] = call[q].id
          BY <3>0, <1>2, <2>0, <2>4, NoneAssumption, <1>0
             DEF CreatorInv, Holding, Creating, TypeOK
        <4>3. CreatorInv(q)'
          BY <3>0, <4>1, <4>2, <1>0, <2>1 DEF CreatorInv, Creating, Holding
        <4>4. UpdaterInv(q)'
          BY <3>0, <4>1, <1>0 DEF UpdaterInv, Loaded
        <4>5. LoginInv(q)'
          BY <3>0, <4>1, <1>0, <2>1, <2>2, <2>5 DEF LoginInv, Loaded
        <4> QED
          BY <4>3, <4>4, <4>5
      <3> QED
        BY <3>1, <3>2
    <2>7. FreshInv'
      BY <1>0, <2>1, <2>2, <2>5 DEF IndInv, FreshInv
    <2>8. UsernameIndexExact'
      <3>1. UsernameIndexExact
        BY DEF IndInv
      <3>2. \A q \in Procs : HoldsName(q) => HoldsName(q)' /\ call'[q] = call[q]
        BY <1>0, <2>2 DEF HoldsName
      <3>3. HoldsName(p)'
        BY <2>0, <2>2 DEF HoldsName
      <3>4. ASSUME NEW j \in Ids, users[j] # None
            PROVE  byUsername'[users[j].username] = j
        <4>1. byUsername[users[j].username] = j /\ users[j].username \in Usernames
          BY <3>1, <3>4, <1>0, RecordType DEF UsernameIndexExact
        <4> QED
          BY <4>1, <1>2, <2>4, NoneAssumption
      <3>5. ASSUME NEW m \in Usernames, byUsername'[m] # None
            PROVE  \/ users[byUsername'[m]] # None /\ users[byUsername'[m]].username = m
                   \/ \E q \in Procs : /\ HoldsName(q)'
                                       /\ call'[q].username = m
                                       /\ call'[q].id = byUsername'[m]
        <4>1. CASE m = n
          BY <4>1, <3>3, <2>2, <2>4
        <4>2. CASE m # n
          BY <4>2, <3>1, <3>2, <3>5, <2>4 DEF UsernameIndexExact
        <4> QED
          BY <4>1, <4>2
      <3> QED
        BY <1>0, <3>4, <3>5 DEF UsernameIndexExact
    <2> QED
      BY <2>3, <2>6, <2>7, <2>8 DEF IndInv, FrameInv
  <1> QED
    BY <1>1, <1>2 DEF ReserveName

LEMMA ReserveEmailPreserves ==
    ASSUME IndInv, NEW p \in Procs, ReserveEmail(p)
    PROVE  IndInv'
  <1>0. /\ pc[p] = "reserveEmail" /\ users' = users /\ byUsername' = byUsername
        /\ TypeOK /\ CreatorInv(p) /\ call[p] \in Call
    BY DEF ReserveEmail, IndInv, FrameInv, TypeOK
  <1>1. PICK l \in {"undoName", "storeNew"} : GotoWith(p, l, call[p])
    BY DEF ReserveEmail, Goto
  <1>2. /\ users' \in [Ids -> User \cup {None}] /\ SameNames
        /\ issued' = issued
    BY <1>0, <1>1, ReadOnlyFacts DEF GotoWith
  <1>3. byEmail' \in [Emails -> Ids \cup {None}]
    <2>1. call[p].id \in Ids
      BY <1>0 DEF CreatorInv, Creating, TypeOK
    <2> QED
      BY <1>0, <2>1 DEF ReserveEmail, TypeOK
  <1>4. Holding(p)
    BY <1>0 DEF Holding
  <1>5. pc'[p] = l /\ call'[p] = call[p]
          => (CreatorInv(p) /\ UpdaterInv(p) /\ LoginInv(p))'
    BY <1>0, <1>2
       DEF CreatorInv, UpdaterInv, LoginInv, Creating, Holding, Loaded
  <1> QED
    BY <1>0, <1>1, <1>2, <1>3, <1>4, <1>5, GotoPreserves

LEMMA UndoNamePreserves ==
    ASSUME IndInv, NEW p \in Procs, UndoName(p)
    PROVE  IndInv'
  <1> DEFINE n == call[p].username
             i == call[p].id
  <1>0. /\ pc[p] = "undoName" /\ users' = users /\ byEmail' = byEmail
        /\ byUsername' = [byUsername EXCEPT ![n] = None]
        /\ issued' = issued /\ reply' = <<p, "already exists">>
        /\ Moves(p, "idle", NoCall)
        /\ TypeOK /\ CreatorInv(p)
    BY DEF UndoName, Finish, Moves, IndInv, FrameInv
  <1>1. /\ n \in Usernames /\ i \in Ids /\ users[i] = None /\ byUsername[n] = i
    BY <1>0 DEF CreatorInv, Creating, Holding, TypeOK
  <1>2. /\ pc' \in [Procs -> Labels] /\ call' \in [Procs -> Call]
        /\ pc'[p] = "idle" /\ call'[p] = NoCall
        /\ \A q \in Procs : q # p => pc'[q] = pc[q] /\ call'[q] = call[q]
    BY <1>0, MovesFacts, NoCallType
  <1>3. TypeOK'
    BY <1>0, <1>2 DEF TypeOK
  <1>4. /\ byUsername'[n] = None
        /\ \A m \in Usernames : m # n => byUsername'[m] = byUsername[m]
    BY <1>0, <1>1 DEF TypeOK
  <1>5. ASSUME NEW q \in Procs, Holding(q), q # p
        PROVE  call[q].username # n /\ call[q].username \in Usernames
    <2>1. /\ call[q].username \in Usernames /\ Creating(q) /\ Creating(p)
          /\ byUsername[call[q].username] = call[q].id
      BY <1>5, <1>0 DEF IndInv, FrameInv, CreatorInv, Holding, Creating
    <2>2. call[q].id # i
      BY <2>1, <1>5 DEF IndInv, FreshInv
    <2> QED
      BY <2>1, <2>2, <1>1
  <1>6. ASSUME NEW q \in Procs
        PROVE  (CreatorInv(q) /\ UpdaterInv(q) /\ LoginInv(q))'
    <2>0. CreatorInv(q) /\ UpdaterInv(q) /\ LoginInv(q)
      BY DEF IndInv, FrameInv
    <2>1. CASE q = p
      BY <2>1, <1>2 DEF CreatorInv, UpdaterInv, LoginInv, Creating, Holding, Loaded
    <2>2. CASE q # p
      <3>1. pc'[q] = pc[q] /\ call'[q] = call[q]
        BY <2>2, <1>2
      <3>2. Holding(q) => byUsername'[call[q].username] = call[q].id
        BY <2>0, <2>2, <1>4, <1>5 DEF CreatorInv
      <3>3. CreatorInv(q)'
        BY <2>0, <3>1, <3>2, <1>0 DEF CreatorInv, Creating, Holding
      <3>4. UpdaterInv(q)'
        BY <2>0, <3>1, <1>0 DEF UpdaterInv, Loaded
      <3>5. \A r \in Procs : Creating(r)' => Creating(r) /\ call'[r] = call[r]
        BY <1>2 DEF Creating
      <3>6. LoginInv(q)'
        BY <2>0, <3>1, <3>5, <1>0 DEF LoginInv, Loaded
      <3> QED
        BY <3>3, <3>4, <3>6
    <2> QED
      BY <2>1, <2>2
  <1>7. FreshInv'
    <2>1. \A q \in Procs : Creating(q)' => Creating(q) /\ call'[q] = call[q]
      BY <1>2 DEF Creating
    <2> QED
      BY <1>0, <2>1 DEF IndInv, FreshInv
  <1>8. UsernameIndexExact'
    <2>1. UsernameIndexExact
      BY DEF IndInv
    <2>2. ASSUME NEW j \in Ids, users[j] # None
          PROVE  byUsername'[users[j].username] = j
      <3>1. byUsername[users[j].username] = j /\ users[j].username \in Usernames
        BY <2>1, <2>2, <1>0, RecordType DEF UsernameIndexExact
      <3> QED
        BY <2>2, <3>1, <1>1, <1>4
    <2>3. ASSUME NEW m \in Usernames, byUsername'[m] # None
          PROVE  \/ users[byUsername'[m]] # None /\ users[byUsername'[m]].username = m
                 \/ \E q \in Procs : /\ HoldsName(q)'
                                     /\ call'[q].username = m
                                     /\ call'[q].id = byUsername'[m]
      <3>1. m # n /\ byUsername'[m] = byUsername[m]
        BY <2>3, <1>4
      <3>2. ASSUME NEW q \in Procs, HoldsName(q), call[q].username = m
            PROVE  HoldsName(q)' /\ call'[q] = call[q]
        BY <3>1, <3>2, <1>2 DEF HoldsName
      <3> QED
        BY <2>1, <2>3, <3>1, <3>2 DEF UsernameIndexExact
    <2> QED
      BY <1>0, <2>2, <2>3 DEF UsernameIndexExact
  <1> QED
    BY <1>3, <1>6, <1>7, <1>8 DEF IndInv, FrameInv

LEMMA StoreNewPreserves ==
    ASSUME IndInv, NEW p \in Procs, StoreNew(p)
    PROVE  IndInv'
  <1> DEFINE n == call[p].username
             i == call[p].id
             r == NewUser(n, call[p].email)
  <1>0. /\ pc[p] = "storeNew" /\ byUsername' = byUsername /\ byEmail' = byEmail
        /\ users' = [users EXCEPT ![i] = r]
        /\ issued' = issued /\ reply' = <<p, "ok">>
        /\ Moves(p, "idle", NoCall)
        /\ TypeOK /\ CreatorInv(p)
    BY DEF StoreNew, Finish, Moves, IndInv, FrameInv
  <1>1. /\ n \in Usernames /\ i \in Ids /\ i \in issued /\ users[i] = None
        /\ byUsername[n] = i /\ call[p].email \in Emails /\ Creating(p)
    BY <1>0 DEF CreatorInv, Creating, Holding, TypeOK
  <1>2. r \in User /\ r.username = n /\ r # None
    <2>1. r \in User /\ r.username = n
      BY <1>1 DEF NewUser, User
    <2> QED
      BY <2>1, NoneAssumption
  <1> HIDE DEF r
  <1>3. /\ pc' \in [Procs -> Labels] /\ call' \in [Procs -> Call]
        /\ pc'[p] = "idle" /\ call'[p] = NoCall
        /\ \A q \in Procs : q # p => pc'[q] = pc[q] /\ call'[q] = call[q]
    BY <1>0, MovesFacts, NoCallType
  <1>4. TypeOK'
    BY <1>0, <1>1, <1>2, <1>3 DEF TypeOK
  <1>5. users'[i] = r /\ \A j \in Ids : j # i => users'[j] = users[j]
    BY <1>0, <1>1 DEF TypeOK
  <1>6. \A q \in Procs : Creating(q)' => /\ Creating(q) /\ call'[q] = call[q]
                                         /\ q # p /\ call[q].id # i
    <2>1. \A q \in Procs : Creating(q)' => Creating(q) /\ call'[q] = call[q] /\ q # p
      BY <1>3 DEF Creating
    <2> QED
      BY <2>1, <1>1 DEF IndInv, FreshInv
  <1>7. ASSUME NEW q \in Procs
        PROVE  (CreatorInv(q) /\ UpdaterInv(q) /\ LoginInv(q))'
    <2>0. CreatorInv(q) /\ UpdaterInv(q) /\ LoginInv(q) /\ issued \subseteq Ids
      BY <1>0 DEF IndInv, FrameInv, TypeOK
    <2>1. CASE q = p
      BY <2>1, <1>3 DEF CreatorInv, UpdaterInv, LoginInv, Creating, Holding, Loaded
    <2>2. CASE q # p
      <3>1. pc'[q] = pc[q] /\ call'[q] = call[q]
        BY <2>2, <1>3
      <3>2. CreatorInv(q)'
        <4>1. Holding(q)' => Creating(q)'
          BY DEF Holding, Creating
        <4> QED
          BY <2>0, <3>1, <4>1, <1>0, <1>5, <1>6 DEF CreatorInv, Creating, Holding
      <3>3. UpdaterInv(q)'
        BY <2>0, <3>1, <1>1, <1>5 DEF UpdaterInv, Loaded
      <3>4. pc[q] = "findUser" /\ call[q].id = i => call[q].username = n
        BY <2>0, <1>1 DEF LoginInv
      <3>5. LoginInv(q)'
        <4>1. pc[q] = "findUser" =>
                /\ users'[call[q].id] # None => users'[call[q].id].username = call[q].username
                /\ \A s \in Procs : Creating(s)' /\ call'[s].id = call[q].id
                                      => call'[s].username = call[q].username
          BY <2>0, <3>4, <1>2, <1>5, <1>6 DEF LoginInv
        <4>2. call[q].op = "Login" /\ (pc[q] = "load" \/ Loaded(q)) =>
                /\ users'[call[q].id] # None
                /\ users'[call[q].id].username = call[q].username
          BY <2>0, <1>1, <1>5 DEF LoginInv
        <4> QED
          BY <2>0, <3>1, <4>1, <4>2, <1>0 DEF LoginInv, Loaded
      <3> QED
        BY <3>2, <3>3, <3>5
    <2> QED
      BY <2>1, <2>2
  <1>8. FreshInv'
    <2>1. \A j \in Ids : users'[j] # None => j \in issued
      BY <1>1, <1>5 DEF IndInv, FreshInv
    <2> QED
      BY <2>1, <1>0, <1>6 DEF IndInv, FreshInv
  <1>9. UsernameIndexExact'
    <2>1. UsernameIndexExact
      BY DEF IndInv
    <2>2. \A j \in Ids : users'[j] # None => byUsername[users'[j].username] = j
      BY <2>1, <1>1, <1>2, <1>5 DEF UsernameIndexExact
    <2>3. ASSUME NEW m \in Usernames, byUsername[m] # None
          PROVE  \/ users'[byUsername[m]] # None /\ users'[byUsername[m]].username = m
                 \/ \E q \in Procs : /\ HoldsName(q)'
                                     /\ call'[q].username = m
                                     /\ call'[q].id = byUsername[m]
      <3>0. byUsername[m] \in Ids
        BY <2>3, <1>0 DEF TypeOK
      <3>1. CASE m = n
        BY <3>1, <1>1, <1>2, <1>5
      <3>2. CASE m # n
        <4>1. CASE users[byUsername[m]] # None /\ users[byUsername[m]].username = m
          BY <3>0, <4>1, <1>1, <1>5
        <4>2. CASE \E q \in Procs : /\ HoldsName(q)
                                    /\ call[q].username = m
                                    /\ call[q].id = byUsername[m]
          <5>1. PICK q \in Procs : /\ HoldsName(q)
                                   /\ call[q].username = m
                                   /\ call[q].id = byUsername[m]
            BY <4>2
          <5>2. HoldsName(q)' /\ call'[q] = call[q]
            BY <5>1, <3>2, <1>3 DEF HoldsName
          <5> QED
            BY <5>1, <5>2
        <4> QED
          BY <2>1, <2>3, <4>1, <4>2 DEF UsernameIndexExact
      <3> QED
        BY <3>1, <3>2
    <2> QED
      BY <1>0, <2>2, <2>3 DEF UsernameIndexExact
  <1> QED
    BY <1>4, <1>7, <1>8, <1>9 DEF IndInv, FrameInv

-----------------------------------------------------------------------------
(* The steps of Update, Delete, GetByID and VerifyCredentials.               *)

LEMMA LoadPreserves ==
    ASSUME IndInv, NEW p \in Procs, Load(p)
    PROVE  IndInv'
  <1> DEFINE r == users[call[p].id]
             c == [call[p] EXCEPT !.seen = r]
             l == IF ChangesEmail(call[p], r) THEN "claimEmail" ELSE "storeUpdate"
  <1>0. /\ pc[p] = "load" /\ users' = users /\ byUsername' = byUsername
        /\ byEmail' = byEmail /\ TypeOK /\ call[p] \in Call
        /\ UpdaterInv(p) /\ LoginInv(p)
    BY DEF Load, store, IndInv, FrameInv, TypeOK
  <1>1. /\ users' \in [Ids -> User \cup {None}] /\ byEmail' \in [Emails -> Ids \cup {None}]
        /\ SameNames
    BY <1>0, ReadOnlyFacts DEF TypeOK
  <1>2. ~Holding(p) /\ call[p].id \in Ids
    BY <1>0 DEF Holding, UpdaterInv
  <1>3. CASE UpdateFails(p, "not found")
    <2>1. PICK a \in Replies : Finish(p, a)
      BY <1>3 DEF UpdateFails
    <2> QED
      BY <1>0, <1>1, <1>2, <2>1, FinishPreserves
  <1>4. CASE Found(r) /\ GotoWith(p, l, c)
    <2>1. r \in User /\ r # None
      BY <1>0, <1>2, <1>4, RecordType DEF Found
    <2>2. c \in Call /\ c.seen = r /\ c.id = call[p].id /\ c.op = call[p].op
          /\ c.username = call[p].username /\ c.email = call[p].email
      BY <1>0, <2>1 DEF Call
    <2>3. l \in {"claimEmail", "storeUpdate"} /\ (l = "claimEmail" => call[p].email \in Emails)
      BY <1>0 DEF ChangesEmail, Call
    <2>4. issued' = issued
      BY <1>4 DEF GotoWith
    <2> HIDE DEF c, l, r
    <2>5. users[call[p].id] = r
      BY DEF r
    <2>6. pc'[p] = l /\ call'[p] = c => (CreatorInv(p) /\ UpdaterInv(p) /\ LoginInv(p))'
      <3> SUFFICES ASSUME pc'[p] = l, call'[p] = c
                   PROVE  (CreatorInv(p) /\ UpdaterInv(p) /\ LoginInv(p))'
        OBVIOUS
      <3>1. CreatorInv(p)'
        BY <2>3 DEF CreatorInv, Creating, Holding
      <3>2. UpdaterInv(p)'
        BY <1>0, <1>2, <2>1, <2>2, <2>3, <2>5 DEF UpdaterInv, Loaded
      <3>3. LoginInv(p)'
        BY <1>0, <1>2, <2>2, <2>3 DEF LoginInv, Loaded
      <3> QED
        BY <3>1, <3>2, <3>3
    <2> QED
      BY <1>0, <1>1, <1>2, <1>4, <2>2, <2>3, <2>6, GotoPreserves
  <1> QED
    BY <1>3, <1>4 DEF Load

LEMMA ClaimEmailPreserves ==
    ASSUME IndInv, NEW p \in Procs, ClaimEmail(p)
    PROVE  IndInv'
  <1>0. /\ pc[p] = "claimEmail" /\ users' = users /\ byUsername' = byUsername
        /\ TypeOK /\ call[p] \in Call /\ UpdaterInv(p) /\ LoginInv(p)
    BY DEF ClaimEmail, IndInv, FrameInv, TypeOK
  <1>1. users' \in [Ids -> User \cup {None}] /\ SameNames
    BY <1>0, ReadOnlyFacts
  <1>2. ~Holding(p) /\ call[p].id \in Ids
    BY <1>0 DEF Holding, UpdaterInv, Loaded
  <1>3. CASE UpdateFails(p, "already exists") /\ UNCHANGED byEmail
    <2>1. PICK a \in Replies : Finish(p, a)
      BY <1>3 DEF UpdateFails
    <2>2. byEmail' \in [Emails -> Ids \cup {None}]
      BY <1>0, <1>3 DEF TypeOK
    <2> QED
      BY <1>0, <1>1, <1>2, <2>1, <2>2, FinishPreserves
  <1>4. CASE /\ byEmail' = [byEmail EXCEPT ![call[p].email] = call[p].id]
             /\ Goto(p, "dropEmail")
    <2>1. byEmail' \in [Emails -> Ids \cup {None}]
      BY <1>0, <1>2, <1>4 DEF TypeOK
    <2>2. pc'[p] = "dropEmail" /\ call'[p] = call[p]
            => (CreatorInv(p) /\ UpdaterInv(p) /\ LoginInv(p))'
      BY <1>0 DEF CreatorInv, UpdaterInv, LoginInv, Creating, Holding, Loaded
    <2> QED
      BY <1>0, <1>1, <1>2, <1>4, <2>1, <2>2, GotoPreserves DEF Goto
  <1> QED
    BY <1>3, <1>4 DEF ClaimEmail

LEMMA DropEmailPreserves ==
    ASSUME IndInv, NEW p \in Procs, DropEmail(p)
    PROVE  IndInv'
  <1>0. /\ pc[p] = "dropEmail" /\ users' = users /\ byUsername' = byUsername
        /\ GotoWith(p, "storeUpdate", call[p])
        /\ TypeOK /\ call[p] \in Call /\ UpdaterInv(p) /\ LoginInv(p)
    BY DEF DropEmail, Goto, IndInv, FrameInv, TypeOK
  <1>1. users' \in [Ids -> User \cup {None}] /\ SameNames
    BY <1>0, ReadOnlyFacts
  <1>2. byEmail' \in [Emails -> Ids \cup {None}] /\ ~Holding(p)
    BY <1>0 DEF DropEmail, TypeOK, Holding
  <1>3. pc'[p] = "storeUpdate" /\ call'[p] = call[p]
          => (CreatorInv(p) /\ UpdaterInv(p) /\ LoginInv(p))'
    BY <1>0 DEF CreatorInv, UpdaterInv, LoginInv, Creating, Holding, Loaded
  <1> QED
    BY <1>0, <1>1, <1>2, <1>3, GotoPreserves

\* What Update and Delete store is a record of the name they loaded.
LEMMA ReplacementFacts ==
    ASSUME IndInv, NEW p \in Procs, Loaded(p), NEW r,
           r = Updated(call[p]) \/ r = [call[p].seen EXCEPT !.status = "deleted"],
           users' = [users EXCEPT ![call[p].id] = r]
    PROVE  users' \in [Ids -> User \cup {None}] /\ SameNames
  <1>0. /\ call[p].id \in Ids /\ call[p].seen \in User /\ users[call[p].id] # None
        /\ users[call[p].id].username = call[p].seen.username
        /\ call[p] \in Call /\ users \in [Ids -> User \cup {None}]
    BY DEF IndInv, FrameInv, UpdaterInv, TypeOK
  <1>1. /\ call[p].email # None => call[p].email \in Emails
        /\ call[p].status # None => call[p].status \in Statuses
        /\ call[p].online \in BOOLEAN
    BY <1>0 DEF Call
  <1>2. Updated(call[p]) \in User /\ Updated(call[p]).username = call[p].seen.username
    BY <1>0, <1>1 DEF Updated, User
  <1>3. LET d == [call[p].seen EXCEPT !.status = "deleted"]
        IN  d \in User /\ d.username = call[p].seen.username
    BY <1>0 DEF User
  <1>4. r \in User /\ r.username = call[p].seen.username
    BY <1>2, <1>3
  <1>5. r # None
    BY <1>4, NoneAssumption
  <1> QED
    BY <1>0, <1>4, <1>5 DEF SameNames

LEMMA StoreUpdatePreserves ==
    ASSUME IndInv, NEW p \in Procs, StoreUpdate(p)
    PROVE  IndInv'
  <1>0. /\ pc[p] = "storeUpdate" /\ byUsername' = byUsername /\ byEmail' = byEmail
        /\ users' = [users EXCEPT ![call[p].id] = Updated(call[p])]
        /\ TypeOK /\ call[p] \in Call /\ UpdaterInv(p)
    BY DEF StoreUpdate, IndInv, FrameInv, TypeOK
  <1>1. Loaded(p) /\ ~Holding(p) /\ call[p].id \in Ids
    BY <1>0 DEF Loaded, Holding, UpdaterInv
  <1>2. users' \in [Ids -> User \cup {None}] /\ SameNames
    BY <1>0, <1>1, ReplacementFacts
  <1>3. byEmail' \in [Emails -> Ids \cup {None}]
    BY <1>0 DEF TypeOK
  <1>4. CASE call[p].op = "UpdateUser" /\ GotoWith(p, "read", call[p])
    <2>1. pc'[p] = "read" /\ call'[p] = call[p]
            => (CreatorInv(p) /\ UpdaterInv(p) /\ LoginInv(p))'
      BY <1>1 DEF CreatorInv, UpdaterInv, LoginInv, Creating, Holding, Loaded
    <2> QED
      BY <1>0, <1>1, <1>2, <1>3, <1>4, <2>1, GotoPreserves
  <1>5. CASE Finish(p, "ok")
    BY <1>0, <1>1, <1>2, <1>3, <1>5, FinishPreserves
  <1> QED
    BY <1>4, <1>5 DEF StoreUpdate, Goto

LEMMA StoreDeletePreserves ==
    ASSUME IndInv, NEW p \in Procs, StoreDelete(p)
    PROVE  IndInv'
  <1>0. /\ pc[p] = "storeDelete" /\ byUsername' = byUsername /\ byEmail' = byEmail
        /\ users' = [users EXCEPT ![call[p].id] = [call[p].seen EXCEPT !.status = "deleted"]]
        /\ Finish(p, "ok") /\ TypeOK
    BY DEF StoreDelete, IndInv
  <1>1. Loaded(p) /\ ~Holding(p)
    BY <1>0 DEF Loaded, Holding
  <1>2. users' \in [Ids -> User \cup {None}] /\ SameNames
    BY <1>0, <1>1, ReplacementFacts
  <1>3. byEmail' \in [Emails -> Ids \cup {None}]
    BY <1>0 DEF TypeOK
  <1> QED
    BY <1>0, <1>1, <1>2, <1>3, FinishPreserves

LEMMA ReadPreserves ==
    ASSUME IndInv, NEW p \in Procs, Read(p)
    PROVE  IndInv'
  <1>0. pc[p] = "read" /\ users' = users /\ byUsername' = byUsername /\ byEmail' = byEmail
    BY DEF Read, store
  <1>1. PICK a \in Replies : Finish(p, a)
    BY DEF Read
  <1>2. ~Holding(p) /\ byEmail' \in [Emails -> Ids \cup {None}]
    BY <1>0 DEF Holding, IndInv, TypeOK
  <1> QED
    BY <1>0, <1>1, <1>2, ReadOnlyFacts, FinishPreserves

LEMMA LoadDeletePreserves ==
    ASSUME IndInv, NEW p \in Procs, LoadDelete(p)
    PROVE  IndInv'
  <1> DEFINE r == users[call[p].id]
             c == [call[p] EXCEPT !.seen = r]
  <1>0. /\ pc[p] = "loadDelete" /\ users' = users /\ byUsername' = byUsername
        /\ byEmail' = byEmail /\ TypeOK /\ call[p] \in Call
        /\ UpdaterInv(p) /\ LoginInv(p)
    BY DEF LoadDelete, store, IndInv, FrameInv, TypeOK
  <1>1. /\ users' \in [Ids -> User \cup {None}] /\ byEmail' \in [Emails -> Ids \cup {None}]
        /\ SameNames
    BY <1>0, ReadOnlyFacts DEF TypeOK
  <1>2. ~Holding(p) /\ call[p].id \in Ids
    BY <1>0 DEF Holding, UpdaterInv
  <1>3. CASE Finish(p, "not found")
    BY <1>0, <1>1, <1>2, <1>3, FinishPreserves
  <1>4. CASE Found(r) /\ GotoWith(p, "storeDelete", c)
    <2>1. r \in User /\ r # None
      BY <1>0, <1>2, <1>4, RecordType DEF Found
    <2>2. c \in Call /\ c.seen = r /\ c.id = call[p].id /\ c.op = call[p].op
          /\ c.username = call[p].username
      BY <1>0, <2>1 DEF Call
    <2> HIDE DEF c, r
    <2>3. users[call[p].id] = r
      BY DEF r
    <2>4. pc'[p] = "storeDelete" /\ call'[p] = c
            => (CreatorInv(p) /\ UpdaterInv(p) /\ LoginInv(p))'
      <3> SUFFICES ASSUME pc'[p] = "storeDelete", call'[p] = c
                   PROVE  (CreatorInv(p) /\ UpdaterInv(p) /\ LoginInv(p))'
        OBVIOUS
      <3>1. CreatorInv(p)'
        BY DEF CreatorInv, Creating, Holding
      <3>2. UpdaterInv(p)'
        BY <1>0, <1>2, <2>1, <2>2, <2>3 DEF UpdaterInv, Loaded
      <3>3. LoginInv(p)'
        BY <1>0, <1>2, <2>2 DEF LoginInv, UpdaterInv, Loaded
      <3> QED
        BY <3>1, <3>2, <3>3
    <2> QED
      BY <1>0, <1>1, <1>2, <1>4, <2>2, <2>4, GotoPreserves
  <1> QED
    BY <1>3, <1>4 DEF LoadDelete

LEMMA FindNamePreserves ==
    ASSUME IndInv, NEW p \in Procs, FindName(p)
    PROVE  IndInv'
  <1> DEFINE n == call[p].username
             i == byUsername[n]
             c == [call[p] EXCEPT !.id = i]
  <1>0. /\ pc[p] = "findName" /\ users' = users /\ byUsername' = byUsername
        /\ byEmail' = byEmail /\ TypeOK /\ call[p] \in Call /\ LoginInv(p)
    BY DEF FindName, store, IndInv, FrameInv, TypeOK
  <1>1. /\ users' \in [Ids -> User \cup {None}] /\ byEmail' \in [Emails -> Ids \cup {None}]
        /\ SameNames
    BY <1>0, ReadOnlyFacts DEF TypeOK
  <1>2. ~Holding(p) /\ n \in Usernames
    BY <1>0 DEF Holding, LoginInv
  <1>3. CASE Finish(p, "invalid credentials")
    BY <1>0, <1>1, <1>2, <1>3, FinishPreserves
  <1>4. CASE i # None /\ GotoWith(p, "findUser", c)
    <2>1. i \in Ids
      BY <1>0, <1>2, <1>4 DEF TypeOK
    <2>2. c \in Call /\ c.id = i /\ c.op = call[p].op /\ c.username = n
      BY <1>0, <2>1 DEF Call
    <2>3. /\ i \in issued
          /\ users[i] # None => users[i].username = n
          /\ \A q \in Procs : Creating(q) /\ call[q].id = i => call[q].username = n
      <3>1. CASE users[i] # None /\ users[i].username = n
        BY <2>1, <3>1 DEF IndInv, FreshInv, FrameInv, CreatorInv
      <3>2. CASE \E q \in Procs : HoldsName(q) /\ call[q].username = n /\ call[q].id = i
        <4>1. PICK q \in Procs : HoldsName(q) /\ call[q].username = n /\ call[q].id = i
          BY <3>2
        <4>2. Creating(q)
          BY <4>1 DEF HoldsName, Creating
        <4>3. i \in issued /\ users[i] = None
          BY <4>1, <4>2 DEF IndInv, FrameInv, CreatorInv
        <4> QED
          BY <4>1, <4>2, <4>3 DEF IndInv, FreshInv
      <3> QED
        BY <1>2, <1>4, <3>1, <3>2 DEF IndInv, UsernameIndexExact
    <2>4. issued' = issued
      BY <1>4 DEF GotoWith
    <2> HIDE DEF c, i
    <2>5. Moves(p, "findUser", c)
      BY <1>4 DEF GotoWith, Moves
    <2>6. \A q \in Procs : Creating(q)' => Creating(q) /\ call'[q] = call[q]
      BY <1>0, <2>2, <2>5, MovesFacts DEF Creating
    <2>7. pc'[p] = "findUser" /\ call'[p] = c
            => (CreatorInv(p) /\ UpdaterInv(p) /\ LoginInv(p))'
      <3> SUFFICES ASSUME pc'[p] = "findUser", call'[p] = c
                   PROVE  (CreatorInv(p) /\ UpdaterInv(p) /\ LoginInv(p))'
        OBVIOUS
      <3>1. CreatorInv(p)' /\ UpdaterInv(p)'
        BY DEF CreatorInv, UpdaterInv, Creating, Holding, Loaded
      <3>2. LoginInv(p)'
        BY <1>0, <1>2, <2>2, <2>3, <2>4, <2>6 DEF LoginInv, Loaded
      <3> QED
        BY <3>1, <3>2
    <2> QED
      BY <1>0, <1>1, <1>2, <1>4, <2>2, <2>7, GotoPreserves
  <1> QED
    BY <1>3, <1>4 DEF FindName

LEMMA FindUserPreserves ==
    ASSUME IndInv, NEW p \in Procs, FindUser(p)
    PROVE  IndInv'
  <1>0. /\ pc[p] = "findUser" /\ users' = users /\ byUsername' = byUsername
        /\ byEmail' = byEmail /\ TypeOK /\ call[p] \in Call /\ LoginInv(p)
    BY DEF FindUser, store, IndInv, FrameInv, TypeOK
  <1>1. /\ users' \in [Ids -> User \cup {None}] /\ byEmail' \in [Emails -> Ids \cup {None}]
        /\ SameNames
    BY <1>0, ReadOnlyFacts DEF TypeOK
  <1>2. ~Holding(p) /\ call[p].id \in Ids
    BY <1>0 DEF Holding, LoginInv, TypeOK
  <1>3. CASE \E a \in Replies : Finish(p, a)
    BY <1>0, <1>1, <1>2, <1>3, FinishPreserves
  <1>4. CASE Found(users[call[p].id]) /\ GotoWith(p, "load", call[p])
    <2>1. users[call[p].id] # None
      BY <1>4 DEF Found
    <2>2. pc'[p] = "load" /\ call'[p] = call[p]
            => (CreatorInv(p) /\ UpdaterInv(p) /\ LoginInv(p))'
      BY <1>0, <1>2, <2>1
         DEF CreatorInv, UpdaterInv, LoginInv, Creating, Holding, Loaded
    <2> QED
      BY <1>0, <1>1, <1>2, <1>4, <2>2, GotoPreserves
  <1> QED
    BY <1>3, <1>4 DEF FindUser, Goto

-----------------------------------------------------------------------------

LEMMA NextPreserves == IndInv /\ [Next]_vars => IndInv'
  <1> SUFFICES ASSUME IndInv, [Next]_vars PROVE IndInv'
    OBVIOUS
  <1>1. CASE UNCHANGED vars
    <2>1. TypeOK'
      BY <1>1 DEF vars, IndInv, TypeOK
    <2>2. FrameInv'
      BY <1>1 DEF vars, IndInv, FrameInv, CreatorInv, UpdaterInv, LoginInv,
                  Creating, Holding, Loaded
    <2>3. FreshInv'
      BY <1>1 DEF vars, IndInv, FreshInv, Creating
    <2>4. UsernameIndexExact'
      BY <1>1 DEF vars, IndInv, UsernameIndexExact, HoldsName
    <2> QED
      BY <2>1, <2>2, <2>3, <2>4 DEF IndInv
  <1>2. ASSUME NEW p \in Procs, Invoke(p) PROVE IndInv'
    BY <1>2, CreateUserPreserves, UpdateUserPreserves, SetOnlinePreserves,
       DeleteUserPreserves, GetUserPreserves, LoginPreserves, AuthPreserves DEF Invoke
  <1>3. ASSUME NEW p \in Procs, Step(p) PROVE IndInv'
    BY <1>3, ReserveNamePreserves, ReserveEmailPreserves, UndoNamePreserves,
       StoreNewPreserves, LoadPreserves, ClaimEmailPreserves, DropEmailPreserves,
       StoreUpdatePreserves, ReadPreserves, LoadDeletePreserves, StoreDeletePreserves,
       FindNamePreserves, FindUserPreserves DEF Step
  <1> QED
    BY <1>1, <1>2, <1>3 DEF Next

LEMMA Invariance == Spec => []IndInv
  BY InitIndInv, NextPreserves, PTL DEF Spec

\* Every value the store, the frames and the answers take has its type: no Update
\* or Delete writes a record it did not load, and no Create an incomplete one.
THEOREM TypeCorrect == Spec => []TypeOK
  <1>1. IndInv => TypeOK
    BY DEF IndInv
  <1> QED
    BY <1>1, Invariance, PTL

\* The username index stays exact, so usernames are unique and no reservation
\* leaks, for any number of goroutines and any interleaving of their sync.Map calls.
THEOREM UsernamesExact == Spec => []UsernameIndexExact
  <1>1. IndInv => UsernameIndexExact
    BY DEF IndInv
  <1> QED
    BY <1>1, Invariance, PTL

\* A login that passed VerifyCredentials updates an account of the username that
\* was asked for.
THEOREM LoginSafe == Spec => []LoginBindsName
  <1>1. IndInv => LoginBindsName
    BY DEF IndInv, FrameInv, LoginInv, LoginBindsName, Loaded
  <1> QED
    BY <1>1, Invariance, PTL

-----------------------------------------------------------------------------
(* Refinement: UserStore implements UserRegistry.                            *)

LEMMA AccountsInit == Init => Registry!Init
  <1> SUFFICES ASSUME Init PROVE Registry!Init
    OBVIOUS
  <1>1. NewUser(AdminName, AdminEmail) \in User
    BY AdminAssumption DEF NewUser, User
  <1>2. \A i \in Ids : users[i] # None <=> i = AdminId
    BY <1>1, NoneAssumption DEF Init
  <1>3. users[AdminId].username = AdminName
    BY AdminAssumption DEF Init, NewUser
  <1>4. Accounts = {<<AdminName, AdminId>>}
    BY <1>2, <1>3, AdminAssumption DEF Accounts
  <1> QED
    BY <1>4, AdminAssumption DEF Registry!Init

LEMMA SameNamesStutters == SameNames => UNCHANGED Accounts
  BY DEF SameNames, Accounts

LEMMA StoreNewRegisters ==
    ASSUME IndInv, NEW p \in Procs, StoreNew(p)
    PROVE  Registry!Next
  <1> DEFINE n == call[p].username
             i == call[p].id
             r == NewUser(n, call[p].email)
  <1>1. /\ n \in Usernames /\ i \in Ids /\ users[i] = None /\ byUsername[n] = i
        /\ call[p].email \in Emails /\ users \in [Ids -> User \cup {None}]
        /\ users' = [users EXCEPT ![i] = r]
    BY DEF StoreNew, IndInv, FrameInv, CreatorInv, Creating, Holding, TypeOK
  <1>2. r \in User /\ r.username = n
    BY <1>1 DEF NewUser, User
  <1>3. r # None
    BY <1>2, NoneAssumption
  <1> HIDE DEF r
  <1>4. users'[i] = r /\ \A j \in Ids : j # i => users'[j] = users[j]
    BY <1>1
  <1>5. \A j \in Ids : users[j] # None => users[j].username # n /\ j # i
    BY <1>1 DEF IndInv, UsernameIndexExact
  <1>6. \A a \in Accounts : a[1] # n /\ a[2] # i
    BY <1>5 DEF Accounts
  <1>7. Accounts' = Accounts \cup {<<n, i>>}
    <2>1. ASSUME NEW a \in Accounts' PROVE a \in Accounts \cup {<<n, i>>}
      <3>1. PICK j \in Ids : users'[j] # None /\ a = <<users'[j].username, j>>
        BY <2>1 DEF Accounts
      <3> QED
        BY <3>1, <1>2, <1>4 DEF Accounts
    <2>2. ASSUME NEW a \in Accounts PROVE a \in Accounts'
      <3>1. PICK j \in Ids : users[j] # None /\ a = <<users[j].username, j>>
        BY <2>2 DEF Accounts
      <3>2. users'[j] = users[j]
        BY <3>1, <1>1, <1>4
      <3> QED
        BY <3>1, <3>2 DEF Accounts
    <2>3. <<n, i>> \in Accounts'
      BY <1>1, <1>2, <1>3, <1>4 DEF Accounts
    <2> QED
      BY <2>1, <2>2, <2>3
  <1>8. Registry!Register(n, i)
    BY <1>6, <1>7 DEF Registry!Register
  <1> QED
    BY <1>1, <1>8 DEF Registry!Next

LEMMA NextRefines == IndInv /\ [Next]_vars => [Registry!Next]_Accounts
  <1> SUFFICES ASSUME IndInv, [Next]_vars PROVE [Registry!Next]_Accounts
    OBVIOUS
  <1>1. CASE users' = users
    BY <1>1, SameNamesStutters DEF SameNames
  <1>2. ASSUME NEW p \in Procs, StoreNew(p) PROVE [Registry!Next]_Accounts
    BY <1>2, StoreNewRegisters
  <1>3. ASSUME NEW p \in Procs, StoreUpdate(p) \/ StoreDelete(p)
        PROVE  [Registry!Next]_Accounts
    <2>1. Loaded(p)
      BY <1>3 DEF StoreUpdate, StoreDelete, Loaded
    <2>2. SameNames
      BY <1>3, <2>1, ReplacementFacts DEF StoreUpdate, StoreDelete
    <2> QED
      BY <2>2, SameNamesStutters
  <1>4. ASSUME NEW p \in Procs, Invoke(p) PROVE users' = users
    BY <1>4 DEF Invoke, CreateUser, UpdateUser, SetOnline, DeleteUser, GetUser, Login,
                Auth, Start, store
  <1>5. ASSUME NEW p \in Procs, Step(p)
        PROVE  users' = users \/ StoreNew(p) \/ StoreUpdate(p) \/ StoreDelete(p)
    BY <1>5 DEF Step, ReserveName, ReserveEmail, UndoName, Load, ClaimEmail, DropEmail,
                Read, LoadDelete, FindName, FindUser, store
  <1> QED
    BY <1>1, <1>2, <1>3, <1>4, <1>5 DEF Next, vars

\* The lock-free store implements the atomic registry: each account appears in one
\* step with a username and an id nobody has, and is never renamed or lost.
THEOREM Refinement == Spec => ImplementsRegistry
  BY AccountsInit, Invariance, NextRefines, PTL DEF Spec, ImplementsRegistry, Registry!Spec

-----------------------------------------------------------------------------
(* What a step writes.                                                       *)

\* How a step of goroutine p writes the map of records
LEMMA StepWrites ==
  ASSUME IndInv, NEW p \in Procs, Step(p)
  PROVE  \/ users' = users
         \/ StoreNew(p) /\ call[p].id \in Ids /\ users[call[p].id] = None
         \/ StoreUpdate(p) \/ StoreDelete(p)
<1>1. CASE StoreNew(p)
  <2>1. CreatorInv(p) /\ Creating(p) /\ issued \subseteq Ids
    BY <1>1 DEF StoreNew, IndInv, FrameInv, TypeOK, Creating
  <2> QED
    BY <1>1, <2>1 DEF CreatorInv
<1> QED
  BY <1>1 DEF Step, ReserveName, ReserveEmail, UndoName, Load, ClaimEmail, DropEmail, Read,
              LoadDelete, FindName, FindUser, store

\* A goroutine that has loaded a record
LEMMA LoadedFacts ==
  ASSUME IndInv, NEW p \in Procs, pc[p] \in {"storeUpdate", "storeDelete"}
  PROVE  /\ call[p].id \in Ids /\ call[p].seen \in User
         /\ users[call[p].id] # None
         /\ users[call[p].id].username = call[p].seen.username
PROOF BY DEF IndInv, FrameInv, UpdaterInv, Loaded

\* Updated keeps the username, and takes its presence from the request.
LEMMA UpdatedFacts ==
  ASSUME NEW c \in Call, c.seen \in User
  PROVE  /\ Updated(c).username = c.seen.username
         /\ Updated(c).online = c.online
         /\ Updated(c) \in User
<1>1. c.seen.username \in Usernames /\ c.seen.email \in Emails /\ c.seen.status \in Statuses
      /\ c.online \in BOOLEAN /\ c.email \in Emails \cup {None} /\ c.status \in Statuses \cup {None}
  BY DEF User, Call
<1> QED
  BY <1>1 DEF Updated, User

-----------------------------------------------------------------------------
(* A deletion settles, however requests overlap.                             *)

\* The goroutine that moves, and what the others see of it
LEMMA OthersStay ==
  ASSUME TypeOK, NEW p \in Procs, Invoke(p) \/ Step(p)
  PROVE  \A q \in Procs : q # p => pc'[q] = pc[q] /\ call'[q] = call[q]
<1>1. pc \in [Procs -> Labels] /\ call \in [Procs -> Call]
  BY DEF TypeOK
<1>2. ASSUME NEW l, NEW c, pc' = [pc EXCEPT ![p] = l], call' = [call EXCEPT ![p] = c]
      PROVE  \A q \in Procs : q # p => pc'[q] = pc[q] /\ call'[q] = call[q]
  BY <1>1, <1>2
<1>3. CASE Invoke(p)
  <2>1. ASSUME NEW c, NEW l, Start(p, c, l)
        PROVE  \A q \in Procs : q # p => pc'[q] = pc[q] /\ call'[q] = call[q]
    BY <1>2, <2>1 DEF Start
  <2> QED
    BY <1>3, <2>1 DEF Invoke, CreateUser, UpdateUser, SetOnline, DeleteUser, GetUser, Login, Auth
<1>4. CASE Step(p)
  <2>1. ASSUME NEW r, Finish(p, r)
        PROVE  \A q \in Procs : q # p => pc'[q] = pc[q] /\ call'[q] = call[q]
    BY <1>2, <2>1 DEF Finish
  <2>2. ASSUME NEW c, NEW l, GotoWith(p, l, c)
        PROVE  \A q \in Procs : q # p => pc'[q] = pc[q] /\ call'[q] = call[q]
    BY <1>2, <2>2 DEF GotoWith
  <2> QED
    BY <1>4, <2>1, <2>2 DEF Step, ReserveName, ReserveEmail, UndoName, StoreNew, Load, ClaimEmail,
       DropEmail, StoreUpdate, Read, LoadDelete, StoreDelete, FindName, FindUser, UpdateFails, Goto
<1> QED
  BY <1>3, <1>4

\* A deleted record is not loaded again: who holds it loaded it before.
LEMMA NotLoadedAgain ==
  ASSUME IndInv, NEW p \in Procs, Invoke(p) \/ Step(p), NEW i \in Ids, Gone(i)
  PROVE  \A q \in Procs : Loaded(q)' => call'[q].id # i
<1>0. /\ TypeOK /\ pc \in [Procs -> Labels] /\ call \in [Procs -> Call]
      /\ ~Found(users[i]) /\ \A q \in Procs : Loaded(q) => call[q].id # i
  BY DEF IndInv, TypeOK, Gone, Found
<1>1. \A q \in Procs : q # p => pc'[q] = pc[q] /\ call'[q] = call[q]
  BY <1>0, OthersStay
<1>2. ASSUME Loaded(p)' PROVE call'[p].id # i
  <2>1. CASE Invoke(p)
    BY <1>0, <1>2, <2>1 DEF Loaded, Invoke, CreateUser, UpdateUser, SetOnline, DeleteUser,
                            GetUser, Login, Auth, Start
  <2>2. CASE Load(p)
    <3>1. Found(users[call[p].id]) /\ call'[p] = [call[p] EXCEPT !.seen = users[call[p].id]]
      BY <1>0, <1>2, <2>2 DEF Load, Loaded, UpdateFails, Finish, GotoWith
    <3>2. call'[p].id = call[p].id
      BY <1>0, <3>1 DEF Call
    <3> QED
      BY <1>0, <3>1, <3>2
  <2>3. CASE LoadDelete(p)
    <3>1. Found(users[call[p].id]) /\ call'[p] = [call[p] EXCEPT !.seen = users[call[p].id]]
      BY <1>0, <1>2, <2>3 DEF LoadDelete, Loaded, Finish, GotoWith
    <3>2. call'[p].id = call[p].id
      BY <1>0, <3>1 DEF Call
    <3> QED
      BY <1>0, <3>1, <3>2
  <2>4. CASE ClaimEmail(p) \/ DropEmail(p)
    <3>1. Loaded(p) /\ call'[p] = call[p]
      BY <1>0, <1>2, <2>4 DEF ClaimEmail, DropEmail, Loaded, UpdateFails, Finish, Goto, GotoWith
    <3> QED
      BY <1>0, <3>1
  <2> QED
    BY <1>0, <1>2, <2>1, <2>2, <2>3, <2>4
       DEF Loaded, Step, ReserveName, ReserveEmail, UndoName, StoreNew, StoreUpdate, Read,
           StoreDelete, FindName, FindUser, Finish, Goto, GotoWith
<1> QED
  BY <1>0, <1>1, <1>2 DEF Loaded

LEMMA GoneStays ==
  ASSUME IndInv, NEW p \in Procs, Invoke(p) \/ Step(p), NEW i \in Ids, Gone(i)
  PROVE  Gone(i)' /\ users'[i] = users[i]
<1>0. /\ users \in [Ids -> User \cup {None}] /\ users[i] # None /\ users[i].status = "deleted"
      /\ \A q \in Procs : Loaded(q) => call[q].id # i
  BY DEF IndInv, TypeOK, Gone
<1>1. users'[i] = users[i]
  <2>1. CASE Invoke(p)
    BY <2>1 DEF Invoke, CreateUser, UpdateUser, SetOnline, DeleteUser, GetUser, Login, Auth,
                Start, store
  <2>2. CASE StoreNew(p) /\ call[p].id \in Ids /\ users[call[p].id] = None
    BY <1>0, <2>2 DEF StoreNew
  <2>3. CASE StoreUpdate(p) \/ StoreDelete(p)
    <3>1. PICK r : users' = [users EXCEPT ![call[p].id] = r]
      BY <2>3 DEF StoreUpdate, StoreDelete
    <3>2. call[p].id # i
      BY <1>0, <2>3 DEF StoreUpdate, StoreDelete, Loaded
    <3> QED
      BY <1>0, <3>1, <3>2
  <2> QED
    BY <2>1, <2>2, <2>3, StepWrites
<1> QED
  BY <1>0, <1>1, NotLoadedAgain DEF Gone

\* However requests overlap, a user who is deleted and whose record no request under way
\* has loaded (memory_store.go:77, 112) stays deleted and unchanged for good.
THEOREM DeletionSettled == Spec => DeletionSettles
<1> DEFINE A == \A i \in Ids : Gone(i) => Gone(i)' /\ users'[i] = users[i]
<1>1. IndInv /\ [Next]_vars => [A]_vars
  BY GoneStays DEF Next
<1>2. [][A]_vars <=> DeletionSettles
  BY DEF DeletionSettles
<1> HIDE DEF A
<1> QED
  BY <1>1, <1>2, Invariance, PTL DEF Spec

-----------------------------------------------------------------------------
(* Clients that serialise: ~Overlap.  No two writing requests are about the  *)
(* same user, so what a request has loaded is what is stored, and the email  *)
(* index is as exact as the username index.                                  *)

Writing(p) == call[p].op \in {"UpdateUser", "SetOnline", "DeleteUser", "Login"}

\* The request that runs at each label
OpInv(p) ==
    /\ pc[p] = "idle" => call[p] = NoCall
    /\ pc[p] \in {"load", "claimEmail", "dropEmail", "storeUpdate"} =>
          call[p].op \in {"UpdateUser", "SetOnline", "Login"}
    /\ pc[p] \in {"loadDelete", "storeDelete"} =>
          call[p].op = "DeleteUser" /\ call[p].status = "deleted"
    /\ pc[p] = "read" => call[p].op \in {"GetUser", "UpdateUser"}
    /\ pc[p] \in {"findName", "findUser"} => call[p].op \in {"Login", "Auth"}
    /\ call[p].op = "Login" => call[p].username \in Usernames

\* Every user is the target of at most one writing request, also a user who is about
\* to be created and whose name a login already waits for.
Alone ==
    /\ \A p, q \in Procs : p # q /\ Writing(p) /\ Writing(q) =>
          Targets(p) \cap Targets(q) = {}
    /\ \A p, q \in Procs : p # q /\ call[p].op = "Login" /\ call[q].op = "Login" =>
          call[p].username # call[q].username
    /\ \A p, q \in Procs : p # q /\ pc[p] = "reserveName" /\ Writing(q) =>
          call[p].id \notin Targets(q)

\* What a request has loaded, or has stored and reads back, is what is stored; and the
\* index entries of the emails it has claimed or dropped are as it left them.
EmailInv(p) ==
    /\ pc[p] = "storeNew" => byEmail[call[p].email] = call[p].id
    /\ pc[p] \in {"claimEmail", "dropEmail"} => ChangesEmail(call[p], call[p].seen)
    /\ pc[p] \in {"dropEmail", "storeUpdate"} /\ call[p].email # None =>
          byEmail[call[p].email] = call[p].id
    /\ pc[p] = "storeUpdate" /\ ChangesEmail(call[p], call[p].seen) =>
          byEmail[call[p].seen.email] # call[p].id
    /\ Loaded(p) => users[call[p].id] = call[p].seen /\ Found(call[p].seen)
    /\ pc[p] = "read" /\ call[p].op = "UpdateUser" =>
          users[call[p].id] # None /\ users[call[p].id] = Updated(call[p])

SerialInv ==
    /\ IndInv
    /\ \A p \in Procs : OpInv(p) /\ EmailInv(p)
    /\ Alone
    /\ EmailIndexExact

LEMMA SerialInit == Init => SerialInv
<1> SUFFICES ASSUME Init PROVE SerialInv
  OBVIOUS
<1>1. \A p \in Procs : pc[p] = "idle" /\ call[p] = NoCall
  BY DEF Init
<1>2. \A p \in Procs : call[p].op = None /\ None \notin AllOps
  <2>1. NoCall.op = None
    BY DEF NoCall
  <2>2. None \notin AllOps
    BY NoneAssumption
  <2> QED
    BY <1>1, <2>1, <2>2
<1>3. \A p \in Procs : OpInv(p) /\ EmailInv(p)
  BY <1>1, <1>2 DEF OpInv, EmailInv, Loaded
<1>5. Alone
  BY <1>1, <1>2 DEF Alone, Writing
<1>4. EmailIndexExact
  <2>1. users[AdminId].email = AdminEmail /\ users[AdminId] # None
    <3>1. NewUser(AdminName, AdminEmail) \in User
      BY AdminAssumption DEF NewUser, User
    <3>2. users[AdminId] = NewUser(AdminName, AdminEmail)
      BY AdminAssumption DEF Init
    <3>3. NewUser(AdminName, AdminEmail).email = AdminEmail
      BY DEF NewUser
    <3> QED
      BY <3>1, <3>2, <3>3, NoneAssumption
  <2> QED
    BY <2>1, AdminAssumption, NoneAssumption DEF Init, EmailIndexExact
<1> QED
  BY <1>3, <1>4, <1>5, InitIndInv DEF SerialInv

-----------------------------------------------------------------------------
(* One request per user. *)

\* How the frame of the goroutine that moves changes in a step
LEMMA OwnFrame ==
  ASSUME TypeOK, NEW p \in Procs, Step(p)
  PROVE  \/ pc'[p] = "idle" /\ call'[p] = NoCall
         \/ call'[p] = call[p]
         \/ /\ call'[p] = [call[p] EXCEPT !.seen = users[call[p].id]]
            /\ pc[p] \in {"load", "loadDelete"}
         \/ /\ call'[p] = [call[p] EXCEPT !.id = byUsername[call[p].username]]
            /\ pc[p] = "findName"
<1>1. pc \in [Procs -> Labels] /\ call \in [Procs -> Call]
  BY DEF TypeOK
<1>2. ASSUME NEW r, Finish(p, r) PROVE pc'[p] = "idle" /\ call'[p] = NoCall
  BY <1>1, <1>2 DEF Finish
<1>3. ASSUME NEW c, NEW l, GotoWith(p, l, c) PROVE call'[p] = c /\ pc'[p] = l
  BY <1>1, <1>3 DEF GotoWith
<1>4. ASSUME NEW l, Goto(p, l) PROVE call'[p] = call[p]
  BY <1>3, <1>4 DEF Goto
<1>5. CASE Load(p)
  BY <1>2, <1>3, <1>5 DEF Load, UpdateFails
<1>6. CASE LoadDelete(p)
  BY <1>2, <1>3, <1>6 DEF LoadDelete
<1>7. CASE FindName(p)
  BY <1>2, <1>3, <1>7 DEF FindName
<1> QED
  BY <1>2, <1>4, <1>5, <1>6, <1>7 DEF Step, ReserveName, ReserveEmail, UndoName, StoreNew,
     ClaimEmail, DropEmail, StoreUpdate, Read, StoreDelete, FindUser, UpdateFails

LEMMA NoCallOp == NoCall.op = None /\ None \notin AllOps
<1>1. NoCall.op = None
  BY DEF NoCall
<1> QED
  BY <1>1, NoneAssumption

\* A request starts under its own label.
LEMMA OpStart ==
  ASSUME SerialInv, NEW p \in Procs, Invoke(p)
  PROVE  OpInv(p)'
<1>0. pc \in [Procs -> Labels] /\ call \in [Procs -> Call]
  BY DEF SerialInv, IndInv, TypeOK
<1>1. ASSUME NEW c, NEW l, Start(p, c, l) PROVE pc'[p] = l /\ call'[p] = c
  BY <1>0, <1>1 DEF Start
<1>2. ASSUME NEW n \in Usernames, NEW e \in Emails, NEW i \in Ids, CreateUser(p, n, e, i)
      PROVE  OpInv(p)'
  <2> DEFINE c == [NoCall EXCEPT !.op = "CreateUser", !.id = i, !.username = n, !.email = e]
  <2>1. pc'[p] = "reserveName" /\ call'[p] = c /\ c.op = "CreateUser"
    BY <1>1, <1>2 DEF CreateUser, NoCall
  <2> HIDE DEF c
  <2> QED
    BY <2>1 DEF OpInv
<1>3. ASSUME NEW i \in Ids, NEW e \in Emails \cup {None}, NEW s \in StatusInputs,
             UpdateUser(p, i, e, s)
      PROVE  OpInv(p)'
  <2> DEFINE c == [NoCall EXCEPT !.op = "UpdateUser", !.id = i, !.email = e, !.status = s]
  <2>1. pc'[p] = "load" /\ call'[p] = c /\ c.op = "UpdateUser"
    BY <1>1, <1>3 DEF UpdateUser, NoCall
  <2> HIDE DEF c
  <2> QED
    BY <2>1 DEF OpInv
<1>4. ASSUME NEW i \in Ids, NEW o \in BOOLEAN, SetOnline(p, i, o) PROVE OpInv(p)'
  <2> DEFINE c == [NoCall EXCEPT !.op = "SetOnline", !.id = i, !.online = o]
  <2>1. pc'[p] = "load" /\ call'[p] = c /\ c.op = "SetOnline"
    BY <1>1, <1>4 DEF SetOnline, NoCall
  <2> HIDE DEF c
  <2> QED
    BY <2>1 DEF OpInv
<1>5. ASSUME NEW i \in Ids, DeleteUser(p, i) PROVE OpInv(p)'
  <2> DEFINE c == [NoCall EXCEPT !.op = "DeleteUser", !.id = i, !.status = "deleted"]
  <2>1. pc'[p] = "loadDelete" /\ call'[p] = c /\ c.op = "DeleteUser" /\ c.status = "deleted"
    BY <1>1, <1>5 DEF DeleteUser, NoCall
  <2> HIDE DEF c
  <2> QED
    BY <2>1 DEF OpInv
<1>6. ASSUME NEW i \in Ids, GetUser(p, i) PROVE OpInv(p)'
  <2> DEFINE c == [NoCall EXCEPT !.op = "GetUser", !.id = i]
  <2>1. pc'[p] = "read" /\ call'[p] = c /\ c.op = "GetUser"
    BY <1>1, <1>6 DEF GetUser, NoCall
  <2> HIDE DEF c
  <2> QED
    BY <2>1 DEF OpInv
<1>7. ASSUME NEW n \in Usernames, Login(p, n) PROVE OpInv(p)'
  <2> DEFINE c == [NoCall EXCEPT !.op = "Login", !.username = n, !.online = TRUE]
  <2>1. pc'[p] = "findName" /\ call'[p] = c /\ c.op = "Login" /\ c.username = n
    BY <1>1, <1>7 DEF Login, NoCall
  <2> HIDE DEF c
  <2> QED
    BY <2>1 DEF OpInv
<1>8. ASSUME NEW n \in Usernames, Auth(p, n) PROVE OpInv(p)'
  <2> DEFINE c == [NoCall EXCEPT !.op = "Auth", !.username = n]
  <2>1. pc'[p] = "findName" /\ call'[p] = c /\ c.op = "Auth"
    BY <1>1, <1>8 DEF Auth, NoCall
  <2> HIDE DEF c
  <2> QED
    BY <2>1 DEF OpInv
<1> QED
  BY <1>2, <1>3, <1>4, <1>5, <1>6, <1>7, <1>8 DEF Invoke

\* And goes on under labels of its own.
LEMMA OpGoesOn ==
  ASSUME SerialInv, NEW p \in Procs, Step(p)
  PROVE  OpInv(p)'
<1>0. pc \in [Procs -> Labels] /\ call \in [Procs -> Call] /\ OpInv(p) /\ CreatorInv(p)
  BY DEF SerialInv, IndInv, TypeOK, FrameInv
<1>1. ASSUME NEW r, Finish(p, r) PROVE OpInv(p)'
  <2>1. pc'[p] = "idle" /\ call'[p] = NoCall
    BY <1>0, <1>1 DEF Finish
  <2> QED
    BY <2>1, NoCallOp DEF OpInv
<1>2. ASSUME NEW l, Goto(p, l),
             \/ Creating(p) /\ l \in {"reserveEmail", "undoName", "storeNew"}
             \/ /\ pc[p] \in {"claimEmail", "dropEmail"} /\ l \in {"dropEmail", "storeUpdate"}
             \/ call[p].op = "UpdateUser" /\ l = "read"
             \/ pc[p] = "findUser" /\ call[p].op = "Login" /\ l = "load"
      PROVE  OpInv(p)'
  <2>1. pc'[p] = l /\ call'[p] = call[p]
    BY <1>0, <1>2 DEF Goto, GotoWith
  <2>2. CASE Creating(p) /\ l \in {"reserveEmail", "undoName", "storeNew"}
    <3>1. call[p].op = "CreateUser"
      BY <1>0, <2>2 DEF CreatorInv
    <3> QED
      BY <2>1, <2>2, <3>1 DEF OpInv
  <2> QED
    BY <1>0, <1>2, <2>1, <2>2 DEF OpInv
<1>3. ASSUME NEW l, NEW c, GotoWith(p, l, c), c.op = call[p].op, c.username = call[p].username,
             c.status = call[p].status,
             \/ pc[p] = "load" /\ l \in {"claimEmail", "storeUpdate"}
             \/ pc[p] = "loadDelete" /\ l = "storeDelete"
             \/ pc[p] = "findName" /\ l = "findUser"
      PROVE  OpInv(p)'
  <2>1. pc'[p] = l /\ call'[p] = c
    BY <1>0, <1>3 DEF GotoWith
  <2> QED
    BY <1>0, <1>3, <2>1 DEF OpInv
<1>4. CASE Load(p)
  <2> DEFINE r == users[call[p].id]
             l == IF ChangesEmail(call[p], r) THEN "claimEmail" ELSE "storeUpdate"
             c == [call[p] EXCEPT !.seen = r]
  <2>1. CASE GotoWith(p, l, c)
    <3>1. c.op = call[p].op /\ c.username = call[p].username /\ c.status = call[p].status
      BY <1>0 DEF Call
    <3>2. l \in {"claimEmail", "storeUpdate"} /\ pc[p] = "load"
      BY <1>4 DEF Load
    <3> HIDE DEF c, l
    <3> QED
      BY <1>3, <2>1, <3>1, <3>2
  <2> QED
    BY <1>1, <1>4, <2>1 DEF Load, UpdateFails
<1>5. CASE LoadDelete(p)
  <2> DEFINE c == [call[p] EXCEPT !.seen = users[call[p].id]]
  <2>1. CASE GotoWith(p, "storeDelete", c)
    <3>1. c.op = call[p].op /\ c.username = call[p].username /\ c.status = call[p].status
      BY <1>0 DEF Call
    <3> HIDE DEF c
    <3> QED
      BY <1>3, <1>5, <2>1, <3>1 DEF LoadDelete
  <2> QED
    BY <1>1, <1>5, <2>1 DEF LoadDelete
<1>6. CASE FindName(p)
  <2> DEFINE c == [call[p] EXCEPT !.id = byUsername[call[p].username]]
  <2>1. CASE GotoWith(p, "findUser", c)
    <3>1. c.op = call[p].op /\ c.username = call[p].username /\ c.status = call[p].status
      BY <1>0 DEF Call
    <3> HIDE DEF c
    <3> QED
      BY <1>3, <1>6, <2>1, <3>1 DEF FindName
  <2> QED
    BY <1>1, <1>6, <2>1 DEF FindName
<1> QED
  BY <1>1, <1>2, <1>4, <1>5, <1>6 DEF Step, ReserveName, ReserveEmail, UndoName, StoreNew,
     ClaimEmail, DropEmail, StoreUpdate, Read, StoreDelete, FindUser, UpdateFails, Creating

LEMMA OpStep ==
  ASSUME SerialInv, NEW p \in Procs, Invoke(p) \/ Step(p)
  PROVE  \A q \in Procs : OpInv(q)'
<1>1. ASSUME NEW q \in Procs, q # p PROVE OpInv(q)'
  <2>1. pc'[q] = pc[q] /\ call'[q] = call[q] /\ OpInv(q)
    BY <1>1, OthersStay DEF SerialInv, IndInv
  <2> QED
    BY <2>1 DEF OpInv
<1> QED
  BY <1>1, OpStart, OpGoesOn

\* Requests that give up targets stay apart.
LEMMA Narrow ==
  ASSUME Alone,
         \A q \in Procs : Writing(q)' => Writing(q) /\ Targets(q)' \subseteq Targets(q),
         \A q \in Procs : call'[q].op = "Login" =>
            call[q].op = "Login" /\ call'[q].username = call[q].username,
         \A q \in Procs : pc'[q] = "reserveName" =>
            pc[q] = "reserveName" /\ call'[q].id = call[q].id
  PROVE  Alone'
<1> USE DEF Alone
<1>1. ASSUME NEW q \in Procs, NEW r \in Procs, q # r, Writing(q)', Writing(r)'
      PROVE  Targets(q)' \cap Targets(r)' = {}
  BY <1>1
<1>2. ASSUME NEW q \in Procs, NEW r \in Procs, q # r, call'[q].op = "Login", call'[r].op = "Login"
      PROVE  call'[q].username # call'[r].username
  BY <1>2
<1>3. ASSUME NEW q \in Procs, NEW r \in Procs, q # r, pc'[q] = "reserveName", Writing(r)'
      PROVE  call'[q].id \notin Targets(r)'
  BY <1>3
<1> QED
  BY <1>1, <1>2, <1>3

\* A request that starts keeps off the targets of the others.
LEMMA StartAlone ==
  ASSUME SerialInv, NEW p \in Procs, byUsername' = byUsername,
         \A q \in Procs : q # p => pc'[q] = pc[q] /\ call'[q] = call[q],
         Writing(p)' => \A q \in Procs : q # p /\ call[q].op \notin ReadOps =>
            Targets(p)' \cap Targets(q) = {},
         call'[p].op = "Login" => \A q \in Procs : q # p /\ call[q].op = "Login" =>
            call[q].username # call'[p].username,
         pc'[p] = "reserveName" => \A q \in Procs : q # p /\ call[q].op \notin ReadOps =>
            call'[p].id \notin Targets(q)
  PROVE  Alone'
<1>0. Alone /\ FrameInv /\ issued \subseteq Ids
  BY DEF SerialInv, IndInv, TypeOK
<1>1. \A q \in Procs : q # p =>
        /\ Targets(q)' = Targets(q)
        /\ Writing(q)' <=> Writing(q)
        /\ Writing(q) => call[q].op \notin ReadOps
  BY DEF Targets, Writing, ReadOps
<1>2. ASSUME NEW q \in Procs, NEW r \in Procs, q # r, Writing(q)', Writing(r)'
      PROVE  Targets(q)' \cap Targets(r)' = {}
  <2>1. CASE q # p /\ r # p
    BY <1>0, <1>1, <1>2, <2>1 DEF Alone
  <2>2. CASE q = p
    BY <1>1, <1>2, <2>2
  <2>3. CASE r = p
    BY <1>1, <1>2, <2>3
  <2> QED
    BY <2>1, <2>2, <2>3
<1>3. ASSUME NEW q \in Procs, NEW r \in Procs, q # r, call'[q].op = "Login", call'[r].op = "Login"
      PROVE  call'[q].username # call'[r].username
  BY <1>0, <1>3 DEF Alone
<1>4. ASSUME NEW q \in Procs, NEW r \in Procs, q # r, pc'[q] = "reserveName", Writing(r)'
      PROVE  call'[q].id \notin Targets(r)'
  <2>1. CASE q # p /\ r # p
    BY <1>0, <1>1, <1>4, <2>1 DEF Alone
  <2>2. CASE q = p
    BY <1>1, <1>4, <2>2
  <2>3. CASE r = p
    <3>1. q # p /\ pc[q] = "reserveName" /\ call'[q].id = call[q].id
      BY <1>4, <2>3
    <3>2. call[q].id \in Ids
      BY <1>0, <3>1 DEF FrameInv, CreatorInv, Creating
    <3>3. call[q].id \in Targets(q)
      BY <3>2 DEF Targets
    <3>4. Targets(p)' \cap Targets(q) = {}
      <4>1. call[q].op = "CreateUser"
        BY <1>0, <3>1 DEF FrameInv, CreatorInv, Creating
      <4> QED
        BY <1>4, <2>3, <3>1, <4>1 DEF ReadOps
    <3> QED
      BY <2>3, <3>1, <3>3, <3>4
  <2> QED
    BY <2>1, <2>2, <2>3
<1> QED
  BY <1>2, <1>3, <1>4 DEF Alone

\* The clients' guards keep every new request apart.
LEMMA InvokeAlone ==
  ASSUME ~Overlap, SerialInv, NEW p \in Procs, Invoke(p)
  PROVE  Alone'
<1>0. pc \in [Procs -> Labels] /\ call \in [Procs -> Call] /\ TypeOK
  BY DEF SerialInv, IndInv, TypeOK
<1>1. \A q \in Procs : q # p => pc'[q] = pc[q] /\ call'[q] = call[q]
  BY <1>0, OthersStay
<1>2. ASSUME NEW c, NEW l, Start(p, c, l)
      PROVE  pc'[p] = l /\ call'[p] = c /\ byUsername' = byUsername
  BY <1>0, <1>2 DEF Start, store
<1>3. ASSUME NEW i, NEW c, NEW l, MayWrite(i), Start(p, c, l), c.id = i, l # "reserveName",
             c.op \in {"UpdateUser", "SetOnline", "DeleteUser"}
      PROVE  Alone'
  <2>1. pc'[p] = l /\ call'[p] = c /\ byUsername' = byUsername
    BY <1>2, <1>3
  <2>2. Targets(p)' \subseteq {i} /\ call'[p].op # "Login" /\ pc'[p] # "reserveName"
    BY <1>3, <2>1 DEF Targets
  <2>3. \A q \in Procs : call[q].op \notin ReadOps => i \notin Targets(q)
    BY <1>3 DEF MayWrite
  <2> QED
    BY <1>1, <2>1, <2>2, <2>3, StartAlone
<1>4. ASSUME NEW i, NEW c, NEW l, MayWrite(i), Start(p, c, l), c.id = i, c.op = "CreateUser"
      PROVE  Alone'
  <2>1. pc'[p] = l /\ call'[p] = c /\ byUsername' = byUsername
    BY <1>2, <1>4
  <2>2. ~Writing(p)' /\ call'[p].op # "Login" /\ call'[p].id = i
    BY <1>4, <2>1 DEF Writing
  <2>3. \A q \in Procs : call[q].op \notin ReadOps => i \notin Targets(q)
    BY <1>4 DEF MayWrite
  <2> QED
    BY <1>1, <2>1, <2>2, <2>3, StartAlone
<1>5. ASSUME NEW n, NEW c, NEW l, MayLogin(n), Start(p, c, l), c.id = None, l = "findName",
             c.op = "Login", c.username = n
      PROVE  Alone'
  <2>1. pc'[p] = l /\ call'[p] = c /\ byUsername' = byUsername
    BY <1>2, <1>5
  <2>2. Targets(p)' \subseteq {byUsername[n]} /\ pc'[p] # "reserveName"
    <3>1. \A j \in Ids : call'[p].id # j
      BY <1>5, <2>1, NoneAssumption
    <3> QED
      BY <1>5, <2>1, <3>1 DEF Targets
  <2>3. \A q \in Procs : call[q].op \notin ReadOps => byUsername[n] \notin Targets(q)
    BY <1>5 DEF MayLogin, MayWrite
  <2>4. \A q \in Procs : call[q].op = "Login" => call[q].username # call'[p].username
    BY <1>5, <2>1 DEF MayLogin
  <2> QED
    BY <1>1, <2>1, <2>2, <2>3, <2>4, StartAlone
<1>6. ASSUME NEW c, NEW l, Start(p, c, l), c.op \in {"GetUser", "Auth"}, l # "reserveName"
      PROVE  Alone'
  <2>1. pc'[p] = l /\ call'[p] = c /\ byUsername' = byUsername
    BY <1>2, <1>6
  <2>2. ~Writing(p)' /\ call'[p].op # "Login" /\ pc'[p] # "reserveName"
    BY <1>6, <2>1 DEF Writing
  <2> QED
    BY <1>1, <2>1, <2>2, StartAlone
<1>7. ASSUME NEW n \in Usernames, NEW e \in Emails, NEW i \in Ids, CreateUser(p, n, e, i)
      PROVE  Alone'
  <2> DEFINE c == [NoCall EXCEPT !.op = "CreateUser", !.id = i, !.username = n, !.email = e]
  <2>1. MayWrite(i) /\ Start(p, c, "reserveName") /\ c.op = "CreateUser" /\ c.id = i
    BY <1>7 DEF CreateUser, NoCall
  <2> HIDE DEF c
  <2> QED
    BY <1>4, <2>1
<1>8. ASSUME NEW i \in Ids, NEW e \in Emails \cup {None}, NEW s \in StatusInputs,
             UpdateUser(p, i, e, s)
      PROVE  Alone'
  <2> DEFINE c == [NoCall EXCEPT !.op = "UpdateUser", !.id = i, !.email = e, !.status = s]
  <2>1. MayWrite(i) /\ Start(p, c, "load") /\ c.op = "UpdateUser" /\ c.id = i
    BY <1>8 DEF UpdateUser, NoCall
  <2> HIDE DEF c
  <2> QED
    BY <1>3, <2>1
<1>9. ASSUME NEW i \in Ids, NEW o \in BOOLEAN, SetOnline(p, i, o) PROVE Alone'
  <2> DEFINE c == [NoCall EXCEPT !.op = "SetOnline", !.id = i, !.online = o]
  <2>1. MayWrite(i) /\ Start(p, c, "load") /\ c.op = "SetOnline" /\ c.id = i
    BY <1>9 DEF SetOnline, NoCall
  <2> HIDE DEF c
  <2> QED
    BY <1>3, <2>1
<1>10. ASSUME NEW i \in Ids, DeleteUser(p, i) PROVE Alone'
  <2> DEFINE c == [NoCall EXCEPT !.op = "DeleteUser", !.id = i, !.status = "deleted"]
  <2>1. MayWrite(i) /\ Start(p, c, "loadDelete") /\ c.op = "DeleteUser" /\ c.id = i
    BY <1>10 DEF DeleteUser, NoCall
  <2> HIDE DEF c
  <2> QED
    BY <1>3, <2>1
<1>11. ASSUME NEW i \in Ids, GetUser(p, i) PROVE Alone'
  <2> DEFINE c == [NoCall EXCEPT !.op = "GetUser", !.id = i]
  <2>1. Start(p, c, "read") /\ c.op = "GetUser"
    BY <1>11 DEF GetUser, NoCall
  <2> HIDE DEF c
  <2> QED
    BY <1>6, <2>1
<1>12. ASSUME NEW n \in Usernames, Login(p, n) PROVE Alone'
  <2> DEFINE c == [NoCall EXCEPT !.op = "Login", !.username = n, !.online = TRUE]
  <2>1. /\ MayLogin(n) /\ Start(p, c, "findName") /\ c.op = "Login" /\ c.username = n
        /\ c.id = None
    BY <1>12 DEF Login, NoCall
  <2> HIDE DEF c
  <2> QED
    BY <1>5, <2>1
<1>13. ASSUME NEW n \in Usernames, Auth(p, n) PROVE Alone'
  <2> DEFINE c == [NoCall EXCEPT !.op = "Auth", !.username = n]
  <2>1. Start(p, c, "findName") /\ c.op = "Auth"
    BY <1>13 DEF Auth, NoCall
  <2> HIDE DEF c
  <2> QED
    BY <1>6, <2>1
<1> QED
  BY <1>7, <1>8, <1>9, <1>10, <1>11, <1>12, <1>13 DEF Invoke

\* A step that reserves no name gives targets up, or looks up one it already had.
LEMMA QuietAlone ==
  ASSUME SerialInv, NEW p \in Procs, Step(p),
         \A n \in Usernames : byUsername'[n] \in {byUsername[n], None}
  PROVE  Alone'
<1>0. /\ call \in [Procs -> Call] /\ TypeOK /\ Alone
      /\ \A q \in Procs : OpInv(q)
  BY DEF SerialInv, IndInv, TypeOK
<1>1. \A q \in Procs : q # p => pc'[q] = pc[q] /\ call'[q] = call[q]
  BY <1>0, OthersStay
<1>2. \A n \in Usernames, i \in Ids : byUsername'[n] = i => byUsername[n] = i
  BY NoneAssumption
<1>3. ASSUME NEW q \in Procs, q # p
      PROVE  /\ Writing(q)' => Writing(q) /\ Targets(q)' \subseteq Targets(q)
             /\ call'[q].op = "Login" =>
                  call[q].op = "Login" /\ call'[q].username = call[q].username
             /\ pc'[q] = "reserveName" => pc[q] = "reserveName" /\ call'[q].id = call[q].id
  BY <1>0, <1>1, <1>2, <1>3 DEF OpInv, Targets, Writing
<1>4. /\ Writing(p)' => Writing(p) /\ Targets(p)' \subseteq Targets(p)
      /\ call'[p].op = "Login" =>
           call[p].op = "Login" /\ call'[p].username = call[p].username
  <2>1. CASE pc'[p] = "idle" /\ call'[p] = NoCall
    BY <2>1, NoCallOp DEF Writing
  <2>2. CASE call'[p] = call[p]
    BY <1>0, <1>2, <2>2 DEF OpInv, Targets, Writing
  <2>3. CASE call'[p] = [call[p] EXCEPT !.seen = users[call[p].id]]
    <3>1. /\ call'[p].op = call[p].op /\ call'[p].username = call[p].username
          /\ call'[p].id = call[p].id
      BY <1>0, <2>3 DEF Call
    <3> QED
      BY <1>0, <1>2, <3>1 DEF OpInv, Targets, Writing
  <2>4. CASE /\ call'[p] = [call[p] EXCEPT !.id = byUsername[call[p].username]]
             /\ pc[p] = "findName"
    <3>1. /\ call'[p].op = call[p].op /\ call'[p].username = call[p].username
          /\ call'[p].id = byUsername[call[p].username]
      BY <1>0, <2>4 DEF Call
    <3>2. call[p].op \in {"Login", "Auth"}
      BY <1>0, <2>4 DEF OpInv
    <3> QED
      BY <1>0, <1>2, <3>1, <3>2 DEF OpInv, Targets, Writing
  <2> QED
    BY <1>0, <2>1, <2>2, <2>3, <2>4, OwnFrame
<1>5. pc'[p] # "reserveName"
  <2>1. pc \in [Procs -> Labels]
    BY <1>0 DEF TypeOK
  <2>2. ASSUME NEW r, Finish(p, r) PROVE pc'[p] # "reserveName"
    BY <2>1, <2>2 DEF Finish
  <2>3. ASSUME NEW l, NEW c, GotoWith(p, l, c), l # "reserveName" PROVE pc'[p] # "reserveName"
    BY <2>1, <2>3 DEF GotoWith
  <2> QED
    BY <2>2, <2>3 DEF Step, ReserveName, ReserveEmail, UndoName, StoreNew, Load, ClaimEmail,
       DropEmail, StoreUpdate, Read, LoadDelete, StoreDelete, FindName, FindUser, UpdateFails, Goto
<1> QED
  BY <1>0, <1>3, <1>4, <1>5, Narrow

\* A name that is reserved becomes a target of the login that waits for it, and of no
\* other request.
LEMMA ReserveAlone ==
  ASSUME SerialInv, NEW p \in Procs, pc[p] = "reserveName", pc'[p] # "reserveName",
         call'[p] = call[p], byUsername' = [byUsername EXCEPT ![call[p].username] = call[p].id],
         \A q \in Procs : q # p => pc'[q] = pc[q] /\ call'[q] = call[q]
  PROVE  Alone'
<1> DEFINE n == call[p].username
           i == call[p].id
<1>0. /\ byUsername \in [Usernames -> Ids \cup {None}] /\ Alone /\ FreshInv
      /\ \A q \in Procs : OpInv(q) /\ CreatorInv(q)
  BY DEF SerialInv, IndInv, TypeOK, FrameInv
<1>1. n \in Usernames /\ ~Writing(p)
  BY <1>0 DEF CreatorInv, Creating, Writing
<1>2. \A m \in Usernames : byUsername'[m] = IF m = n THEN i ELSE byUsername[m]
  BY <1>0, <1>1
<1> HIDE DEF n, i
<1>3. \A q \in Procs : /\ call'[q] = call[q]
                       /\ Writing(q)' <=> Writing(q)
                       /\ pc'[q] = "reserveName" => pc[q] = "reserveName" /\ q # p
  BY DEF Writing
<1>4. ASSUME NEW q \in Procs, ~(call[q].op = "Login" /\ call[q].username = n)
      PROVE  Targets(q)' \subseteq Targets(q)
  BY <1>0, <1>2, <1>3, <1>4 DEF Targets, OpInv
<1>5. ASSUME NEW q \in Procs PROVE Targets(q)' \subseteq Targets(q) \cup {i}
  BY <1>0, <1>2, <1>3 DEF Targets, OpInv
<1>6. \A q \in Procs : Writing(q) => q # p /\ i \notin Targets(q)
  BY <1>0, <1>1 DEF Alone, i
<1>7. ASSUME NEW q \in Procs, NEW r \in Procs, q # r, Writing(q)', Writing(r)'
      PROVE  Targets(q)' \cap Targets(r)' = {}
  <2>1. Writing(q) /\ Writing(r) /\ Targets(q) \cap Targets(r) = {}
    BY <1>0, <1>3, <1>7 DEF Alone
  <2>2. \/ ~(call[q].op = "Login" /\ call[q].username = n)
        \/ ~(call[r].op = "Login" /\ call[r].username = n)
    BY <1>0, <1>7 DEF Alone
  <2> QED
    BY <1>4, <1>5, <1>6, <2>1, <2>2
<1>8. ASSUME NEW q \in Procs, NEW r \in Procs, q # r, call'[q].op = "Login", call'[r].op = "Login"
      PROVE  call'[q].username # call'[r].username
  BY <1>0, <1>3, <1>8 DEF Alone
<1>9. ASSUME NEW q \in Procs, NEW r \in Procs, q # r, pc'[q] = "reserveName", Writing(r)'
      PROVE  call'[q].id \notin Targets(r)'
  <2>1. q # p /\ pc[q] = "reserveName" /\ Writing(r) /\ call[q].id \notin Targets(r)
    BY <1>0, <1>3, <1>9 DEF Alone
  <2>2. call[q].id # i
    BY <1>0, <2>1 DEF FreshInv, Creating, i
  <2> QED
    BY <1>3, <1>5, <2>1, <2>2
<1> QED
  BY <1>7, <1>8, <1>9 DEF Alone

LEMMA AloneStep ==
  ASSUME ~Overlap, SerialInv, NEW p \in Procs, Invoke(p) \/ Step(p)
  PROVE  Alone'
<1>0. TypeOK
  BY DEF SerialInv, IndInv
<1>1. \A q \in Procs : q # p => pc'[q] = pc[q] /\ call'[q] = call[q]
  BY <1>0, OthersStay
<1>2. CASE Step(p) /\ byUsername' = byUsername
  BY <1>2, QuietAlone
<1>3. CASE UndoName(p)
  <2>1. Step(p)
    BY <1>3 DEF Step
  <2>2. \A n \in Usernames : byUsername'[n] \in {byUsername[n], None}
    BY <1>0, <1>3 DEF UndoName, TypeOK
  <2> QED
    BY <2>1, <2>2, QuietAlone
<1>4. CASE ReserveName(p) /\ byUsername' # byUsername
  <2>1. /\ pc[p] = "reserveName" /\ Goto(p, "reserveEmail")
        /\ byUsername' = [byUsername EXCEPT ![call[p].username] = call[p].id]
    BY <1>4 DEF ReserveName
  <2>2. pc'[p] = "reserveEmail" /\ call'[p] = call[p]
    BY <1>0, <2>1 DEF Goto, GotoWith, TypeOK
  <2> QED
    BY <1>1, <2>1, <2>2, ReserveAlone
<1>5. CASE Step(p)
  <2>1. byUsername' = byUsername \/ UndoName(p) \/ ReserveName(p)
    BY <1>5 DEF Step, ReserveEmail, StoreNew, Load, ClaimEmail,
       DropEmail, StoreUpdate, Read, LoadDelete, StoreDelete, FindName, FindUser, store
  <2> QED
    BY <1>2, <1>3, <1>4, <1>5, <2>1
<1> QED
  BY <1>5, InvokeAlone

-----------------------------------------------------------------------------
(* What a request has loaded stays as it is. *)

\* Two writing requests are about different users.
LEMMA Sole ==
  ASSUME SerialInv, NEW p \in Procs, NEW q \in Procs, p # q, Writing(p), Writing(q),
         call[p].id \in Ids
  PROVE  call[p].id # call[q].id
BY DEF SerialInv, Alone, Targets

\* Goroutine q counts on the record it has loaded or stored.
Settled(q) == Loaded(q) \/ (pc[q] = "read" /\ call[q].op = "UpdateUser")

LEMMA SettledFacts ==
  ASSUME SerialInv, NEW q \in Procs, Settled(q)
  PROVE  Writing(q) /\ call[q].id \in Ids /\ users[call[q].id] # None
<1>1. OpInv(q) /\ UpdaterInv(q) /\ EmailInv(q)
  BY DEF SerialInv, IndInv, FrameInv
<1> QED
  BY <1>1 DEF Settled, Loaded, OpInv, UpdaterInv, EmailInv, Writing

LEMMA RecordStays ==
  ASSUME SerialInv, NEW p \in Procs, Step(p), NEW q \in Procs, q # p, Settled(q)
  PROVE  users'[call[q].id] = users[call[q].id]
<1>0. IndInv /\ users \in [Ids -> User \cup {None}] /\ OpInv(p)
  BY DEF SerialInv, IndInv, TypeOK
<1>1. Writing(q) /\ call[q].id \in Ids /\ users[call[q].id] # None
  BY SettledFacts
<1>2. CASE StoreNew(p) /\ call[p].id \in Ids /\ users[call[p].id] = None
  BY <1>0, <1>1, <1>2 DEF StoreNew
<1>3. CASE StoreUpdate(p) \/ StoreDelete(p)
  <2>1. Settled(p)
    BY <1>3 DEF StoreUpdate, StoreDelete, Settled, Loaded
  <2>2. Writing(p) /\ call[p].id \in Ids
    BY <2>1, SettledFacts
  <2>3. call[p].id # call[q].id
    BY <1>1, <2>2, Sole
  <2>4. PICK r : users' = [users EXCEPT ![call[p].id] = r]
    BY <1>3 DEF StoreUpdate, StoreDelete
  <2> QED
    BY <1>0, <1>1, <2>2, <2>3, <2>4
<1> QED
  BY <1>0, <1>2, <1>3, StepWrites

\* The record a request is about is indexed under its email, unless the request is itself
\* about to store another one.
LEMMA OwnEmail ==
  ASSUME SerialInv, NEW p \in Procs, Writing(p), call[p].id \in Ids, users[call[p].id] # None,
         pc[p] # "storeUpdate" \/ ~ChangesEmail(call[p], users[call[p].id])
  PROVE  byEmail[users[call[p].id].email] = call[p].id
<1>1. ASSUME NEW q \in Procs, pc[q] = "storeUpdate", call[q].id = call[p].id,
             ChangesEmail(call[q], users[call[p].id])
      PROVE  FALSE
  <2>1. q # p
    BY <1>1
  <2>2. Writing(q)
    BY <1>1, SettledFacts DEF Settled, Loaded
  <2> QED
    BY <1>1, <2>1, <2>2, Sole
<1> QED
  BY <1>1 DEF SerialInv, EmailIndexExact

\* How a step of goroutine p writes the email index
LEMMA EmailWrites ==
  ASSUME SerialInv, NEW p \in Procs, Step(p)
  PROVE  \/ byEmail' = byEmail
         \/ /\ ReserveEmail(p) \/ ClaimEmail(p)
            /\ call[p].email \in Emails /\ call[p].id \in Ids
            /\ byEmail[call[p].email] = None
            /\ byEmail' = [byEmail EXCEPT ![call[p].email] = call[p].id]
         \/ /\ DropEmail(p)
            /\ call[p].seen.email \in Emails /\ call[p].id \in Ids
            /\ byEmail[call[p].seen.email] = call[p].id
<1>0. /\ CreatorInv(p) /\ UpdaterInv(p) /\ EmailInv(p) /\ issued \subseteq Ids
  BY DEF SerialInv, IndInv, FrameInv, TypeOK
<1>1. CASE ReserveEmail(p) /\ byEmail' # byEmail
  BY <1>0, <1>1 DEF ReserveEmail, CreatorInv, Creating
<1>2. CASE ClaimEmail(p) /\ byEmail' # byEmail
  BY <1>0, <1>2 DEF ClaimEmail, UpdaterInv, Loaded
<1>3. CASE DropEmail(p)
  <2>1. pc[p] = "dropEmail" /\ Settled(p) /\ Loaded(p)
    BY <1>3 DEF DropEmail, Settled, Loaded
  <2>2. Writing(p) /\ call[p].id \in Ids /\ users[call[p].id] # None
    BY <2>1, SettledFacts
  <2>3. users[call[p].id] = call[p].seen /\ call[p].seen \in User
    BY <1>0, <2>1 DEF EmailInv, UpdaterInv
  <2>4. call[p].seen.email \in Emails
    BY <2>3 DEF User
  <2> QED
    BY <1>3, <2>1, <2>2, <2>3, <2>4, OwnEmail
<1> QED
  BY <1>1, <1>2, <1>3 DEF Step, ReserveName, UndoName, StoreNew, Load, StoreUpdate, Read,
     LoadDelete, StoreDelete, FindName, FindUser, store

\* A step writes only entries of its own user.
LEMMA EntriesStay ==
  ASSUME SerialInv, NEW p \in Procs, Step(p), NEW e \in Emails, NEW i \in Ids, i # call[p].id
  PROVE  byEmail'[e] = i <=> byEmail[e] = i
<1>0. byEmail \in [Emails -> Ids \cup {None}] /\ i # None
  BY NoneAssumption DEF SerialInv, IndInv, TypeOK
<1>1. CASE DropEmail(p) /\ byEmail[call[p].seen.email] = call[p].id
  BY <1>0, <1>1 DEF DropEmail
<1> QED
  BY <1>0, <1>1, EmailWrites

\* The other goroutines' frames still fit.
LEMMA EmailOthers ==
  ASSUME SerialInv, NEW p \in Procs, Step(p), NEW q \in Procs, q # p
  PROVE  EmailInv(q)'
<1>0. /\ TypeOK /\ issued \subseteq Ids /\ OpInv(p) /\ EmailInv(q) /\ EmailInv(p)
      /\ UpdaterInv(q) /\ CreatorInv(q) /\ CreatorInv(p) /\ call[q] \in Call /\ FreshInv
  BY DEF SerialInv, IndInv, FrameInv, TypeOK
<1>1. pc'[q] = pc[q] /\ call'[q] = call[q]
  BY <1>0, OthersStay
<1>2. Settled(q) => users'[call[q].id] = users[call[q].id]
  BY RecordStays
<1>3. ASSUME byEmail' # byEmail, NEW e \in Emails, Settled(q) \/ pc[q] = "storeNew"
      PROVE  byEmail'[e] = call[q].id <=> byEmail[e] = call[q].id
  <2>1. pc[p] \in {"reserveEmail", "claimEmail", "dropEmail"}
    BY <1>3, EmailWrites DEF ReserveEmail, ClaimEmail, DropEmail
  <2>2. call[q].id \in Ids
    BY <1>0, <1>3, SettledFacts DEF CreatorInv, Creating
  <2>3. call[q].id # call[p].id
    <3>1. CASE Settled(p) /\ Settled(q)
      BY <3>1, SettledFacts, Sole
    <3>2. CASE Settled(p) /\ pc[q] = "storeNew"
      BY <1>0, <3>2, SettledFacts DEF CreatorInv, Creating
    <3>3. CASE pc[p] = "reserveEmail" /\ Settled(q)
      BY <1>0, <3>3, SettledFacts DEF CreatorInv, Creating
    <3>4. CASE pc[p] = "reserveEmail" /\ pc[q] = "storeNew"
      BY <1>0, <3>4 DEF FreshInv, Creating
    <3> QED
      BY <1>3, <2>1, <3>1, <3>2, <3>3, <3>4 DEF Settled, Loaded
  <2> QED
    BY <2>2, <2>3, EntriesStay
<1>4. pc[q] = "storeNew" => call[q].email \in Emails
  BY <1>0 DEF CreatorInv, Creating
<1>5. call[q].email # None => call[q].email \in Emails
  BY <1>0 DEF Call
<1>6. Loaded(q) => call[q].seen.email \in Emails
  BY <1>0 DEF UpdaterInv, User
<1>7. pc[q] \in {"claimEmail", "dropEmail", "storeUpdate", "storeDelete"} => Settled(q) /\ Loaded(q)
  BY DEF Settled, Loaded
<1>8. /\ pc[q] = "storeNew" => byEmail'[call[q].email] = call[q].id
      /\ pc[q] \in {"dropEmail", "storeUpdate"} /\ call[q].email # None =>
           byEmail'[call[q].email] = call[q].id
      /\ pc[q] = "storeUpdate" /\ ChangesEmail(call[q], call[q].seen) =>
           byEmail'[call[q].seen.email] # call[q].id
  BY <1>0, <1>3, <1>4, <1>5, <1>6, <1>7 DEF EmailInv
<1>9. /\ Loaded(q) => users'[call[q].id] = call[q].seen /\ Found(call[q].seen)
      /\ pc[q] = "read" /\ call[q].op = "UpdateUser" =>
           users'[call[q].id] # None /\ users'[call[q].id] = Updated(call[q])
  BY <1>0, <1>2 DEF EmailInv, Settled
<1>10. pc[q] \in {"claimEmail", "dropEmail"} => ChangesEmail(call[q], call[q].seen)
  BY <1>0 DEF EmailInv
<1> QED
  BY <1>1, <1>8, <1>9, <1>10 DEF EmailInv, Loaded, ChangesEmail, Updated, Found

\* A request starts with nothing loaded, claimed or dropped.
LEMMA EmailStart ==
  ASSUME SerialInv, NEW p \in Procs, Invoke(p), NEW q \in Procs
  PROVE  EmailInv(q)'
<1>0. pc \in [Procs -> Labels] /\ call \in [Procs -> Call] /\ TypeOK /\ EmailInv(q)
  BY DEF SerialInv, IndInv, TypeOK
<1>1. ASSUME NEW c, NEW l, Start(p, c, l)
      PROVE  pc'[p] = l /\ users' = users /\ byEmail' = byEmail /\ call'[p] = c
  BY <1>0, <1>1 DEF Start, store
<1>2. CASE q # p
  <2>1. pc'[q] = pc[q] /\ call'[q] = call[q]
    BY <1>0, <1>2, OthersStay
  <2>2. users' = users /\ byEmail' = byEmail
    BY <1>1 DEF Invoke, CreateUser, UpdateUser, SetOnline, DeleteUser, GetUser, Login, Auth
  <2> QED
    BY <1>0, <2>1, <2>2 DEF EmailInv, Loaded, ChangesEmail, Updated, Found
<1>3. CASE q = p
  <2>1. ASSUME NEW i \in Ids, GetUser(p, i) PROVE EmailInv(p)'
    <3> DEFINE c == [NoCall EXCEPT !.op = "GetUser", !.id = i]
    <3>1. Start(p, c, "read") /\ c.op = "GetUser"
      BY <2>1 DEF GetUser, NoCall
    <3> HIDE DEF c
    <3>2. pc'[p] = "read" /\ call'[p].op = "GetUser"
      BY <1>1, <3>1
    <3> QED
      BY <3>2 DEF EmailInv, Loaded
  <2>2. ASSUME pc'[p] \in {"reserveName", "load", "loadDelete", "findName"} PROVE EmailInv(p)'
    BY <2>2 DEF EmailInv, Loaded
  <2>3. (\E i \in Ids : GetUser(p, i)) \/ pc'[p] \in {"reserveName", "load", "loadDelete", "findName"}
    BY <1>1 DEF Invoke, CreateUser, UpdateUser, SetOnline, DeleteUser, Login, Auth
  <2> QED
    BY <1>3, <2>1, <2>2, <2>3
<1> QED
  BY <1>2, <1>3

\* The frame of the goroutine that steps fits what it has just read or written.
LEMMA EmailOwn ==
  ASSUME SerialInv, NEW p \in Procs, Step(p)
  PROVE  EmailInv(p)'
<1>0. /\ pc \in [Procs -> Labels] /\ call \in [Procs -> Call] /\ call[p] \in Call
      /\ byEmail \in [Emails -> Ids \cup {None}] /\ users \in [Ids -> User \cup {None}]
      /\ OpInv(p) /\ EmailInv(p) /\ CreatorInv(p) /\ UpdaterInv(p) /\ IndInv
  BY DEF SerialInv, IndInv, FrameInv, TypeOK
<1>1. ASSUME NEW r, Finish(p, r) PROVE EmailInv(p)'
  <2>1. pc'[p] = "idle"
    BY <1>0, <1>1 DEF Finish
  <2> QED
    BY <2>1 DEF EmailInv, Loaded
<1>2. ASSUME NEW c, NEW l, GotoWith(p, l, c) PROVE pc'[p] = l /\ call'[p] = c
  BY <1>0, <1>2 DEF GotoWith
<1>3. ASSUME NEW c, NEW l, GotoWith(p, l, c), l \in {"reserveEmail", "undoName", "findUser", "load"}
      PROVE  EmailInv(p)'
  <2>1. pc'[p] = l
    BY <1>2, <1>3
  <2> QED
    BY <1>3, <2>1 DEF EmailInv, Loaded
<1>4. CASE ReserveEmail(p) /\ Goto(p, "storeNew")
  <2>1. pc'[p] = "storeNew" /\ call'[p] = call[p] /\ call[p].email \in Emails
    BY <1>0, <1>2, <1>4 DEF Goto, ReserveEmail, CreatorInv, Creating
  <2>2. byEmail' = [byEmail EXCEPT ![call[p].email] = call[p].id]
    <3>1. ~Goto(p, "undoName")
      BY <1>2, <2>1 DEF Goto
    <3> QED
      BY <1>4, <3>1 DEF ReserveEmail
  <2>3. byEmail'[call[p].email] = call[p].id
    BY <1>0, <2>1, <2>2
  <2> QED
    BY <2>1, <2>3 DEF EmailInv, Loaded
<1>5. CASE Load(p)
  <2> DEFINE r == users[call[p].id]
             l == IF ChangesEmail(call[p], r) THEN "claimEmail" ELSE "storeUpdate"
             c == [call[p] EXCEPT !.seen = r]
  <2>1. CASE Found(r) /\ GotoWith(p, l, c)
    <3>1. /\ c.email = call[p].email /\ c.id = call[p].id /\ c.seen = r /\ c.op = call[p].op
      BY <1>0 DEF Call
    <3>2. pc[p] = "load" /\ users' = users /\ byEmail' = byEmail
      BY <1>5 DEF Load, store
    <3>3. Writing(p) /\ call[p].id \in Ids
      BY <1>0, <3>2 DEF OpInv, UpdaterInv, Writing
    <3>4. byEmail[r.email] = call[p].id
      BY <2>1, <3>2, <3>3, OwnEmail DEF Found
    <3>5. pc'[p] = l /\ call'[p] = c
      BY <1>2, <2>1
    <3>6. users'[call[p].id] = r
      BY <3>2
    <3>7. l \in {"claimEmail", "storeUpdate"} /\ (l = "claimEmail" <=> ChangesEmail(call[p], r))
      OBVIOUS
    <3> HIDE DEF c, l, r
    <3>8. l = "storeUpdate" /\ c.email # None => byEmail[c.email] = c.id
      BY <3>1, <3>4, <3>7 DEF ChangesEmail
    <3> QED
      BY <2>1, <3>1, <3>2, <3>5, <3>6, <3>7, <3>8 DEF EmailInv, ChangesEmail, Loaded
  <2> QED
    BY <1>1, <1>5, <2>1 DEF Load, UpdateFails
<1>6. CASE ClaimEmail(p) /\ Goto(p, "dropEmail")
  <2>1. /\ pc[p] = "claimEmail" /\ pc'[p] = "dropEmail" /\ call'[p] = call[p] /\ users' = users
        /\ call[p].email \in Emails
    BY <1>0, <1>2, <1>6 DEF Goto, ClaimEmail, UpdaterInv
  <2>2. byEmail' = [byEmail EXCEPT ![call[p].email] = call[p].id]
    <3>1. \A r : ~UpdateFails(p, r)
      BY <1>0, <2>1 DEF UpdateFails, Finish
    <3> QED
      BY <1>6, <3>1 DEF ClaimEmail
  <2>3. byEmail'[call[p].email] = call[p].id
    BY <1>0, <2>1, <2>2
  <2> QED
    BY <1>0, <2>1, <2>3 DEF EmailInv, Loaded, ChangesEmail
<1>7. CASE DropEmail(p)
  <2>1. /\ pc[p] = "dropEmail" /\ pc'[p] = "storeUpdate" /\ call'[p] = call[p] /\ users' = users
        /\ byEmail' = [byEmail EXCEPT ![call[p].seen.email] = None]
    BY <1>2, <1>7 DEF Goto, DropEmail
  <2>2. /\ ChangesEmail(call[p], call[p].seen) /\ call[p].seen \in User /\ call[p].id \in Ids
        /\ users[call[p].id] = call[p].seen /\ Found(call[p].seen)
        /\ byEmail[call[p].email] = call[p].id
    BY <1>0, <2>1 DEF EmailInv, UpdaterInv, Loaded, ChangesEmail
  <2>3. call[p].seen.email \in Emails /\ call[p].email \in Emails /\ call[p].email # call[p].seen.email
    BY <1>0, <2>2 DEF ChangesEmail, User, Call
  <2>4. byEmail'[call[p].email] = call[p].id /\ byEmail'[call[p].seen.email] = None
    BY <1>0, <2>1, <2>2, <2>3
  <2>5. byEmail'[call[p].seen.email] # call[p].id
    BY <2>2, <2>4, NoneAssumption
  <2> QED
    BY <2>1, <2>2, <2>4, <2>5 DEF EmailInv, Loaded
<1>8. CASE StoreUpdate(p) /\ Goto(p, "read")
  <2>1. /\ pc[p] = "storeUpdate" /\ pc'[p] = "read" /\ call'[p] = call[p]
        /\ users' = [users EXCEPT ![call[p].id] = Updated(call[p])]
    BY <1>2, <1>8 DEF Goto, StoreUpdate
  <2>2. call[p].id \in Ids /\ Updated(call[p]) \in User
    BY <1>0, <2>1, LoadedFacts, UpdatedFacts
  <2>3. users'[call[p].id] = Updated(call[p]) /\ Updated(call[p]) # None
    BY <1>0, <2>1, <2>2, NoneAssumption
  <2> QED
    BY <2>1, <2>3 DEF EmailInv, Loaded, Updated
<1>9. CASE LoadDelete(p)
  <2> DEFINE r == users[call[p].id]
             c == [call[p] EXCEPT !.seen = r]
  <2>1. CASE Found(r) /\ GotoWith(p, "storeDelete", c)
    <3>1. c.id = call[p].id /\ c.seen = r
      BY <1>0 DEF Call
    <3>2. pc'[p] = "storeDelete" /\ call'[p] = c
      BY <1>2, <2>1
    <3>3. users'[call[p].id] = r
      BY <1>9 DEF LoadDelete, store
    <3> HIDE DEF c, r
    <3> QED
      BY <2>1, <3>1, <3>2, <3>3 DEF EmailInv, Loaded
  <2> QED
    BY <1>1, <1>9, <2>1 DEF LoadDelete
<1>10. CASE FindName(p)
  BY <1>1, <1>3, <1>10 DEF FindName
<1>11. CASE FindUser(p)
  BY <1>1, <1>3, <1>11 DEF FindUser, Goto
<1>12. CASE ReserveName(p)
  BY <1>1, <1>3, <1>12 DEF ReserveName, Goto
<1>13. CASE ReserveEmail(p)
  BY <1>3, <1>4, <1>13 DEF ReserveEmail, Goto
<1>14. CASE ClaimEmail(p)
  BY <1>1, <1>6, <1>14 DEF ClaimEmail, UpdateFails
<1>15. CASE StoreUpdate(p)
  BY <1>1, <1>8, <1>15 DEF StoreUpdate
<1>16. CASE UndoName(p) \/ StoreNew(p) \/ Read(p) \/ StoreDelete(p)
  BY <1>1, <1>16 DEF UndoName, StoreNew, Read, StoreDelete
<1> QED
  BY <1>5, <1>7, <1>9, <1>10, <1>11, <1>12, <1>13, <1>14, <1>15, <1>16 DEF Step

LEMMA EmailStep ==
  ASSUME SerialInv, NEW p \in Procs, Invoke(p) \/ Step(p)
  PROVE  \A q \in Procs : EmailInv(q)'
BY EmailStart, EmailOthers, EmailOwn

-----------------------------------------------------------------------------
(* The email index. *)

\* A goroutine that explains why an entry and the records differ at email e of user i
Moving(q, i, e) ==
    pc[q] \in {"storeNew", "dropEmail", "storeUpdate"} /\ call[q].id = i /\ call[q].email = e

\* The two halves of EmailIndexExact, for one user and for one email
IndexedUser(i) ==
    users[i] # None =>
      \/ byEmail[users[i].email] = i
      \/ \E q \in Procs : pc[q] = "storeUpdate" /\ call[q].id = i /\ ChangesEmail(call[q], users[i])

UsedEntry(e) ==
    byEmail[e] # None =>
      \/ users[byEmail[e]] # None /\ users[byEmail[e]].email = e
      \/ \E q \in Procs : Moving(q, byEmail[e], e)

LEMMA IndexParts ==
  /\ EmailIndexExact <=> (\A i \in Ids : IndexedUser(i)) /\ (\A e \in Emails : UsedEntry(e))
  /\ EmailIndexExact' <=> (\A i \in Ids : IndexedUser(i)') /\ (\A e \in Emails : UsedEntry(e)')
<1>1. EmailIndexExact <=> (\A i \in Ids : IndexedUser(i)) /\ (\A e \in Emails : UsedEntry(e))
  BY DEF EmailIndexExact, IndexedUser, UsedEntry, Moving
<1>2. EmailIndexExact' <=> (\A i \in Ids : IndexedUser(i)') /\ (\A e \in Emails : UsedEntry(e)')
  BY DEF EmailIndexExact, IndexedUser, UsedEntry, Moving
<1> QED
  BY <1>1, <1>2

\* A step that stores no email and writes no entry, of a goroutine that explains nothing
LEMMA IndexQuiet ==
  ASSUME EmailIndexExact, NEW p \in Procs, byEmail \in [Emails -> Ids \cup {None}],
         byEmail' = byEmail,
         \A i \in Ids : /\ users'[i] = None <=> users[i] = None
                        /\ users'[i] # None => users'[i].email = users[i].email,
         pc[p] \notin {"storeNew", "dropEmail", "storeUpdate"},
         \A q \in Procs : q # p => pc'[q] = pc[q] /\ call'[q] = call[q]
  PROVE  EmailIndexExact'
<1>1. ASSUME NEW i \in Ids PROVE IndexedUser(i)'
  <2>1. IndexedUser(i)
    BY IndexParts
  <2> QED
    BY <2>1 DEF IndexedUser, ChangesEmail
<1>2. ASSUME NEW e \in Emails PROVE UsedEntry(e)'
  <2>1. UsedEntry(e) /\ (byEmail[e] # None => byEmail[e] \in Ids)
    BY IndexParts
  <2> QED
    BY <2>1 DEF UsedEntry, Moving
<1> QED
  BY <1>1, <1>2, IndexParts

\* An entry is taken by a goroutine that goes on to store the email.
LEMMA IndexTake ==
  ASSUME EmailIndexExact, NEW p \in Procs, byEmail \in [Emails -> Ids \cup {None}],
         users' = users, call[p].email \in Emails, byEmail[call[p].email] = None,
         byEmail' = [byEmail EXCEPT ![call[p].email] = call[p].id],
         pc[p] \in {"reserveEmail", "claimEmail"}, pc'[p] \in {"storeNew", "dropEmail"},
         call'[p] = call[p],
         \A q \in Procs : q # p => pc'[q] = pc[q] /\ call'[q] = call[q]
  PROVE  EmailIndexExact'
<1>0. \A e \in Emails : e # call[p].email => byEmail'[e] = byEmail[e]
  OBVIOUS
<1>1. ASSUME NEW i \in Ids PROVE IndexedUser(i)'
  <2>1. IndexedUser(i) /\ i # None
    BY IndexParts, NoneAssumption
  <2>2. CASE byEmail[users[i].email] = i
    <3>1. byEmail'[users[i].email] = i
      BY <2>1, <2>2
    <3> QED
      BY <3>1 DEF IndexedUser
  <2>3. ASSUME NEW q \in Procs, pc[q] = "storeUpdate", call[q].id = i, ChangesEmail(call[q], users[i])
        PROVE  IndexedUser(i)'
    <3>1. q # p
      BY <2>3
    <3>2. pc'[q] = "storeUpdate" /\ call'[q].id = i /\ ChangesEmail(call'[q], users'[i])
      BY <2>3, <3>1
    <3> QED
      BY <3>2 DEF IndexedUser, ChangesEmail
  <2> QED
    BY <2>1, <2>2, <2>3 DEF IndexedUser
<1>2. ASSUME NEW e \in Emails PROVE UsedEntry(e)'
  <2>1. UsedEntry(e)
    BY IndexParts
  <2>2. CASE e = call[p].email
    <3>1. byEmail'[e] = call[p].id
      BY <2>2
    <3> QED
      BY <2>2, <3>1 DEF UsedEntry, Moving
  <2>3. CASE e # call[p].email
    BY <1>0, <2>1, <2>3 DEF UsedEntry, Moving
  <2> QED
    BY <2>2, <2>3
<1> QED
  BY <1>1, <1>2, IndexParts

LEMMA IndexStoreNew ==
  ASSUME SerialInv, NEW p \in Procs, StoreNew(p)
  PROVE  EmailIndexExact'
<1> DEFINE i0 == call[p].id
           n0 == call[p].username
           e0 == call[p].email
<1>0. /\ TypeOK /\ EmailIndexExact /\ FreshInv /\ EmailInv(p)
      /\ byEmail \in [Emails -> Ids \cup {None}] /\ users \in [Ids -> User \cup {None}]
      /\ issued \subseteq Ids /\ \A q \in Procs : CreatorInv(q) /\ UpdaterInv(q)
  BY DEF SerialInv, IndInv, TypeOK, FrameInv
<1>1. /\ pc[p] = "storeNew" /\ byEmail' = byEmail
      /\ users' = [users EXCEPT ![i0] = NewUser(n0, e0)]
  BY DEF StoreNew
<1>2. i0 \in Ids /\ users[i0] = None /\ n0 \in Usernames /\ e0 \in Emails /\ byEmail[e0] = i0
  BY <1>0, <1>1 DEF CreatorInv, Creating, EmailInv
<1>3. \A q \in Procs : q # p => pc'[q] = pc[q] /\ call'[q] = call[q]
  BY <1>0, OthersStay DEF Step
<1>4. NewUser(n0, e0).email = e0 /\ NewUser(n0, e0) # None
  <2>1. NewUser(n0, e0) \in User
    BY <1>2 DEF NewUser, User
  <2>2. NewUser(n0, e0).email = e0
    BY DEF NewUser
  <2> QED
    BY <2>1, <2>2, NoneAssumption
<1>5. /\ users'[i0] = NewUser(n0, e0)
      /\ \A i \in Ids : i # i0 => users'[i] = users[i]
  BY <1>0, <1>1, <1>2
<1>6. \A q \in Procs : q # p /\ pc[q] \in {"storeNew", "dropEmail", "storeUpdate"} => call[q].id # i0
  BY <1>0, <1>1, <1>2 DEF CreatorInv, UpdaterInv, Creating, Loaded, FreshInv
<1> HIDE DEF i0, n0, e0
<1>7. ASSUME NEW i \in Ids PROVE IndexedUser(i)'
  <2>1. IndexedUser(i)
    BY <1>0, IndexParts
  <2>2. CASE i = i0
    BY <1>1, <1>2, <1>4, <1>5, <2>2 DEF IndexedUser
  <2>3. CASE i # i0
    <3>1. users'[i] = users[i]
      BY <1>5, <2>3
    <3>2. \A q \in Procs : pc[q] = "storeUpdate" => pc'[q] = pc[q] /\ call'[q] = call[q]
      BY <1>1, <1>3
    <3> QED
      BY <1>1, <2>1, <3>1, <3>2 DEF IndexedUser, ChangesEmail
  <2> QED
    BY <2>2, <2>3
<1>8. ASSUME NEW e \in Emails PROVE UsedEntry(e)'
  <2>1. UsedEntry(e) /\ (byEmail[e] # None => byEmail[e] \in Ids)
    BY <1>0, IndexParts
  <2>2. CASE byEmail[e] = i0
    <3>1. \E q \in Procs : Moving(q, i0, e)
      BY <1>2, <2>1, <2>2, NoneAssumption DEF UsedEntry
    <3>2. e = e0
      BY <1>6, <3>1 DEF Moving, e0
    <3> QED
      BY <1>1, <1>4, <1>5, <2>2, <3>2 DEF UsedEntry
  <2>3. CASE byEmail[e] # i0 /\ byEmail[e] # None
    <3>1. users'[byEmail[e]] = users[byEmail[e]]
      BY <1>5, <2>1, <2>3
    <3>2. ASSUME NEW q \in Procs, Moving(q, byEmail[e], e) PROVE Moving(q, byEmail[e], e)'
      <4>1. q # p
        BY <2>3, <3>2 DEF Moving, i0
      <4>2. pc'[q] = pc[q] /\ call'[q] = call[q]
        BY <1>3, <4>1
      <4> QED
        BY <1>1, <3>2, <4>2 DEF Moving
    <3> QED
      BY <1>1, <2>1, <2>3, <3>1, <3>2 DEF UsedEntry
  <2>4. CASE byEmail[e] = None
    BY <1>1, <2>4 DEF UsedEntry
  <2> QED
    BY <2>2, <2>3, <2>4
<1> QED
  BY <1>7, <1>8, IndexParts

LEMMA IndexDrop ==
  ASSUME SerialInv, NEW p \in Procs, DropEmail(p)
  PROVE  EmailIndexExact'
<1> DEFINE i0 == call[p].id
           e0 == call[p].seen.email
<1>0. /\ TypeOK /\ EmailIndexExact /\ EmailInv(p) /\ Step(p)
      /\ byEmail \in [Emails -> Ids \cup {None}] /\ pc \in [Procs -> Labels]
      /\ call \in [Procs -> Call]
  BY DEF SerialInv, IndInv, TypeOK, Step
<1>1. /\ pc[p] = "dropEmail" /\ pc'[p] = "storeUpdate" /\ call'[p] = call[p] /\ users' = users
      /\ byEmail' = [byEmail EXCEPT ![e0] = None]
  BY <1>0 DEF DropEmail, Goto, GotoWith
<1>2. users[i0] = call[p].seen /\ ChangesEmail(call[p], call[p].seen)
  BY <1>0, <1>1 DEF EmailInv, Loaded
<1>3. \A q \in Procs : q # p => pc'[q] = pc[q] /\ call'[q] = call[q]
  BY <1>0, OthersStay
<1>4. \A q \in Procs : /\ call'[q] = call[q]
                       /\ pc[q] \in {"storeNew", "dropEmail", "storeUpdate"} =>
                            pc'[q] \in {"storeNew", "dropEmail", "storeUpdate"}
                       /\ pc[q] = "storeUpdate" => pc'[q] = "storeUpdate"
  BY <1>1, <1>3
<1>5. \A e \in Emails : byEmail'[e] # None => byEmail'[e] = byEmail[e]
  BY <1>0, <1>1
<1>6. \A e \in Emails, i \in Ids : i # i0 /\ byEmail[e] = i => byEmail'[e] = i
  BY <1>0, EntriesStay
<1> HIDE DEF i0, e0
<1>7. ASSUME NEW i \in Ids PROVE IndexedUser(i)'
  <2>1. IndexedUser(i)
    BY <1>0, IndexParts
  <2>2. CASE i = i0
    BY <1>1, <1>2, <2>2 DEF IndexedUser, ChangesEmail, i0
  <2>3. CASE i # i0 /\ users[i] # None
    <3>1. users[i].email \in Emails
      BY <1>0, <2>3 DEF TypeOK, User
    <3> QED
      BY <1>1, <1>4, <1>6, <2>1, <2>3, <3>1 DEF IndexedUser, ChangesEmail
  <2> QED
    BY <1>1, <2>2, <2>3 DEF IndexedUser
<1>8. ASSUME NEW e \in Emails PROVE UsedEntry(e)'
  <2>1. UsedEntry(e)
    BY <1>0, IndexParts
  <2> QED
    BY <1>1, <1>4, <1>5, <2>1 DEF UsedEntry, Moving
<1> QED
  BY <1>7, <1>8, IndexParts

LEMMA IndexStoreUpdate ==
  ASSUME SerialInv, NEW p \in Procs, StoreUpdate(p)
  PROVE  EmailIndexExact'
<1> DEFINE i0 == call[p].id
           r0 == Updated(call[p])
<1>0. /\ TypeOK /\ EmailIndexExact /\ EmailInv(p) /\ Step(p) /\ IndInv
      /\ byEmail \in [Emails -> Ids \cup {None}] /\ users \in [Ids -> User \cup {None}]
      /\ call[p] \in Call /\ \A q \in Procs : CreatorInv(q)
  BY DEF SerialInv, IndInv, TypeOK, Step, FrameInv
<1>1. /\ pc[p] = "storeUpdate" /\ byEmail' = byEmail
      /\ users' = [users EXCEPT ![i0] = r0]
  BY DEF StoreUpdate
<1>2. /\ Writing(p) /\ i0 \in Ids /\ users[i0] # None /\ users[i0] = call[p].seen
      /\ call[p].seen \in User
  BY <1>0, <1>1, SettledFacts, LoadedFacts DEF Settled, Loaded, EmailInv
<1>3. \A q \in Procs : q # p => pc'[q] = pc[q] /\ call'[q] = call[q]
  BY <1>0, OthersStay
<1>4. r0 # None
  BY <1>0, <1>2, UpdatedFacts, NoneAssumption
<1>5. r0.email = IF call[p].email # None THEN call[p].email ELSE call[p].seen.email
  BY <1>0, <1>2 DEF Updated, User
<1>6. /\ users'[i0] = r0
      /\ \A i \in Ids : i # i0 => users'[i] = users[i]
  BY <1>0, <1>1, <1>2
<1>7. \A q \in Procs : q # p /\ pc[q] \in {"storeNew", "dropEmail", "storeUpdate"} => call[q].id # i0
  <2>1. ASSUME NEW q \in Procs, q # p, pc[q] \in {"dropEmail", "storeUpdate"} PROVE call[q].id # i0
    <3>1. Writing(q)
      BY <2>1, SettledFacts DEF Settled, Loaded
    <3> QED
      BY <1>2, <2>1, <3>1, Sole
  <2>2. ASSUME NEW q \in Procs, pc[q] = "storeNew" PROVE call[q].id # i0
    BY <1>0, <1>2, <2>2 DEF CreatorInv, Creating
  <2> QED
    BY <2>1, <2>2
<1>8. /\ call[p].email # None => byEmail[call[p].email] = i0
      /\ ChangesEmail(call[p], users[i0]) => byEmail[users[i0].email] # i0
      /\ ~ChangesEmail(call[p], users[i0]) => byEmail[users[i0].email] = i0
  <2>1. ~ChangesEmail(call[p], users[i0]) => byEmail[users[i0].email] = i0
    BY <1>2, OwnEmail
  <2> QED
    BY <1>0, <1>1, <1>2, <2>1 DEF EmailInv
<1> HIDE DEF i0, r0
<1>9. ASSUME NEW i \in Ids PROVE IndexedUser(i)'
  <2>1. IndexedUser(i)
    BY <1>0, IndexParts
  <2>2. CASE i = i0
    <3>1. byEmail[r0.email] = i0
      BY <1>2, <1>5, <1>8 DEF ChangesEmail
    <3> QED
      BY <1>1, <1>6, <2>2, <3>1 DEF IndexedUser
  <2>3. CASE i # i0
    <3>1. users'[i] = users[i]
      BY <1>6, <2>3
    <3>2. \A q \in Procs : call[q].id = i => pc'[q] = pc[q] /\ call'[q] = call[q]
      BY <1>3, <2>3 DEF i0
    <3> QED
      BY <1>1, <2>1, <3>1, <3>2 DEF IndexedUser, ChangesEmail
  <2> QED
    BY <2>2, <2>3
<1>10. ASSUME NEW e \in Emails PROVE UsedEntry(e)'
  <2>1. UsedEntry(e) /\ (byEmail[e] # None => byEmail[e] \in Ids)
    BY <1>0, IndexParts
  <2>2. CASE byEmail[e] = i0
    <3>1. i0 # None
      BY <1>2, NoneAssumption
    <3>2. CASE users[i0].email = e
      <4>1. r0.email = e
        BY <1>2, <1>5, <1>8, <2>2, <3>2 DEF ChangesEmail
      <4> QED
        BY <1>1, <1>4, <1>6, <2>2, <4>1 DEF UsedEntry
    <3>3. ASSUME NEW q \in Procs, Moving(q, i0, e) PROVE UsedEntry(e)'
      <4>1. q = p
        BY <1>7, <3>3 DEF Moving
      <4>2. call[p].email = e /\ e # None
        BY <3>3, <4>1, NoneAssumption DEF Moving
      <4>3. r0.email = e
        BY <1>5, <4>2
      <4> QED
        BY <1>1, <1>4, <1>6, <2>2, <4>3 DEF UsedEntry
    <3> QED
      BY <2>1, <2>2, <3>1, <3>2, <3>3 DEF UsedEntry
  <2>3. CASE byEmail[e] # i0 /\ byEmail[e] # None
    <3>1. users'[byEmail[e]] = users[byEmail[e]]
      BY <1>6, <2>1, <2>3
    <3>2. ASSUME NEW q \in Procs, Moving(q, byEmail[e], e) PROVE Moving(q, byEmail[e], e)'
      <4>1. q # p
        BY <2>3, <3>2 DEF Moving, i0
      <4>2. pc'[q] = pc[q] /\ call'[q] = call[q]
        BY <1>3, <4>1
      <4> QED
        BY <1>1, <3>2, <4>2 DEF Moving
    <3> QED
      BY <1>1, <2>1, <2>3, <3>1, <3>2 DEF UsedEntry
  <2>4. CASE byEmail[e] = None
    BY <1>1, <2>4 DEF UsedEntry
  <2> QED
    BY <2>2, <2>3, <2>4
<1> QED
  BY <1>9, <1>10, IndexParts

LEMMA IndexStoreDelete ==
  ASSUME SerialInv, NEW p \in Procs, StoreDelete(p)
  PROVE  EmailIndexExact'
<1>0. /\ TypeOK /\ EmailIndexExact /\ EmailInv(p) /\ Step(p) /\ IndInv
      /\ byEmail \in [Emails -> Ids \cup {None}] /\ users \in [Ids -> User \cup {None}]
  BY DEF SerialInv, IndInv, TypeOK, Step
<1> DEFINE i0 == call[p].id
           r0 == [call[p].seen EXCEPT !.status = "deleted"]
<1>1. /\ pc[p] = "storeDelete" /\ byEmail' = byEmail
      /\ users' = [users EXCEPT ![i0] = r0]
  BY DEF StoreDelete
<1>2. i0 \in Ids /\ users[i0] # None /\ users[i0] = call[p].seen /\ call[p].seen \in User
  BY <1>0, <1>1, LoadedFacts DEF EmailInv, Loaded
<1>3. \A q \in Procs : q # p => pc'[q] = pc[q] /\ call'[q] = call[q]
  BY <1>0, OthersStay
<1>4. r0.email = call[p].seen.email /\ r0 \in User
  BY <1>2 DEF User
<1>5. r0 # None
  BY <1>4, NoneAssumption
<1> HIDE DEF i0, r0
<1>6. \A i \in Ids : /\ users'[i] = None <=> users[i] = None
                     /\ users'[i] # None => users'[i].email = users[i].email
  BY <1>0, <1>1, <1>2, <1>4, <1>5
<1> QED
  BY <1>0, <1>1, <1>3, <1>6, IndexQuiet

LEMMA IndexStep ==
  ASSUME SerialInv, NEW p \in Procs, Invoke(p) \/ Step(p)
  PROVE  EmailIndexExact'
<1>0. /\ TypeOK /\ EmailIndexExact /\ OpInv(p)
      /\ byEmail \in [Emails -> Ids \cup {None}] /\ users \in [Ids -> User \cup {None}]
      /\ pc \in [Procs -> Labels] /\ call \in [Procs -> Call]
  BY DEF SerialInv, IndInv, TypeOK
<1>1. \A q \in Procs : q # p => pc'[q] = pc[q] /\ call'[q] = call[q]
  BY <1>0, OthersStay
<1>2. ASSUME users' = users, byEmail' = byEmail,
             pc[p] \notin {"storeNew", "dropEmail", "storeUpdate"}
      PROVE  EmailIndexExact'
  BY <1>0, <1>1, <1>2, IndexQuiet
<1>3. CASE Invoke(p)
  <2>1. users' = users /\ byEmail' = byEmail /\ pc[p] = "idle"
    BY <1>3 DEF Invoke, CreateUser, UpdateUser, SetOnline, DeleteUser, GetUser, Login, Auth,
                Start, store
  <2> QED
    BY <1>2, <2>1
<1>4. CASE (ReserveEmail(p) \/ ClaimEmail(p)) /\ byEmail' # byEmail
  <2>1. Step(p)
    BY <1>4 DEF Step
  <2>2. /\ call[p].email \in Emails /\ byEmail[call[p].email] = None
        /\ byEmail' = [byEmail EXCEPT ![call[p].email] = call[p].id]
    BY <1>4, <2>1, EmailWrites DEF ReserveEmail, ClaimEmail, DropEmail
  <2>3. /\ pc[p] \in {"reserveEmail", "claimEmail"} /\ users' = users
        /\ Goto(p, "storeNew") \/ Goto(p, "dropEmail")
    BY <1>4 DEF ReserveEmail, ClaimEmail
  <2>4. pc'[p] \in {"storeNew", "dropEmail"} /\ call'[p] = call[p]
    BY <1>0, <2>3 DEF Goto, GotoWith
  <2> QED
    BY <1>0, <1>1, <2>2, <2>3, <2>4, IndexTake
<1>5. CASE (ReserveEmail(p) \/ ClaimEmail(p)) /\ byEmail' = byEmail
  BY <1>2, <1>5 DEF ReserveEmail, ClaimEmail
<1>6. CASE \/ ReserveName(p) \/ UndoName(p) \/ Load(p) \/ Read(p) \/ LoadDelete(p)
           \/ FindName(p) \/ FindUser(p)
  BY <1>2, <1>6 DEF ReserveName, UndoName, Load, Read, LoadDelete, FindName, FindUser, store
<1> QED
  BY <1>3, <1>4, <1>5, <1>6, IndexStoreNew, IndexDrop, IndexStoreUpdate, IndexStoreDelete DEF Step

LEMMA SerialStep ==
  ASSUME ~Overlap
  PROVE  SerialInv /\ [Next]_vars => SerialInv'
<1> SUFFICES ASSUME SerialInv, [Next]_vars PROVE SerialInv'
  OBVIOUS
<1>1. IndInv'
  BY NextPreserves DEF SerialInv
<1>2. CASE UNCHANGED vars
  <2>1. (\A p \in Procs : OpInv(p) /\ EmailInv(p))'
    BY <1>2 DEF SerialInv, vars, OpInv, EmailInv, Loaded, ChangesEmail, Updated, Found
  <2>2. Alone'
    BY <1>2 DEF SerialInv, vars, Alone, Targets, Writing
  <2>3. EmailIndexExact'
    BY <1>2 DEF SerialInv, vars, EmailIndexExact, ChangesEmail
  <2> QED
    BY <1>1, <2>1, <2>2, <2>3 DEF SerialInv
<1>3. ASSUME NEW p \in Procs, Invoke(p) \/ Step(p) PROVE SerialInv'
  BY <1>1, <1>3, OpStep, EmailStep, AloneStep, IndexStep DEF SerialInv
<1> QED
  BY <1>2, <1>3 DEF Next

LEMMA SerialInvariance ==
  ASSUME ~Overlap
  PROVE  Spec => []SerialInv
BY SerialInit, SerialStep, PTL DEF Spec

\* When clients do not send two writing requests about one user at once, the email index
\* and the records agree outside the three windows of Create and Update
\* (memory_store.go:34 and 84-90), so no two stored users share an email.
THEOREM EmailsExact ==
  ASSUME ~Overlap
  PROVE  Spec => []EmailIndexExact
<1>1. SerialInv => EmailIndexExact
  BY DEF SerialInv
<1> QED
  BY <1>1, SerialInvariance, PTL

-----------------------------------------------------------------------------
(* Session: its inductive invariant. *)

\* Labels of MemoryStore.Update
Updating == {"load", "claimEmail", "dropEmail", "storeUpdate"}

\* The operations whose requests pass through label l
OpsAt(l) ==
    CASE l \in {"reserveName", "reserveEmail", "undoName", "storeNew"} -> {"CreateUser"}
      [] l \in Updating -> {"UpdateUser", "SetOnline", "Login"}
      [] l = "read" -> {"GetUser", "UpdateUser"}
      [] l \in {"loadDelete", "storeDelete"} -> {"DeleteUser"}
      [] OTHER -> {"Login"}

\* What the frame of a goroutine says about how its request came in
FrontInv(p) ==
    /\ pc[p] = "idle" => front[p] = ByToken
    /\ front[p].good => call[p].username \in presented
    /\ pc[p] # "idle" => /\ call[p].op \in OpsAt(pc[p])
                         /\ front[p].how = "token" <=> call[p].op # "Login"

\* A login that has passed VerifyCredentials had the right password and remembers the
\* name that was asked for.
VerifiedInv(p) ==
    call[p].op = "Login" /\ pc[p] \in Updating =>
        /\ front[p].good /\ front[p].name = call[p].username
        /\ call[p].online

\* Only Logins and tokens set online, a SetOnline has an account, and what a goroutine
\* has loaded is no more online than the password allows.
OnlineInv(p) ==
    /\ pc[p] # "idle" /\ call[p].op = "Login" => call[p].online
    /\ pc[p] # "idle" /\ call[p].op = "UpdateUser" => ~call[p].online
    /\ pc[p] # "idle" /\ call[p].op = "SetOnline" =>
          /\ call[p].id \in Ids /\ users[call[p].id] # None /\ call[p].email = None
          /\ call[p].online => users[call[p].id].username \in presented
    /\ Loaded(p) /\ call[p].seen.online => call[p].seen.username \in presented

\* Before the first right password no goroutine gets past VerifyCredentials.
QuietInv == presented = {} => \A p \in Procs : pc[p] \in {"idle", "findName", "findUser"}

SessionFrames == \A p \in Procs : FrontInv(p) /\ VerifiedInv(p) /\ OnlineInv(p)

SessionInv ==
    /\ IndInv /\ SessionTypeOK /\ SessionFrames /\ QuietInv
    /\ PresenceNeedsCredentials /\ TokenNamesAccount /\ LockedUntilLogin

LEMMA SessionInitHolds == SessionInit => SessionInv
<1> SUFFICES ASSUME SessionInit PROVE SessionInv
  OBVIOUS
<1> USE DEF SessionInit
<1>1. IndInv
  BY InitIndInv
<1>2. SessionTypeOK
  BY DEF SessionTypeOK, Front, ByToken
<1>3. SessionFrames
  BY DEF Init, SessionFrames, FrontInv, VerifiedInv, OnlineInv, Loaded, Updating, ByToken
<1>4. QuietInv /\ TokenNamesAccount /\ LockedUntilLogin
  BY DEF Init, QuietInv, TokenNamesAccount, LockedUntilLogin
<1>5. PresenceNeedsCredentials
  <2>1. \A i \in Ids : users[i] # None => ~users[i].online
    BY DEF Init, NewUser
  <2> QED
    BY <2>1 DEF PresenceNeedsCredentials
<1> QED
  BY <1>1, <1>2, <1>3, <1>4, <1>5 DEF SessionInv

-----------------------------------------------------------------------------
(* The steps of the front ends as steps of the store. *)

\* All that a step does to the store is a step of UserStore; sending a datagram and the
\* expiry of a token do nothing to it.
LEMMA SessionSteps ==
  ASSUME SessionNext
  PROVE  \/ Next
         \/ UNCHANGED <<store, issued, pc, call>> /\ reply' = None
<1>1. ASSUME NEW p \in Procs, Request(p) PROVE Next
  <2>1. \A t \in Claims : t[1] \in Ids
    BY DEF Claims
  <2>2. Invoke(p)
    BY <1>1, <2>1 DEF Request, UserRoutes, LogoutOrOnline, Invoke
  <2> QED
    BY <2>2 DEF Next
<1>2. ASSUME NEW p \in Procs, NEW n \in Usernames, NEW good \in BOOLEAN,
             RestLogin(p, n, good) \/ ReceivePacket(p, n, good)
      PROVE  Next
  BY <1>2 DEF RestLogin, ReceivePacket, Next, Invoke
<1>3. ASSUME NEW p \in Procs, Work(p) PROVE Next
  BY <1>3 DEF Work, Next
<1>4. ASSUME NEW n \in Usernames, SendPacket(n)
      PROVE  UNCHANGED <<store, issued, pc, call>> /\ reply' = None
  BY <1>4 DEF SendPacket
<1>5. ASSUME NEW t \in Claims, Expire(t)
      PROVE  UNCHANGED <<store, issued, pc, call>> /\ reply' = None
  BY <1>5 DEF Expire
<1> QED
  BY <1>1, <1>2, <1>3, <1>4, <1>5 DEF SessionNext

LEMMA StoreInvariantKept ==
  ASSUME IndInv, [SessionNext]_svars
  PROVE  IndInv'
<1>1. CASE Next \/ UNCHANGED vars
  BY <1>1, NextPreserves
<1>2. CASE UNCHANGED <<store, issued, pc, call>> /\ reply' = None
  <2>0. UNCHANGED <<users, byUsername, byEmail, issued, pc, call>>
    BY <1>2 DEF store
  <2>1. TypeOK'
    BY <1>2, <2>0 DEF IndInv, TypeOK
  <2>2. FrameInv'
    BY <2>0 DEF IndInv, FrameInv, CreatorInv, UpdaterInv, LoginInv, Creating, Holding, Loaded
  <2>3. FreshInv'
    BY <2>0 DEF IndInv, FreshInv, Creating
  <2>4. UsernameIndexExact'
    BY <2>0 DEF IndInv, UsernameIndexExact, HoldsName
  <2> QED
    BY <2>1, <2>2, <2>3, <2>4 DEF IndInv
<1> QED
  BY <1>1, <1>2, SessionSteps DEF svars

\* A record that exists stays, under its username.
LEMMA NamesPersist ==
  ASSUME IndInv, [SessionNext]_svars, NEW i \in Ids, users[i] # None
  PROVE  users'[i] # None /\ users'[i].username = users[i].username
<1>1. CASE users' = users
  BY <1>1
<1>2. ASSUME NEW p \in Procs, Step(p)
      PROVE  users'[i] # None /\ users'[i].username = users[i].username
  <2>1. CASE StoreNew(p) /\ call[p].id \in Ids /\ users[call[p].id] = None
    <3>1. call[p].id # i
      BY <2>1
    <3> QED
      BY <2>1, <3>1 DEF StoreNew, IndInv, TypeOK
  <2>2. CASE StoreUpdate(p)
    <3>1. call[p] \in Call /\ pc[p] = "storeUpdate"
      BY <2>2 DEF StoreUpdate, IndInv, TypeOK
    <3>2. Updated(call[p]).username = call[p].seen.username /\ Updated(call[p]) \in User
      BY <3>1, LoadedFacts, UpdatedFacts
    <3>3. users' = [users EXCEPT ![call[p].id] = Updated(call[p])]
      BY <2>2 DEF StoreUpdate
    <3>4. users'[i] = IF i = call[p].id THEN Updated(call[p]) ELSE users[i]
      BY <3>3 DEF IndInv, TypeOK
    <3> QED
      BY <3>1, <3>2, <3>4, LoadedFacts, NoneAssumption
  <2>3. CASE StoreDelete(p)
    <3>1. pc[p] = "storeDelete"
      BY <2>3 DEF StoreDelete
    <3> DEFINE r == [call[p].seen EXCEPT !.status = "deleted"]
    <3>2. r.username = call[p].seen.username /\ r \in User
      BY <3>1, LoadedFacts DEF User
    <3>3. users' = [users EXCEPT ![call[p].id] = r]
      BY <2>3 DEF StoreDelete
    <3>4. users'[i] = IF i = call[p].id THEN r ELSE users[i]
      BY <3>3 DEF IndInv, TypeOK
    <3> HIDE DEF r
    <3> QED
      BY <3>1, <3>2, <3>4, LoadedFacts, NoneAssumption
  <2> QED
    BY <1>1, <1>2, <2>1, <2>2, <2>3, StepWrites
<1>3. ASSUME NEW p \in Procs, Invoke(p) PROVE users' = users
  BY <1>3 DEF Invoke, CreateUser, UpdateUser, SetOnline, DeleteUser, GetUser, Login, Auth,
              Start, store
<1>4. CASE UNCHANGED <<store, issued, pc, call>>
  BY <1>1, <1>4 DEF store
<1>5. CASE UNCHANGED svars
  BY <1>1, <1>5 DEF svars, vars
<1> QED
  BY <1>1, <1>2, <1>3, <1>4, <1>5, SessionSteps DEF Next

-----------------------------------------------------------------------------
(* The frames. *)

Frame(p) == FrontInv(p) /\ VerifiedInv(p) /\ OnlineInv(p)

\* Labels under which OpsAt says which operation runs
LEMMA OpsAtFacts ==
  /\ \A l \in {"reserveName", "reserveEmail", "undoName", "storeNew"} : OpsAt(l) = {"CreateUser"}
  /\ \A l \in Updating : OpsAt(l) = {"UpdateUser", "SetOnline", "Login"}
  /\ OpsAt("read") = {"GetUser", "UpdateUser"}
  /\ \A l \in {"loadDelete", "storeDelete"} : OpsAt(l) = {"DeleteUser"}
  /\ \A l \in {"findName", "findUser"} : OpsAt(l) = {"Login"}
PROOF BY DEF OpsAt, Updating

\* A step of another goroutine does not disturb the frame of q.
LEMMA OthersKept ==
  ASSUME SessionInv, [SessionNext]_svars, presented \subseteq presented', NEW q \in Procs,
         pc'[q] = pc[q], call'[q] = call[q], front'[q] = front[q]
  PROVE  Frame(q)'
<1>0. Frame(q) /\ IndInv
  BY DEF SessionInv, SessionFrames, Frame
<1>1. FrontInv(q)'
  BY <1>0 DEF Frame, FrontInv
<1>2. VerifiedInv(q)'
  BY <1>0 DEF Frame, VerifiedInv
<1>3. OnlineInv(q)'
  BY <1>0, NamesPersist DEF Frame, OnlineInv, Loaded
<1> QED
  BY <1>1, <1>2, <1>3 DEF Frame

\* A goroutine that has answered
LEMMA IdleFrame ==
  ASSUME NEW p \in Procs, pc'[p] = "idle", front'[p] = ByToken
  PROVE  Frame(p)'
PROOF BY DEF Frame, FrontInv, VerifiedInv, OnlineInv, Loaded, Updating, ByToken

\* A request that comes in with a token
LEMMA RequestFrames ==
  ASSUME SessionInv, NEW p \in Procs, Request(p), [SessionNext]_svars
  PROVE  SessionFrames'
<1>0. /\ IndInv /\ TypeOK /\ pc \in [Procs -> Labels] /\ call \in [Procs -> Call]
      /\ front[p] = ByToken /\ pc[p] = "idle"
  <2>1. pc[p] = "idle"
    BY DEF Request, UserRoutes, LogoutOrOnline, CreateUser,
           GetUser, UpdateUser, DeleteUser, SetOnline, Start
  <2> QED
    BY <2>1 DEF SessionInv, SessionFrames, FrontInv, IndInv, TypeOK
<1>1. presented' = presented /\ front' = front
  BY DEF Request
<1>2. ASSUME NEW l \in Labels \ {"idle"}, NEW c, Start(p, c, l), c.op \in OpsAt(l), c.op # "Login",
             l \in {"reserveName", "read", "load", "loadDelete"},
             c.op = "UpdateUser" => ~c.online,
             c.op = "SetOnline" => /\ c.id \in Ids /\ users[c.id] # None /\ c.email = None
                                   /\ c.online => users[c.id].username \in presented
      PROVE  SessionFrames'
  <2>1. /\ pc'[p] = l /\ call'[p] = c /\ users' = users
        /\ \A q \in Procs \ {p} : pc'[q] = pc[q] /\ call'[q] = call[q]
    BY <1>0, <1>2 DEF Start, store
  <2>2. FrontInv(p)'
    BY <1>0, <1>1, <1>2, <2>1 DEF FrontInv, ByToken
  <2>3. VerifiedInv(p)'
    BY <1>2, <2>1 DEF VerifiedInv
  <2>4. OnlineInv(p)'
    BY <1>1, <1>2, <2>1 DEF OnlineInv, Loaded
  <2>5. \A q \in Procs \ {p} : Frame(q)'
    BY <1>1, <2>1, OthersKept
  <2> QED
    BY <2>2, <2>3, <2>4, <2>5 DEF SessionFrames, Frame
<1>3. ASSUME NEW n \in Usernames, NEW e \in Emails, NEW i \in Ids, CreateUser(p, n, e, i)
      PROVE  SessionFrames'
  <2> DEFINE c == [NoCall EXCEPT !.op = "CreateUser", !.id = i, !.username = n, !.email = e]
  <2>1. Start(p, c, "reserveName") /\ c.op = "CreateUser"
    BY <1>3 DEF CreateUser, NoCall
  <2> HIDE DEF c
  <2> QED
    BY <1>2, <2>1, OpsAtFacts
<1>4. ASSUME NEW i \in Ids, GetUser(p, i) PROVE SessionFrames'
  <2> DEFINE c == [NoCall EXCEPT !.op = "GetUser", !.id = i]
  <2>1. Start(p, c, "read") /\ c.op = "GetUser"
    BY <1>4 DEF GetUser, NoCall
  <2> HIDE DEF c
  <2> QED
    BY <1>2, <2>1, OpsAtFacts
<1>5. ASSUME NEW i \in Ids, NEW e \in Emails \cup {None}, NEW s \in StatusInputs,
             UpdateUser(p, i, e, s)
      PROVE  SessionFrames'
  <2> DEFINE c == [NoCall EXCEPT !.op = "UpdateUser", !.id = i, !.email = e, !.status = s]
  <2>1. Start(p, c, "load") /\ c.op = "UpdateUser" /\ ~c.online
    BY <1>5 DEF UpdateUser, NoCall
  <2> HIDE DEF c
  <2> QED
    BY <1>2, <2>1, OpsAtFacts DEF Updating
<1>6. ASSUME NEW i \in Ids, DeleteUser(p, i) PROVE SessionFrames'
  <2> DEFINE c == [NoCall EXCEPT !.op = "DeleteUser", !.id = i, !.status = "deleted"]
  <2>1. Start(p, c, "loadDelete") /\ c.op = "DeleteUser"
    BY <1>6 DEF DeleteUser, NoCall
  <2> HIDE DEF c
  <2> QED
    BY <1>2, <2>1, OpsAtFacts
<1>7. ASSUME NEW t \in Claims, AuthGroup(t), LogoutOrOnline(p, t) PROVE SessionFrames'
  <2>1. PICK o \in BOOLEAN : SetOnline(p, t[1], o)
    BY <1>7 DEF LogoutOrOnline
  <2> DEFINE c == [NoCall EXCEPT !.op = "SetOnline", !.id = t[1], !.online = o]
  <2>2. Start(p, c, "load") /\ c.op = "SetOnline" /\ c.id = t[1] /\ c.email = None
    BY <2>1 DEF SetOnline, NoCall
  <2>3. t[1] \in Ids /\ t \in tokens
    BY <1>7 DEF Claims, AuthGroup, JWTMiddleware, ValidateToken
  <2>4. users[t[1]] # None /\ users[t[1]].username \in presented
    BY <2>3 DEF SessionInv, TokenNamesAccount, PresenceNeedsCredentials
  <2> HIDE DEF c
  <2> QED
    BY <1>2, <2>2, <2>3, <2>4, OpsAtFacts DEF Updating
<1> QED
  BY <1>3, <1>4, <1>5, <1>6, <1>7 DEF Request, UserRoutes

\* A request that comes in with a username and a password
LEMMA LoginFrames ==
  ASSUME SessionInv, NEW p \in Procs, NEW n \in Usernames, NEW good \in BOOLEAN,
         RestLogin(p, n, good) \/ ReceivePacket(p, n, good), [SessionNext]_svars
  PROVE  SessionFrames' /\ presented \subseteq presented' /\ tokens' = tokens
<1>0. /\ pc \in [Procs -> Labels] /\ call \in [Procs -> Call] /\ front \in [Procs -> Front]
  BY DEF SessionInv, IndInv, TypeOK, SessionTypeOK
<1>1. PICK how \in {"login", "udp"} : Login(p, n) /\ Present(p, n, how, good)
  BY DEF RestLogin, ReceivePacket
<1> DEFINE c == [NoCall EXCEPT !.op = "Login", !.username = n, !.online = TRUE]
<1>2. Start(p, c, "findName") /\ c.op = "Login" /\ c.username = n /\ c.online
  BY <1>1 DEF Login, NoCall
<1> HIDE DEF c
<1>3. /\ pc'[p] = "findName" /\ call'[p] = c
      /\ front'[p] = [how |-> how, good |-> good, name |-> None]
      /\ \A q \in Procs \ {p} : pc'[q] = pc[q] /\ call'[q] = call[q] /\ front'[q] = front[q]
  BY <1>0, <1>1, <1>2 DEF Start, Present
<1>4. presented \subseteq presented' /\ (good => n \in presented') /\ tokens' = tokens
  BY <1>1 DEF Present
<1>5. FrontInv(p)'
  BY <1>2, <1>3, <1>4, OpsAtFacts DEF FrontInv
<1>6. VerifiedInv(p)' /\ OnlineInv(p)'
  BY <1>2, <1>3 DEF VerifiedInv, OnlineInv, Loaded, Updating
<1>7. \A q \in Procs \ {p} : Frame(q)'
  BY <1>3, <1>4, OthersKept
<1> QED
  BY <1>4, <1>5, <1>6, <1>7 DEF SessionFrames, Frame

\* The step that ends a request
LEMMA FinishFrames ==
  ASSUME SessionInv, [SessionNext]_svars, NEW p \in Procs, Work(p), NEW r, Finish(p, r)
  PROVE  SessionFrames'
<1>0. /\ pc \in [Procs -> Labels] /\ call \in [Procs -> Call] /\ front \in [Procs -> Front]
  BY DEF SessionInv, IndInv, TypeOK, SessionTypeOK
<1>1. /\ pc'[p] = "idle"
      /\ \A q \in Procs \ {p} : pc'[q] = pc[q] /\ call'[q] = call[q]
  BY <1>0 DEF Finish
<1>2. front' = [front EXCEPT ![p] = ByToken]
  BY <1>1 DEF Work, Remember
<1>3. front'[p] = ByToken /\ \A q \in Procs \ {p} : front'[q] = front[q]
  BY <1>0, <1>2
<1>4. Frame(p)'
  BY <1>1, <1>3, IdleFrame
<1>5. presented' = presented
  BY DEF Work
<1>6. \A q \in Procs \ {p} : Frame(q)'
  BY <1>1, <1>3, <1>5, OthersKept
<1> QED
  BY <1>4, <1>6 DEF SessionFrames, Frame

\* A step that goes on to label l with frame c, VerifyCredentials' last one excepted
LEMMA GotoFrames ==
  ASSUME SessionInv, [SessionNext]_svars, NEW p \in Procs, Work(p), pc[p] # "idle",
         NEW l, l # "idle", NEW c, GotoWith(p, l, c),
         c.op = call[p].op, c.username = call[p].username, c.online = call[p].online,
         c.email = call[p].email, c.op \in OpsAt(l),
         c.op # "Login" => c.id = call[p].id,
         c.op = "Login" /\ l \in Updating => pc[p] \in Updating,
         l \in {"claimEmail", "dropEmail", "storeUpdate", "storeDelete"} /\ c.seen.online
            => c.seen.username \in presented
  PROVE  SessionFrames'
<1>0. /\ pc \in [Procs -> Labels] /\ call \in [Procs -> Call] /\ front \in [Procs -> Front]
      /\ Frame(p) /\ IndInv
  BY DEF SessionInv, IndInv, TypeOK, SessionTypeOK, SessionFrames, Frame
<1>1. /\ pc'[p] = l /\ call'[p] = c
      /\ \A q \in Procs \ {p} : pc'[q] = pc[q] /\ call'[q] = call[q]
  BY <1>0 DEF GotoWith
<1>2. front' = front /\ presented' = presented
  <2>1. ~(pc[p] = "findUser" /\ l = "load")
    <3>1. pc[p] = "findUser" => call[p].op = "Login" /\ pc[p] \notin Updating
      BY <1>0, OpsAtFacts DEF Frame, FrontInv, Updating
    <3> QED
      BY <3>1 DEF Updating
  <2> QED
    BY <1>1, <2>1 DEF Work, Remember
<1>3. FrontInv(p)'
  BY <1>0, <1>1, <1>2 DEF Frame, FrontInv
<1>4. VerifiedInv(p)'
  BY <1>0, <1>1, <1>2 DEF Frame, VerifiedInv
<1>5. OnlineInv(p)'
  <2>1. OnlineInv(p)
    BY <1>0 DEF Frame
  <2>2. c.op = "SetOnline" => /\ c.id \in Ids /\ users'[c.id] # None /\ c.email = None
                              /\ c.online => users'[c.id].username \in presented
    BY <1>0, <2>1, NamesPersist DEF OnlineInv
  <2> QED
    BY <1>1, <1>2, <2>1, <2>2 DEF OnlineInv, Loaded
<1>6. \A q \in Procs \ {p} : Frame(q)'
  BY <1>1, <1>2, OthersKept
<1> QED
  BY <1>3, <1>4, <1>5, <1>6 DEF SessionFrames, Frame

\* What a request has not loaded yet is no matter; what it has loaded is a record that
\* was in the store.
LEMMA RecordPresence ==
  ASSUME SessionInv, NEW i \in Ids, users[i] # None, users[i].online
  PROVE  users[i].username \in presented
PROOF BY DEF SessionInv, PresenceNeedsCredentials

\* The last step of VerifyCredentials, when the password was right
LEMMA VerifiedFrames ==
  ASSUME SessionInv, [SessionNext]_svars, NEW p \in Procs, Work(p),
         pc[p] = "findUser", Goto(p, "load"), FindUser(p)
  PROVE  SessionFrames'
<1>0. /\ pc \in [Procs -> Labels] /\ call \in [Procs -> Call] /\ front \in [Procs -> Front]
      /\ Frame(p) /\ IndInv /\ call[p].op = "Login"
  BY OpsAtFacts DEF SessionInv, IndInv, TypeOK, SessionTypeOK, SessionFrames, Frame, FrontInv
<1>1. /\ pc'[p] = "load" /\ call'[p] = call[p]
      /\ \A q \in Procs \ {p} : pc'[q] = pc[q] /\ call'[q] = call[q]
  BY <1>0 DEF Goto, GotoWith
<1> DEFINE r == users[call[p].id]
<1>2. Found(r) /\ r.status = "active"
  <2>1. pc'[p] # "idle"
    BY <1>1
  <2>2. \A x : ~Finish(p, x)
    BY <1>0, <2>1 DEF Finish
  <2> QED
    BY <2>2 DEF FindUser
<1>3. front[p].good
  <2>1. VerifyPassword(p, pc'[p] = "load")
    BY <1>2 DEF Work
  <2> QED
    BY <1>1, <2>1 DEF VerifyPassword
<1>4. call[p].id \in Ids /\ r.username = call[p].username
  <2>1. LoginInv(p) /\ issued \subseteq Ids
    BY <1>0 DEF IndInv, FrameInv, TypeOK
  <2> QED
    BY <1>2, <2>1 DEF LoginInv, Found
<1>5. /\ presented' = presented
      /\ front' = [front EXCEPT ![p].name = r.username]
  BY <1>1 DEF Work, Remember
<1>6. /\ front'[p].name = call[p].username /\ front'[p].good
      /\ front'[p].how = front[p].how
      /\ \A q \in Procs \ {p} : front'[q] = front[q]
  <2>1. front[p] \in Front
    BY <1>0
  <2>2. front'[p] = [front[p] EXCEPT !.name = r.username]
    BY <1>0, <1>5
  <2>3. /\ front'[p].name = r.username /\ front'[p].good = front[p].good
        /\ front'[p].how = front[p].how
    BY <2>1, <2>2 DEF Front
  <2>4. \A q \in Procs \ {p} : front'[q] = front[q]
    BY <1>0, <1>5
  <2> QED
    BY <1>3, <1>4, <2>3, <2>4
<1>7. FrontInv(p)'
  BY <1>0, <1>1, <1>3, <1>5, <1>6, OpsAtFacts DEF Frame, FrontInv, Updating
<1>8. VerifiedInv(p)' /\ OnlineInv(p)'
  BY <1>0, <1>1, <1>6 DEF Frame, VerifiedInv, OnlineInv, Loaded
<1>9. \A q \in Procs \ {p} : Frame(q)'
  BY <1>1, <1>5, <1>6, OthersKept
<1> QED
  BY <1>7, <1>8, <1>9 DEF SessionFrames, Frame

LEMMA WorkFrames ==
  ASSUME SessionInv, [SessionNext]_svars, NEW p \in Procs, Work(p)
  PROVE  SessionFrames'
<1>0. /\ Step(p) /\ pc[p] # "idle" /\ pc[p] \in Labels /\ call[p] \in Call
      /\ Frame(p) /\ IndInv
  <2>1. pc[p] # "idle"
    BY DEF Work, Step, ReserveName, ReserveEmail, UndoName, StoreNew, Load, ClaimEmail, DropEmail,
           StoreUpdate, Read, LoadDelete, StoreDelete, FindName, FindUser
  <2> QED
    BY <2>1 DEF Work, SessionInv, IndInv, TypeOK, SessionFrames, Frame
<1>1. call[p].op \in OpsAt(pc[p])
  BY <1>0 DEF Frame, FrontInv
<1>2. ASSUME NEW r, Finish(p, r) PROVE SessionFrames'
  BY <1>2, FinishFrames
<1>3. CASE ReserveName(p) \/ ReserveEmail(p)
  <2>1. call[p].op = "CreateUser"
    BY <1>1, <1>3, OpsAtFacts DEF ReserveName, ReserveEmail
  <2>2. ASSUME NEW l \in {"reserveEmail", "undoName", "storeNew"}, Goto(p, l)
        PROVE  SessionFrames'
    BY <1>0, <2>1, <2>2, GotoFrames, OpsAtFacts DEF Goto
  <2> QED
    BY <1>2, <1>3, <2>2 DEF ReserveName, ReserveEmail
<1>4. CASE UndoName(p) \/ StoreNew(p) \/ Read(p) \/ StoreDelete(p)
  BY <1>2, <1>4 DEF UndoName, StoreNew, Read, StoreDelete
<1>5. CASE Load(p)
  <2> DEFINE r == users[call[p].id]
  <2> DEFINE c == [call[p] EXCEPT !.seen = r]
  <2> DEFINE l == IF ChangesEmail(call[p], r) THEN "claimEmail" ELSE "storeUpdate"
  <2>1. pc[p] = "load" /\ call[p].id \in Ids
    BY <1>0, <1>5 DEF Load, IndInv, FrameInv, UpdaterInv
  <2>2. CASE Found(r) /\ GotoWith(p, l, c)
    <3>1. /\ c.op = call[p].op /\ c.username = call[p].username /\ c.online = call[p].online
          /\ c.email = call[p].email /\ c.id = call[p].id /\ c.seen = r
      BY <1>0 DEF Call
    <3>2. l \in Updating /\ l # "idle" /\ pc[p] \in Updating
      BY <2>1 DEF Updating
    <3>3. OpsAt(l) = OpsAt(pc[p])
      BY <3>2, OpsAtFacts
    <3>4. c.seen.online => c.seen.username \in presented
      BY <2>1, <2>2, <3>1, RecordPresence DEF Found
    <3> HIDE DEF c, l, r
    <3> QED
      BY <1>0, <1>1, <2>2, <3>1, <3>2, <3>3, <3>4, GotoFrames
  <2> QED
    BY <1>2, <1>5, <2>2 DEF Load, UpdateFails
<1>6. CASE ClaimEmail(p) \/ DropEmail(p)
  <2>1. pc[p] \in {"claimEmail", "dropEmail"}
    BY <1>6 DEF ClaimEmail, DropEmail
  <2>2. call[p].seen.online => call[p].seen.username \in presented
    BY <1>0, <2>1 DEF Frame, OnlineInv, Loaded
  <2>3. ASSUME NEW l \in {"dropEmail", "storeUpdate"}, Goto(p, l) PROVE SessionFrames'
    <3>1. OpsAt(l) = OpsAt(pc[p]) /\ pc[p] \in Updating
      BY <2>1, OpsAtFacts DEF Updating
    <3> QED
      BY <1>0, <1>1, <2>2, <2>3, <3>1, GotoFrames DEF Goto
  <2> QED
    BY <1>2, <1>6, <2>3 DEF ClaimEmail, DropEmail, UpdateFails
<1>7. CASE StoreUpdate(p)
  <2>1. ASSUME call[p].op = "UpdateUser", Goto(p, "read") PROVE SessionFrames'
    BY <1>0, <2>1, GotoFrames, OpsAtFacts DEF Goto
  <2> QED
    BY <1>2, <1>7, <2>1 DEF StoreUpdate
<1>8. CASE LoadDelete(p)
  <2> DEFINE r == users[call[p].id]
  <2> DEFINE c == [call[p] EXCEPT !.seen = r]
  <2>1. pc[p] = "loadDelete" /\ call[p].id \in Ids
    BY <1>0, <1>8 DEF LoadDelete, IndInv, FrameInv, UpdaterInv
  <2>2. CASE Found(r) /\ GotoWith(p, "storeDelete", c)
    <3>1. /\ c.op = call[p].op /\ c.username = call[p].username /\ c.online = call[p].online
          /\ c.email = call[p].email /\ c.id = call[p].id /\ c.seen = r
      BY <1>0 DEF Call
    <3>2. c.op \in OpsAt("storeDelete") /\ "storeDelete" \notin Updating
      BY <1>1, <2>1, <3>1, OpsAtFacts DEF Updating
    <3>3. c.seen.online => c.seen.username \in presented
      BY <2>1, <2>2, <3>1, RecordPresence DEF Found
    <3> HIDE DEF c, r
    <3> QED
      BY <1>0, <2>2, <3>1, <3>2, <3>3, GotoFrames
  <2> QED
    BY <1>2, <1>8, <2>2 DEF LoadDelete
<1>9. CASE FindName(p)
  <2> DEFINE i == byUsername[call[p].username]
  <2> DEFINE c == [call[p] EXCEPT !.id = i]
  <2>1. pc[p] = "findName"
    BY <1>9 DEF FindName
  <2>2. CASE GotoWith(p, "findUser", c)
    <3>1. /\ c.op = call[p].op /\ c.username = call[p].username /\ c.online = call[p].online
          /\ c.email = call[p].email
      BY <1>0 DEF Call
    <3>2. c.op = "Login" /\ c.op \in OpsAt("findUser") /\ "findUser" \notin Updating
      BY <1>1, <2>1, <3>1, OpsAtFacts DEF Updating
    <3> HIDE DEF c
    <3> QED
      BY <1>0, <2>2, <3>1, <3>2, GotoFrames
  <2> QED
    BY <1>2, <1>9, <2>2 DEF FindName
<1>10. CASE FindUser(p)
  <2>1. pc[p] = "findUser"
    BY <1>10 DEF FindUser
  <2>2. CASE Goto(p, "load")
    BY <1>10, <2>1, <2>2, VerifiedFrames
  <2> QED
    BY <1>2, <1>10, <2>2 DEF FindUser
<1> QED
  BY <1>0, <1>3, <1>4, <1>5, <1>6, <1>7, <1>8, <1>9, <1>10 DEF Step

LEMMA FramesStep ==
  ASSUME SessionInv, [SessionNext]_svars
  PROVE  SessionFrames' /\ presented \subseteq presented'
<1>0. SUFFICES ASSUME presented \subseteq presented' PROVE SessionFrames'
  <2>1. presented \subseteq presented'
    <3>1. ASSUME NEW p \in Procs, NEW n \in Usernames, NEW good \in BOOLEAN,
                 RestLogin(p, n, good) \/ ReceivePacket(p, n, good)
          PROVE  presented \subseteq presented'
      BY <3>1 DEF RestLogin, ReceivePacket, Present
    <3> QED
      BY <3>1 DEF SessionNext, svars, Request, Work, SendPacket, Expire
  <2> QED
    BY <1>0, <2>1
<1>1. CASE UNCHANGED <<pc, call, front>>
  <2>1. \A q \in Procs : Frame(q)'
    BY <1>0, <1>1, OthersKept
  <2> QED
    BY <2>1 DEF SessionFrames, Frame
<1>2. ASSUME NEW n \in Usernames, SendPacket(n) PROVE SessionFrames'
  BY <1>1, <1>2 DEF SendPacket
<1>3. ASSUME NEW t \in Claims, Expire(t) PROVE SessionFrames'
  BY <1>1, <1>3 DEF Expire
<1>4. CASE UNCHANGED svars
  BY <1>1, <1>4 DEF svars, vars
<1> QED
  BY <1>2, <1>3, <1>4, RequestFrames, LoginFrames, WorkFrames DEF SessionNext

-----------------------------------------------------------------------------
(* Tokens and presence. *)

\* The step that issues a token
LEMMA IssuedToken ==
  ASSUME SessionInv, NEW p \in Procs, Work(p), front[p].how = "login", reply' = <<p, "ok">>
  PROVE  /\ call[p].id \in Ids /\ front[p].name \in Usernames
         /\ users[call[p].id] # None /\ users[call[p].id].username = front[p].name
         /\ front[p].name \in presented
<1>0. Frame(p) /\ IndInv /\ presented \subseteq Usernames /\ Step(p)
  BY DEF SessionInv, SessionFrames, Frame, SessionTypeOK, Work
<1>1. pc[p] # "idle" /\ call[p].op = "Login" /\ call[p].op \in OpsAt(pc[p])
  BY <1>0 DEF Frame, FrontInv, ByToken
<1>2. reply' # None
  <2>1. <<p, "ok">> \in Procs \X Replies
    OBVIOUS
  <2> QED
    BY <2>1, NoneAssumption
<1>3. pc[p] \in Updating
  <2>1. ~FindName(p)
    BY <1>2 DEF FindName, Finish, GotoWith
  <2>2. ~FindUser(p)
    BY <1>1, <1>2 DEF FindUser, Finish, Goto, GotoWith
  <2>3. pc[p] \notin {"reserveName", "reserveEmail", "undoName", "storeNew", "read",
                      "loadDelete", "storeDelete"}
    BY <1>1, OpsAtFacts
  <2>4. Load(p) \/ ClaimEmail(p) \/ DropEmail(p) \/ StoreUpdate(p)
    BY <1>0, <2>1, <2>2, <2>3 DEF Step, ReserveName, ReserveEmail, UndoName, StoreNew, Read,
                                  LoadDelete, StoreDelete
  <2> QED
    BY <2>4 DEF Updating, Load, ClaimEmail, DropEmail, StoreUpdate
<1>4. front[p].good /\ front[p].name = call[p].username /\ call[p].username \in presented
  BY <1>0, <1>1, <1>3 DEF Frame, VerifiedInv, FrontInv
<1>5. /\ call[p].id \in Ids /\ users[call[p].id] # None
      /\ users[call[p].id].username = call[p].username
  BY <1>0, <1>1, <1>3 DEF IndInv, FrameInv, LoginInv, Loaded, Updating
<1> QED
  BY <1>0, <1>4, <1>5

\* A token that there is after a step was there before it, or Login has just issued it.
LEMMA TokensFrom ==
  ASSUME SessionInv, [SessionNext]_svars, NEW t \in tokens'
  PROVE  \/ t \in tokens
         \/ \E p \in Procs : /\ Work(p) /\ front[p].how = "login" /\ reply' = <<p, "ok">>
                             /\ t = <<call[p].id, front[p].name>>
<1>1. ASSUME NEW p \in Procs, Work(p), t \notin tokens
      PROVE  front[p].how = "login" /\ reply' = <<p, "ok">> /\ t = <<call[p].id, front[p].name>>
  BY <1>1 DEF Work, GenerateToken
<1>2. ASSUME NEW p \in Procs, NEW n \in Usernames, NEW good \in BOOLEAN,
             RestLogin(p, n, good) \/ ReceivePacket(p, n, good)
      PROVE  tokens' = tokens
  BY <1>2 DEF RestLogin, ReceivePacket, Present
<1> QED
  BY <1>1, <1>2 DEF SessionNext, svars, Request, SendPacket, Expire

LEMMA TokensStep ==
  ASSUME SessionInv, [SessionNext]_svars
  PROVE  /\ tokens' \subseteq Claims /\ TokenNamesAccount'
         /\ \A t \in tokens' : t[2] \in presented'
<1>0. IndInv /\ tokens \subseteq Claims /\ presented \subseteq presented'
  BY FramesStep DEF SessionInv, SessionTypeOK
<1> SUFFICES ASSUME NEW t \in tokens'
             PROVE  /\ t \in Claims /\ t[2] \in presented'
                    /\ users'[t[1]] # None /\ users'[t[1]].username = t[2]
  BY DEF TokenNamesAccount
<1>1. /\ t \in Claims /\ t[2] \in presented
      /\ users[t[1]] # None /\ users[t[1]].username = t[2]
  <2>1. CASE t \in tokens
    BY <1>0, <2>1 DEF SessionInv, TokenNamesAccount, PresenceNeedsCredentials
  <2>2. ASSUME NEW p \in Procs, Work(p), front[p].how = "login", reply' = <<p, "ok">>,
               t = <<call[p].id, front[p].name>>
        PROVE  /\ t \in Claims /\ t[2] \in presented
               /\ users[t[1]] # None /\ users[t[1]].username = t[2]
    BY <2>2, IssuedToken DEF Claims
  <2> QED
    BY <2>1, <2>2, TokensFrom
<1>2. t[1] \in Ids
  BY <1>1 DEF Claims
<1> QED
  BY <1>0, <1>1, <1>2, NamesPersist

\* A record that is online after a step was so before, or the step stored it and the
\* request that did so goes back to a right password.
LEMMA OnlineStep ==
  ASSUME SessionInv, [SessionNext]_svars, NEW i \in Ids, users'[i] # None, users'[i].online
  PROVE  users'[i].username \in presented'
<1>0. IndInv /\ presented \subseteq presented' /\ users \in [Ids -> User \cup {None}]
      /\ call \in [Procs -> Call]
  BY FramesStep DEF SessionInv, IndInv, TypeOK
<1>1. CASE users'[i] = users[i]
  BY <1>0, <1>1, RecordPresence
<1>2. ASSUME NEW p \in Procs, Work(p), users'[i] # users[i] PROVE users'[i].username \in presented
  <2>0. Frame(p) /\ Step(p) /\ users' # users
    BY <1>2 DEF SessionInv, SessionFrames, Frame, Work
  <2>1. CASE StoreNew(p)
    <3>1. users' = [users EXCEPT ![call[p].id] = NewUser(call[p].username, call[p].email)]
      BY <2>1 DEF StoreNew
    <3>2. users'[i] = NewUser(call[p].username, call[p].email)
      BY <1>0, <1>2, <3>1
    <3> QED
      BY <3>2 DEF NewUser
  <2>2. CASE StoreUpdate(p)
    <3>1. users' = [users EXCEPT ![call[p].id] = Updated(call[p])] /\ pc[p] = "storeUpdate"
      BY <2>2 DEF StoreUpdate
    <3>2. users'[i] = Updated(call[p]) /\ i = call[p].id
      BY <1>0, <1>2, <3>1
    <3>3. /\ users'[i].online = call[p].online
          /\ users'[i].username = users[i].username
      BY <1>0, <3>1, <3>2, LoadedFacts, UpdatedFacts
    <3>4. call[p].op \in {"UpdateUser", "SetOnline", "Login"}
      BY <2>0, <3>1, OpsAtFacts DEF Frame, FrontInv, Updating
    <3>5. CASE call[p].op = "Login"
      <4>1. call[p].username \in presented
        BY <2>0, <3>1, <3>5 DEF Frame, VerifiedInv, FrontInv, Updating
      <4>2. users[i].username = call[p].username
        BY <1>0, <3>1, <3>2, <3>5 DEF IndInv, FrameInv, LoginInv, Loaded
      <4> QED
        BY <3>3, <4>1, <4>2
    <3>6. CASE call[p].op = "SetOnline"
      BY <2>0, <3>1, <3>2, <3>3, <3>6 DEF Frame, OnlineInv
    <3>7. call[p].op # "UpdateUser"
      BY <2>0, <3>1, <3>3 DEF Frame, OnlineInv
    <3> QED
      BY <3>4, <3>5, <3>6, <3>7
  <2>3. CASE StoreDelete(p)
    <3> DEFINE r == [call[p].seen EXCEPT !.status = "deleted"]
    <3>1. users' = [users EXCEPT ![call[p].id] = r] /\ pc[p] = "storeDelete"
      BY <2>3 DEF StoreDelete
    <3>2. users'[i] = r
      BY <1>0, <1>2, <3>1
    <3>3. r.online = call[p].seen.online /\ r.username = call[p].seen.username
      BY <1>0, <3>1, LoadedFacts DEF User
    <3>4. call[p].seen.online => call[p].seen.username \in presented
      BY <2>0, <3>1 DEF Frame, OnlineInv, Loaded
    <3> QED
      BY <3>2, <3>3, <3>4
  <2> QED
    BY <1>0, <2>0, <2>1, <2>2, <2>3, StepWrites
<1>3. \/ users' = users
      \/ \E p \in Procs : Work(p)
  BY DEF SessionNext, svars, vars, Request, UserRoutes, LogoutOrOnline, CreateUser, GetUser,
         UpdateUser, DeleteUser, SetOnline, RestLogin, ReceivePacket, Login, Start, SendPacket, Expire, store
<1> QED
  BY <1>0, <1>1, <1>2, <1>3

LEMMA SessionTypeStep ==
  ASSUME SessionInv, [SessionNext]_svars
  PROVE  SessionTypeOK'
<1>0. /\ front \in [Procs -> Front] /\ presented \subseteq Usernames
      /\ users \in [Ids -> User \cup {None}] /\ ByToken \in Front
  BY DEF SessionInv, SessionTypeOK, IndInv, TypeOK, Front, ByToken
<1>1. ASSUME NEW p \in Procs, NEW n \in Usernames, NEW good \in BOOLEAN,
             RestLogin(p, n, good) \/ ReceivePacket(p, n, good)
      PROVE  front' \in [Procs -> Front] /\ presented' \subseteq Usernames
  <2>1. PICK how \in {"login", "udp"} : Present(p, n, how, good)
    BY <1>1 DEF RestLogin, ReceivePacket
  <2>2. [how |-> how, good |-> good, name |-> None] \in Front
    BY DEF Front
  <2> QED
    BY <1>0, <2>1, <2>2 DEF Present
<1>2. ASSUME NEW p \in Procs, Work(p)
      PROVE  front' \in [Procs -> Front] /\ presented' \subseteq Usernames
  <2>1. presented' \subseteq Usernames
    BY <1>0, <1>2 DEF Work
  <2>2. CASE pc[p] = "findUser" /\ pc'[p] = "load"
    <3> DEFINE n == users[call[p].id].username
    <3>1. Step(p) /\ FindUser(p) /\ LoginInv(p) /\ issued \subseteq Ids /\ pc \in [Procs -> Labels]
      BY <1>2, <2>2 DEF Work, Step, ReserveName, ReserveEmail, UndoName, StoreNew, Load,
             ClaimEmail, DropEmail, StoreUpdate, Read, LoadDelete, StoreDelete, FindName,
             SessionInv, IndInv, FrameInv, TypeOK
    <3>2. call[p].id \in Ids
      BY <2>2, <3>1 DEF LoginInv
    <3>3. users[call[p].id] # None
      BY <2>2, <3>1 DEF FindUser, Found, Finish
    <3>4. n \in Usernames
      BY <3>2, <3>3, RecordType DEF SessionInv, IndInv
    <3>5. front' = [front EXCEPT ![p].name = n]
      BY <1>2, <2>2 DEF Work, Remember
    <3>6. [front[p] EXCEPT !.name = n] \in Front
      BY <1>0, <3>4 DEF Front
    <3> HIDE DEF n
    <3>7. front' = [front EXCEPT ![p] = [front[p] EXCEPT !.name = n]]
      BY <3>5
    <3> QED
      BY <1>0, <2>1, <3>6, <3>7
  <2>3. CASE ~(pc[p] = "findUser" /\ pc'[p] = "load")
    BY <1>0, <1>2, <2>1, <2>3 DEF Work, Remember
  <2> QED
    BY <2>2, <2>3
<1>3. ASSUME NEW p \in Procs, Request(p)
      PROVE  front' \in [Procs -> Front] /\ presented' \subseteq Usernames
  BY <1>0, <1>3 DEF Request
<1>4. ASSUME NEW n \in Usernames, SendPacket(n)
      PROVE  front' \in [Procs -> Front] /\ presented' \subseteq Usernames
  BY <1>0, <1>4 DEF SendPacket
<1>5. ASSUME NEW t \in Claims, Expire(t)
      PROVE  front' \in [Procs -> Front] /\ presented' \subseteq Usernames
  BY <1>0, <1>5 DEF Expire
<1>6. ASSUME UNCHANGED svars
      PROVE  front' \in [Procs -> Front] /\ presented' \subseteq Usernames
  BY <1>0, <1>6 DEF svars
<1>7. front' \in [Procs -> Front] /\ presented' \subseteq Usernames
  BY <1>1, <1>2, <1>3, <1>4, <1>5, <1>6 DEF SessionNext
<1> QED
  BY <1>7, TokensStep DEF SessionTypeOK

\* Before the first right password there is no token, so no request gets through the
\* middleware, and a login stops at VerifyCredentials.
LEMMA QuietStep ==
  ASSUME SessionInv, [SessionNext]_svars
  PROVE  QuietInv' /\ LockedUntilLogin'
<1> SUFFICES ASSUME presented' = {}
             PROVE  /\ \A p \in Procs : pc'[p] \in {"idle", "findName", "findUser"}
                    /\ users' = users /\ issued' = issued /\ presented = {}
  BY DEF QuietInv, LockedUntilLogin, SessionInv
<1>0. /\ presented = {} /\ tokens = {} /\ pc \in [Procs -> Labels]
      /\ \A p \in Procs : pc[p] \in {"idle", "findName", "findUser"}
  <2>1. presented = {}
    BY FramesStep
  <2> QED
    BY <2>1 DEF SessionInv, QuietInv, PresenceNeedsCredentials, IndInv, TypeOK
<1>1. ASSUME NEW p \in Procs PROVE ~Request(p)
  BY <1>0 DEF Request, AuthGroup, UsersGroup, ScimGroup, JWTMiddleware, ValidateToken
<1>2. ASSUME NEW p \in Procs, NEW n \in Usernames, NEW good \in BOOLEAN,
             RestLogin(p, n, good) \/ ReceivePacket(p, n, good)
      PROVE  /\ \A q \in Procs : pc'[q] \in {"idle", "findName", "findUser"}
             /\ users' = users /\ issued' = issued
  BY <1>0, <1>2 DEF RestLogin, ReceivePacket, Login, Start, store
<1>3. ASSUME NEW p \in Procs, Work(p)
      PROVE  /\ \A q \in Procs : pc'[q] \in {"idle", "findName", "findUser"}
             /\ users' = users /\ issued' = issued
  <2>1. FindName(p) \/ FindUser(p)
    BY <1>0, <1>3 DEF Work, Step, ReserveName, ReserveEmail, UndoName, StoreNew, Load,
             ClaimEmail, DropEmail, StoreUpdate, Read, LoadDelete, StoreDelete
  <2>2. ~(pc[p] = "findUser" /\ pc'[p] = "load")
    <3> SUFFICES ASSUME pc[p] = "findUser", pc'[p] = "load" PROVE FALSE
      OBVIOUS
    <3>1. Frame(p) /\ FindUser(p)
      BY <2>1 DEF SessionInv, SessionFrames, Frame, FindName
    <3>2. Found(users[call[p].id]) /\ users[call[p].id].status = "active"
      BY <1>0, <3>1 DEF FindUser, Finish
    <3>3. front[p].good
      BY <1>3, <3>2 DEF Work, VerifyPassword
    <3> QED
      BY <1>0, <3>1, <3>3 DEF Frame, FrontInv
  <2>3. users' = users /\ issued' = issued
    BY <2>1 DEF FindName, FindUser, store, Finish, Goto, GotoWith
  <2>4. \A q \in Procs : pc'[q] \in {"idle", "findName", "findUser"}
    <3>1. CASE FindName(p)
      BY <1>0, <3>1 DEF FindName, Finish, GotoWith
    <3>2. CASE FindUser(p)
      BY <1>0, <2>2, <3>2 DEF FindUser, Finish, Goto, GotoWith
    <3> QED
      BY <2>1, <3>1, <3>2
  <2> QED
    BY <2>3, <2>4
<1>4. CASE UNCHANGED <<store, issued, pc>>
  BY <1>0, <1>4 DEF store
<1>5. ASSUME NEW n \in Usernames, SendPacket(n) PROVE UNCHANGED <<store, issued, pc>>
  BY <1>5 DEF SendPacket
<1>6. ASSUME NEW t \in Claims, Expire(t) PROVE UNCHANGED <<store, issued, pc>>
  BY <1>6 DEF Expire
<1>7. CASE UNCHANGED svars
  BY <1>4, <1>7 DEF svars, vars, store
<1> QED
  BY <1>0, <1>1, <1>2, <1>3, <1>4, <1>5, <1>6, <1>7 DEF SessionNext

LEMMA SessionInvStep == SessionInv /\ [SessionNext]_svars => SessionInv'
<1> SUFFICES ASSUME SessionInv, [SessionNext]_svars PROVE SessionInv'
  OBVIOUS
<1>1. IndInv'
  BY StoreInvariantKept DEF SessionInv
<1>2. SessionTypeOK' /\ SessionFrames' /\ QuietInv' /\ LockedUntilLogin'
  BY SessionTypeStep, FramesStep, QuietStep
<1>3. TokenNamesAccount' /\ PresenceNeedsCredentials'
  BY TokensStep, OnlineStep DEF PresenceNeedsCredentials
<1> QED
  BY <1>1, <1>2, <1>3 DEF SessionInv

LEMMA SessionInvariance == SessionSpec => []SessionInv
PROOF BY SessionInitHolds, SessionInvStep, PTL DEF SessionSpec

\* The store keeps its types behind the front ends, too.
THEOREM SessionTypeCorrect == SessionSpec => [](TypeOK /\ SessionTypeOK)
<1>1. SessionInv => TypeOK /\ SessionTypeOK
  BY DEF SessionInv, IndInv
<1> QED
  BY <1>1, SessionInvariance, PTL

\* Whoever is online, and whoever has a token, has sent a right password before:
\* through REST or as a datagram, lost, late or repeated as datagrams may be.
THEOREM Presence == SessionSpec => []PresenceNeedsCredentials
<1>1. SessionInv => PresenceNeedsCredentials
  BY DEF SessionInv
<1> QED
  BY <1>1, SessionInvariance, PTL

\* The claims of every token name an account that exists, under its username.
THEOREM Tokens == SessionSpec => []TokenNamesAccount
<1>1. SessionInv => TokenNamesAccount
  BY DEF SessionInv
<1> QED
  BY <1>1, SessionInvariance, PTL

\* Until somebody sends a right password, no request changes the store that
\* bootstrapAdmin has left.
THEOREM Locked == SessionSpec => []LockedUntilLogin
<1>1. SessionInv => LockedUntilLogin
  BY DEF SessionInv
<1> QED
  BY <1>1, SessionInvariance, PTL

-----------------------------------------------------------------------------
(* What a step may do. *)

\* A step that stores a record of a live user who was online, offline
LEMMA OfflineStep ==
  ASSUME SessionInv, [SessionNext]_svars, NEW i \in Ids,
         users[i] # None, users[i].online, Found(users'[i]), ~users'[i].online
  PROVE  \E p \in Procs : /\ pc[p] = "storeUpdate" /\ pc'[p] # pc[p]
                          /\ call[p].id = i
                          /\ call[p].op \in {"UpdateUser", "SetOnline"}
<1>0. /\ IndInv /\ users \in [Ids -> User \cup {None}]
      /\ call \in [Procs -> Call] /\ pc \in [Procs -> Labels]
      /\ users' # users
  BY DEF SessionInv, IndInv, TypeOK
<1>1. PICK p \in Procs : Work(p)
  BY <1>0 DEF SessionNext, svars, vars, Request, UserRoutes, LogoutOrOnline, CreateUser, GetUser,
         UpdateUser, DeleteUser, SetOnline, RestLogin, ReceivePacket, Login, Start, SendPacket, Expire, store
<1>2. Frame(p) /\ Step(p)
  BY <1>1 DEF SessionInv, SessionFrames, Frame, Work
<1>3. ~(StoreNew(p) /\ call[p].id \in Ids /\ users[call[p].id] = None)
  <2> SUFFICES ASSUME StoreNew(p), call[p].id \in Ids, users[call[p].id] = None PROVE FALSE
    OBVIOUS
  <2>1. call[p].id # i
    OBVIOUS
  <2>2. users'[i] = users[i]
    BY <1>0, <2>1 DEF StoreNew
  <2> QED
    BY <2>2
<1>4. ~StoreDelete(p)
  <2> SUFFICES ASSUME StoreDelete(p) PROVE FALSE
    OBVIOUS
  <2> DEFINE r == [call[p].seen EXCEPT !.status = "deleted"]
  <2>1. users' = [users EXCEPT ![call[p].id] = r] /\ pc[p] = "storeDelete"
    BY DEF StoreDelete
  <2>2. r.status = "deleted"
    BY <1>0, <2>1, LoadedFacts DEF User
  <2>3. users'[i] = r \/ users'[i] = users[i]
    BY <1>0, <2>1
  <2> HIDE DEF r
  <2> QED
    BY <2>2, <2>3 DEF Found
<1>5. StoreUpdate(p)
  BY <1>0, <1>2, <1>3, <1>4, StepWrites
<1>6. users' = [users EXCEPT ![call[p].id] = Updated(call[p])] /\ pc[p] = "storeUpdate"
  BY <1>5 DEF StoreUpdate
<1>7. i = call[p].id /\ users'[i] = Updated(call[p])
  <2>1. users'[i] # users[i]
    OBVIOUS
  <2> QED
    BY <1>0, <1>6, <2>1
<1>8. ~call[p].online
  BY <1>0, <1>6, <1>7, LoadedFacts, UpdatedFacts
<1>9. call[p].op \in {"UpdateUser", "SetOnline"}
  <2>1. call[p].op \in {"UpdateUser", "SetOnline", "Login"}
    BY <1>2, <1>6, OpsAtFacts DEF Frame, FrontInv, Updating
  <2> QED
    BY <1>2, <1>6, <1>8, <2>1 DEF Frame, VerifiedInv, Updating
<1>10. pc'[p] # pc[p]
  BY <1>0, <1>5 DEF StoreUpdate, Goto, GotoWith, Finish
<1> QED
  BY <1>6, <1>7, <1>9, <1>10

\* Nobody is taken offline by a login or a datagram: only by a Logout, an Online or an
\* UpdateUser of that account.
THEOREM Offline == SessionSpec => OfflineOnlyOnRequest
<1> DEFINE A == \A i \in Ids :
          users[i] # None /\ users[i].online /\ Found(users'[i]) /\ ~users'[i].online =>
             \E p \in Procs : /\ pc[p] = "storeUpdate" /\ pc'[p] # pc[p]
                              /\ call[p].id = i
                              /\ call[p].op \in {"UpdateUser", "SetOnline"}
<1>1. SessionInv /\ [SessionNext]_svars => A
  BY OfflineStep
<1>2. SessionInv /\ [SessionNext]_svars => [A]_svars
  BY <1>1
<1>3. [][A]_svars <=> OfflineOnlyOnRequest
  BY DEF OfflineOnlyOnRequest
<1> HIDE DEF A
<1> QED
  BY <1>2, <1>3, SessionInvariance, PTL DEF SessionSpec

\* The answers that a 500 stands for
LEMMA ErrorStep ==
  ASSUME SessionInv, [SessionNext]_svars, NEW p \in Procs, AnswersRest(p),
         HttpStatus(call[p].op, reply'[2]) = "500"
  PROVE  /\ users[call[p].id] # None
         /\ \/ call[p].op = "SetOnline" /\ users[call[p].id].status = "deleted"
            \/ /\ call[p].op = "UpdateUser"
               /\ call[p].email # None /\ byEmail[call[p].email] # None
<1>0. /\ IndInv /\ pc \in [Procs -> Labels] /\ call \in [Procs -> Call]
      /\ pc[p] # "idle" /\ pc'[p] = "idle" /\ Frame(p)
  BY DEF SessionInv, SessionFrames, Frame, IndInv, TypeOK, AnswersRest
<1>1. Work(p)
  <2>1. ASSUME NEW q \in Procs, Invoke(q) PROVE FALSE
    <3>1. PICK l \in Labels \ {"idle"} : pc[q] = "idle" /\ pc' = [pc EXCEPT ![q] = l]
      BY <2>1 DEF Invoke, CreateUser, UpdateUser, SetOnline, DeleteUser, GetUser, Login, Auth, Start
    <3> QED
      BY <1>0, <3>1
  <2>2. ASSUME NEW q \in Procs, Request(q) PROVE Invoke(q)
    BY <2>2 DEF Request, UserRoutes, LogoutOrOnline,
                  Invoke, Claims
  <2>3. ASSUME NEW q \in Procs, NEW n \in Usernames, NEW good \in BOOLEAN,
               RestLogin(q, n, good) \/ ReceivePacket(q, n, good)
        PROVE  Invoke(q)
    BY <2>3 DEF RestLogin, ReceivePacket, Invoke
  <2>4. pc' # pc
    BY <1>0
  <2>5. PICK q \in Procs : Work(q)
    BY <2>1, <2>2, <2>3, <2>4 DEF SessionNext, svars, vars, SendPacket, Expire
  <2>6. \A r \in Procs \ {q} : pc'[r] = pc[r]
    <3>1. \E l : pc' = [pc EXCEPT ![q] = l]
      BY <2>5 DEF Work, Step, ReserveName, ReserveEmail, UndoName, StoreNew, Load, ClaimEmail,
             DropEmail, StoreUpdate, Read, LoadDelete, StoreDelete, FindName, FindUser,
             UpdateFails, Finish, Goto, GotoWith
    <3> QED
      BY <1>0, <3>1
  <2> QED
    BY <1>0, <2>5, <2>6
<1>2. call[p].op \in OpsAt(pc[p])
  BY <1>0 DEF Frame, FrontInv
<1>3. /\ call[p].op \notin {"Login", "CreateUser"}
      /\ reply'[2] # "ok"
      /\ call[p].op \in {"GetUser", "UpdateUser", "DeleteUser"} => reply'[2] # "not found"
  BY DEF HttpStatus
<1>4. /\ \A l, c : GotoWith(p, l, c) => l = "idle"
      /\ \A r : Finish(p, r) => reply'[2] = r
  BY <1>0 DEF GotoWith, Finish
<1>5. CASE Load(p)
  <2>1. pc[p] = "load" /\ call[p].op \in {"UpdateUser", "SetOnline"}
    BY <1>2, <1>3, <1>5, OpsAtFacts DEF Load, Updating
  <2>2. ~Found(users[call[p].id]) /\ UpdateFails(p, "not found")
    BY <1>0, <1>5 DEF Load, GotoWith
  <2>3. reply'[2] = "not found"
    BY <2>1, <2>2 DEF UpdateFails, Finish
  <2>4. call[p].op = "SetOnline"
    BY <1>3, <2>1, <2>3
  <2>5. users[call[p].id] # None
    BY <1>0, <2>4 DEF Frame, OnlineInv
  <2> QED
    BY <2>2, <2>4, <2>5 DEF Found
<1>6. CASE ClaimEmail(p)
  <2>1. pc[p] = "claimEmail" /\ call[p].op \in {"UpdateUser", "SetOnline"}
    BY <1>2, <1>3, <1>6, OpsAtFacts DEF ClaimEmail, Updating
  <2>2. call[p].email \in Emails /\ users[call[p].id] # None
    BY <1>0, <2>1 DEF IndInv, FrameInv, UpdaterInv, Loaded
  <2>3. call[p].email # None
    BY <2>2, NoneAssumption
  <2>4. call[p].op # "SetOnline"
    BY <1>0, <2>3 DEF Frame, OnlineInv
  <2>5. byEmail[call[p].email] # None
    BY <1>0, <1>6 DEF ClaimEmail, Goto, GotoWith
  <2> QED
    BY <2>1, <2>2, <2>3, <2>4, <2>5
<1>7. ~(DropEmail(p) \/ ReserveEmail(p))
  BY <1>0 DEF DropEmail, ReserveEmail, Goto, GotoWith
<1>8. ~(StoreUpdate(p) \/ StoreDelete(p) \/ StoreNew(p))
  <2>1. ~Goto(p, "read") /\ ~Finish(p, "ok")
    BY <1>3, <1>4 DEF Goto
  <2> QED
    BY <2>1 DEF StoreUpdate, StoreDelete, StoreNew
<1>9. ~Read(p)
  <2> SUFFICES ASSUME Read(p) PROVE FALSE
    OBVIOUS
  <2>1. call[p].op \in {"GetUser", "UpdateUser"}
    BY <1>2, OpsAtFacts DEF Read
  <2>2. reply'[2] \in {"ok", "not found"}
    BY DEF Read, Finish
  <2> QED
    BY <1>3, <2>1, <2>2
<1>10. ~LoadDelete(p)
  <2> SUFFICES ASSUME LoadDelete(p) PROVE FALSE
    OBVIOUS
  <2>1. call[p].op = "DeleteUser"
    BY <1>2, OpsAtFacts DEF LoadDelete
  <2>2. reply'[2] = "not found"
    BY <1>4 DEF LoadDelete
  <2> QED
    BY <1>3, <2>1, <2>2
<1>11. ~(ReserveName(p) \/ UndoName(p) \/ FindName(p) \/ FindUser(p))
  BY <1>2, <1>3, OpsAtFacts DEF ReserveName, UndoName, FindName, FindUser
<1> QED
  BY <1>1, <1>5, <1>6, <1>7, <1>8, <1>9, <1>10, <1>11 DEF Work, Step

\* A REST answer 500 means that the account of the token was deleted or that the email of
\* an UpdateUser is taken, and never that there is no account.
THEOREM InternalErrors == SessionSpec => InternalErrorExplained
<1> DEFINE A == \A p \in Procs :
          AnswersRest(p) /\ HttpStatus(call[p].op, reply'[2]) = "500" =>
             /\ users[call[p].id] # None
             /\ \/ call[p].op = "SetOnline" /\ users[call[p].id].status = "deleted"
                \/ /\ call[p].op = "UpdateUser"
                   /\ call[p].email # None
                   /\ byEmail[call[p].email] # None
<1>1. SessionInv /\ [SessionNext]_svars => A
  BY ErrorStep
<1>2. SessionInv /\ [SessionNext]_svars => [A]_svars
  BY <1>1
<1>3. [][A]_svars <=> InternalErrorExplained
  BY DEF InternalErrorExplained
<1> HIDE DEF A
<1> QED
  BY <1>2, <1>3, SessionInvariance, PTL DEF SessionSpec

-----------------------------------------------------------------------------
(* Composition: behind the front ends the store keeps its promises. *)

\* Behind tokens, logins and datagrams the store still implements the atomic registry:
\* an account appears in one step with a username and an id nobody has, and no token,
\* late datagram or expiry renames or loses one.
THEOREM SessionRegistry == SessionSpec => ImplementsRegistry
<1>1. SessionInit => Registry!Init
  BY AccountsInit DEF SessionInit
<1>2. SessionInv /\ [SessionNext]_svars => [Registry!Next]_Accounts
  <2> SUFFICES ASSUME SessionInv, [SessionNext]_svars PROVE [Registry!Next]_Accounts
    OBVIOUS
  <2>1. CASE Next \/ UNCHANGED vars
    BY <2>1, NextRefines DEF SessionInv
  <2>2. CASE UNCHANGED <<store, issued, pc, call>>
    BY <2>2 DEF store, Accounts
  <2> QED
    BY <2>1, <2>2, SessionSteps DEF svars
<1> QED
  BY <1>1, <1>2, SessionInvariance, PTL DEF SessionSpec, ImplementsRegistry, Registry!Spec

\* Behind the front ends usernames stay unique and no reservation leaks, and a login that
\* has passed VerifyCredentials works on the account of the name that was asked for.
THEOREM SessionNames == SessionSpec => [](UsernameIndexExact /\ LoginBindsName)
<1>1. SessionInv => UsernameIndexExact /\ LoginBindsName
  BY DEF SessionInv, IndInv, FrameInv, LoginInv, LoginBindsName, Loaded
<1> QED
  BY <1>1, SessionInvariance, PTL

\* Behind the front ends, too, a deleted user whose record no request under way has loaded
\* is gone for good: tokens that outlive the account and late datagrams do not bring it back.
THEOREM SessionDeletion == SessionSpec => DeletionSettles
<1> DEFINE A == \A i \in Ids : Gone(i) => Gone(i)' /\ users'[i] = users[i]
<1>1. SessionInv /\ [SessionNext]_svars => [A]_vars
  <2> SUFFICES ASSUME SessionInv, [SessionNext]_svars PROVE [A]_vars
    OBVIOUS
  <2>1. CASE Next
    BY <2>1, GoneStays DEF SessionInv, Next
  <2>2. CASE UNCHANGED <<store, issued, pc, call>>
    BY <2>2 DEF store, Gone, Loaded
  <2> QED
    BY <2>1, <2>2, SessionSteps DEF svars
<1>2. [][A]_vars <=> DeletionSettles
  BY DEF DeletionSettles
<1> HIDE DEF A
<1> QED
  BY <1>1, <1>2, SessionInvariance, PTL DEF SessionSpec

LEMMA SessionSerialStep ==
  ASSUME ~Overlap
  PROVE  SerialInv /\ [SessionNext]_svars => SerialInv'
<1> SUFFICES ASSUME SerialInv, [SessionNext]_svars PROVE SerialInv'
  OBVIOUS
<1>1. CASE Next \/ UNCHANGED vars
  BY <1>1, SerialStep
<1>2. CASE UNCHANGED <<store, issued, pc, call>>
  <2>0. UNCHANGED <<users, byUsername, byEmail, issued, pc, call>>
    BY <1>2 DEF store
  <2>1. IndInv'
    BY StoreInvariantKept DEF SerialInv
  <2>2. (\A p \in Procs : OpInv(p) /\ EmailInv(p))'
    BY <2>0 DEF SerialInv, OpInv, EmailInv, Loaded, ChangesEmail, Updated, Found
  <2>3. Alone'
    BY <2>0 DEF SerialInv, Alone, Targets, Writing
  <2>4. EmailIndexExact'
    BY <2>0 DEF SerialInv, EmailIndexExact, ChangesEmail
  <2> QED
    BY <2>1, <2>2, <2>3, <2>4 DEF SerialInv
<1> QED
  BY <1>1, <1>2, SessionSteps DEF svars

\* Behind the front ends, too, clients that do not send two writing requests about one
\* user at once find emails unique: the Update inside a login or a datagram is such a
\* request like any other.
THEOREM SessionEmails ==
  ASSUME ~Overlap
  PROVE  SessionSpec => []EmailIndexExact
<1>1. SerialInv => EmailIndexExact
  BY DEF SerialInv
<1>2. SessionInit => SerialInv
  BY SerialInit DEF SessionInit
<1> QED
  BY <1>1, <1>2, SessionSerialStep, PTL DEF SessionSpec
=============================================================================
