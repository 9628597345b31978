------------------------------ MODULE Session -------------------------------
(***************************************************************************)
(* The front ends that change users, above UserStore: the REST handlers    *)
(* and the JWT middleware (internal/api/handler.go, router.go), the tokens *)
(* (internal/auth/service.go) and the UDP server (internal/udp/server.go). *)
(* Every store call of a request is a step of UserStore, with all its      *)
(* interleavings.  The UDS server's auth, which only reads, is left to the *)
(* runs of UserStore itself.                                                *)
(*                                                                         *)
(* A token is its claims: signing makes it unforgeable, so the tokens there *)
(* are have been issued.  A password is right or wrong; that is all         *)
(* VerifyPassword tells apart.  What is answered without a store call (a    *)
(* body that does not bind, a bad token, a datagram that does not parse)    *)
(* changes nothing and is no action.  After the UDP server's Stop datagrams *)
(* no longer arrive, which they need not do before it either.               *)
(***************************************************************************)
EXTENDS UserStore

VARIABLES
    tokens,       \* the claims <<user_id, username>> of the unexpired tokens
    front,        \* how the request of each goroutine came in
    presented     \* usernames whose right password a client has sent

svars == <<vars, tokens, front, presented>>

Claims == Ids \X Usernames

\* name is the Username of the record that VerifyCredentials returned.
Front == [how : {"token", "login", "udp"}, good : BOOLEAN, name : Usernames \cup {None}]

ByToken == [how |-> "token", good |-> FALSE, name |-> None]

SessionTypeOK ==
    /\ tokens \subseteq Claims
    /\ front \in [Procs -> Front]
    /\ presented \subseteq Usernames

SessionInit ==
    /\ Init
    /\ tokens = {}
    /\ front = [p \in Procs |-> ByToken]
    /\ presented = {}

-----------------------------------------------------------------------------
(* Requests. *)

\* ValidateToken accepts what this service has signed and has not expired.
ValidateToken(t) == t \in tokens

\* The middleware takes user_id from the claims and does not ask the store whether
\* the account still exists.
JWTMiddleware(t) == ValidateToken(t)

\* POST /auth/logout and /auth/online act on the account of the claims.
LogoutOrOnline(p, t) == \E online \in BOOLEAN : SetOnline(p, t[1], online)

\* The user routes, which act on any id; /api/v1/users and /scim/v2/Users share them.
UserRoutes(p) ==
    \/ \E n \in Usernames, e \in Emails, i \in Ids : CreateUser(p, n, e, i)
    \/ \E i \in Ids : GetUser(p, i)
    \/ \E i \in Ids, e \in Emails \cup {None}, s \in StatusInputs : UpdateUser(p, i, e, s)
    \/ \E i \in Ids : DeleteUser(p, i)

\* Mutant of ScimGroup: the group forgets scim.Use(JWTMiddleware(...)).
ScimGroupOpen == TRUE

\* The three groups of routes that write users.  Each attaches the middleware itself;
\* the user routes make no use of the claims.
AuthGroup(t) == JWTMiddleware(t)
UsersGroup == \E t \in Claims : JWTMiddleware(t)
ScimGroup == \E t \in Claims : JWTMiddleware(t)

\* A request with a token: to a route of /auth, or to a user route in a group that
\* lets it in.
Request(p) ==
    /\ \/ \E t \in Claims : AuthGroup(t) /\ LogoutOrOnline(p, t)
       \/ TRUE \in {UsersGroup, ScimGroup} /\ UserRoutes(p)
    /\ UNCHANGED <<tokens, front, presented>>

\* A request with a username and a password that needs no token.  A right password is
\* recorded when it is sent, which may be before the account exists: the request, or a
\* datagram that is late, can be checked after a creation that overtakes it.
Present(p, n, how, good) ==
    /\ front' = [front EXCEPT ![p] = [how |-> how, good |-> good, name |-> None]]
    /\ presented' = IF good THEN presented \cup {n} ELSE presented
    /\ UNCHANGED tokens

\* POST /auth/login, the one route without the middleware
RestLogin(p, n, good) == Login(p, n) /\ Present(p, n, "login", good)

\* A client sends a datagram with the right password.
SendPacket(n) ==
    /\ n \notin presented
    /\ presented' = presented \cup {n}
    /\ reply' = None
    /\ UNCHANGED <<store, issued, pc, call, tokens, front>>

\* handlePackets reads a datagram and starts processPacket.  One that was sent can
\* arrive late, after others, more than once or never; one with a wrong password
\* can come at any time.
ReceivePacket(p, n, good) ==
    /\ good => n \in presented
    /\ Login(p, n)
    /\ Present(p, n, "udp", good)

-----------------------------------------------------------------------------
(* The steps of a request, and its end. *)

\* Mutant of HttpStatus: UpdateUser does not single out ErrUserNotFound.
HttpStatusBlunt(op, r) ==
    IF r = "ok" THEN CASE op = "CreateUser" -> "201" [] op = "DeleteUser" -> "204" [] OTHER -> "200"
    ELSE CASE op = "Login" -> "401"
           [] op = "CreateUser" -> "409"
           [] op \in {"GetUser", "DeleteUser"} /\ r = "not found" -> "404"
           [] OTHER -> "500"

\* The status a REST handler answers for the outcome r of its service call.
HttpStatus(op, r) ==
    IF r = "ok" THEN CASE op = "CreateUser" -> "201" [] op = "DeleteUser" -> "204" [] OTHER -> "200"
    ELSE CASE op = "Login" -> "401"
           [] op = "CreateUser" -> "409"
           [] op \in {"GetUser", "UpdateUser", "DeleteUser"} /\ r = "not found" -> "404"
           [] OTHER -> "500"

\* Mutant of VerifyPassword: any password passes.
VerifyPasswordAny(p, passed) == TRUE

\* The comparison that decides FindUser's choice for an active account
VerifyPassword(p, passed) == passed <=> front[p].good

\* The record that VerifyCredentials returns to Login and processPacket
Remember(p) ==
    front' = IF pc[p] = "findUser" /\ pc'[p] = "load"
             THEN [front EXCEPT ![p].name = users[call[p].id].username]
             ELSE IF pc'[p] = "idle" THEN [front EXCEPT ![p] = ByToken]
             ELSE front

\* Login's token, issued whether or not its Update succeeded
GenerateToken(p) ==
    tokens' = IF front[p].how = "login" /\ reply' = <<p, "ok">>
              THEN tokens \cup {<<call[p].id, front[p].name>>}
              ELSE tokens

\* One sync.Map call of the request of p
Work(p) ==
    /\ Step(p)
    /\ LET r == users[call[p].id] IN
       pc[p] = "findUser" /\ Found(r) /\ r.status = "active" =>
           VerifyPassword(p, pc'[p] = "load")
    /\ Remember(p)
    /\ GenerateToken(p)
    /\ UNCHANGED presented

\* tokenExpiry has passed since GenerateToken.
Expire(t) ==
    /\ t \in tokens
    /\ tokens' = tokens \ {t}
    /\ reply' = None
    /\ UNCHANGED <<store, issued, pc, call, front, presented>>

SessionNext ==
    \/ \E p \in Procs : \/ Request(p)
                        \/ \E n \in Usernames, good \in BOOLEAN :
                              RestLogin(p, n, good) \/ ReceivePacket(p, n, good)
                        \/ Work(p)
    \/ \E n \in Usernames : SendPacket(n)
    \/ \E t \in Claims : Expire(t)

SessionSpec == SessionInit /\ [][SessionNext]_svars

-----------------------------------------------------------------------------

\* Nobody is online, and nobody has a token, whose password no client has sent:
\* every chain of Login, Online, late or repeated datagram (udp/server.go:70) and
\* token goes back to a password that was right.
PresenceNeedsCredentials ==
    /\ \A i \in Ids : users[i] # None /\ users[i].online => users[i].username \in presented
    /\ \A t \in tokens : t[2] \in presented

\* The claims of a token stay true: its id is an account of its username, even
\* though Login loads index, record and token in separate steps and the account
\* may be updated or deleted while the token lives (service/user.go:104).
TokenNamesAccount ==
    \A t \in tokens : users[t[1]] # None /\ users[t[1]].username = t[2]

\* As long as nobody has sent a right password the store is as bootstrapAdmin
\* left it: no route that writes is reachable, through /auth, /users or /scim
\* (router.go:38-67, 107-116).
LockedUntilLogin ==
    presented = {} =>
        /\ \A i \in Ids : users[i] = IF i = AdminId THEN NewUser(AdminName, AdminEmail) ELSE None
        /\ issued = {AdminId}

\* A step in which the REST request of p is answered
AnswersRest(p) == front[p].how # "udp" /\ pc[p] # "idle" /\ pc'[p] = "idle"

\* A 500 has one of two causes: the account is deleted (Logout, Online), or the email
\* that an UpdateUser asks for is in the index when it is answered.  An id without
\* account never ends in a 500, since only tokens lead to Logout and Online
\* (handler.go:180, 194).
InternalErrorExplained ==
    [][\A p \in Procs :
          AnswersRest(p) /\ HttpStatus(call[p].op, reply'[2]) = "500" =>
             /\ users[call[p].id] # None
             /\ \/ call[p].op = "SetOnline" /\ users[call[p].id].status = "deleted"
                \/ /\ call[p].op = "UpdateUser"
                   /\ call[p].email # None
                   /\ byEmail[call[p].email] # None]_svars

\* A live user goes offline only by a Logout or an UpdateUser (which carries no
\* presence and clears it, memory_store.go:104): logins and datagrams, in whatever
\* order and however often they arrive, never take anybody offline.
OfflineOnlyOnRequest ==
    [][\A i \in Ids :
          users[i] # None /\ users[i].online /\ Found(users'[i]) /\ ~users'[i].online =>
             \E p \in Procs : /\ pc[p] = "storeUpdate" /\ pc'[p] # pc[p]
                              /\ call[p].id = i
                              /\ call[p].op \in {"UpdateUser", "SetOnline"}]_svars
=============================================================================
