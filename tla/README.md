# A TLA+ model of the IdP service

This directory is a verification project for the identity-provider service in `src/`: a Go
program with an in-memory user store, organization and group stores, and three front ends (REST,
a Unix-domain socket, UDP). The modules are translated from the code; every definition that models
code is listed with its lines in `PROJECT.json` under `map`. TLC checks the modules on small
instances; TLAPS proves every safety property of the passing runs, for all instances.

## 1. The system

| Part | State | Operations | What is hard about it |
|---|---|---|---|
| user store `internal/user/memory_store.go` | three `sync.Map`s: id → record, username → id, email → id | Create, GetByID, GetByUsername, Update, Delete (soft), List, Search | no lock spans two map calls, so every pair of calls is an interleaving point; Create undoes a reservation; Update writes back a record it loaded earlier |
| user service `internal/service/user.go` | none | CreateUser, GetUser, UpdateUser, DeleteUser, VerifyCredentials, Login, Logout, SetOnline, ListUsers, GetOnlineCount, sync jobs | requests of several store calls; Login ignores the error of its own Update |
| organization and group stores `internal/directory/memory_store.go` | containers, members by container, relations by user; one RWMutex each | Create, Update, Delete, AddMember, RemoveMember, listings | two indexes that must stay one relation; paths that record the ancestors; Update takes any parent |
| directory service `internal/service/directory.go` | none | the operations above, and joins with the user store | check in one store, act in another |
| UDS server `internal/uds/server.go` | context, listener, map of connections, counter, WaitGroup | Start, Stop, acceptLoop, handleConn, idleChecker | shutdown racing with accepting, registering and serving; a limit tested before what it limits is counted; ids from the clock |
| UDS codecs and handshake `internal/uds/codec.go`, `server.go:235-323` | the unread bytes | newline-separated JSON, length-prefixed frames, format detection | messages split and merged by the socket; a buffer dropped between messages; a format guessed from one byte |
| UDS handlers `internal/uds/handler.go`, REST handlers `internal/api` | none | decode, call the service, encode | which error becomes which answer |
| UDP server `internal/udp/server.go` | none | one goroutine per packet: verify, set online | duplicated and reordered packets |
| tokens and passwords `internal/auth/service.go` | none (JWT; passwords are kept and compared as they are) | compare, issue, validate | a token outlives logout and deletion |
| listings: `List`, `Search` of the stores, `GetOnlineCount` | the list being collected | range, slice a page, count | the user store's list is collected while others write; offsets and limits at their edges |
| Postgres store `internal/user/pg_store.go` | the `users` table | one SQL statement per method | requests of two statements without a transaction; pages that are separate statements. `cmd/main.go` uses the in-memory store |
| sync jobs `internal/user/memory_store.go:177-247` | a map under an RWMutex | create, get | nothing runs a job |
| `cmd/idpctl`, generated protobuf | none | | a client, and generated code |

The front ends call the two services from their own goroutines; the services call the stores; the
directory service also calls the user store. The stores never call each other: deleting a user
leaves its memberships, and deleting an organization leaves its children.

What makes each part correct:

* user store: usernames and emails are unique; index and records agree; a failed creation leaves
  nothing; a login acts on the account that was named; a deletion is final; a request changes what
  it was asked to change and undoes nothing else. The code keeps usernames and logins right whatever
  overlaps; the rest only as far as sections 3 and 5 say.
* organization and group stores: the two indexes are one relation over existing containers; a
  deletion ends all memberships at once; the stored paths stay a forest and
  follow the hierarchy.
* directory service: a relation names a user and a container that were created; interleaved
  requests end in an answer their handler knows.
* front ends: nobody is online or has a token without a right password; a token names an account of
  its username; a 500 has a cause that the code knows.
* listings: the pages of a list put it together again; a list that races with writers is bracketed by
  what was there all the time and what was there at some time; only a negative offset panics.
* Postgres store: the same registry of accounts as the in-memory store; a deletion is final; paging to
  the end loses nobody who has a `created_at` of his own.
* UDS server: counter and WaitGroup are exact; Stop returns and leaves nothing; the limit holds.
* UDS session: one answer per message, in order; nothing before a valid handshake; no client
  keeps a session open.

`PROJECT.json` lists the hazards, each at its line and with the properties that would catch it.

## 2. Modules

| Module | Models | Grain |
|---|---|---|
| `UserRegistry` | abstract: a set of accounts that only grows, no username and no id twice | one action |
| `UserStore`, `UserStoreProofs` | user store and user service; theorems about them | one action per `sync.Map` call |
| `Session` | composition of `UserStore` with the REST handlers, the JWT middleware, the tokens and the UDP server; the theorems about it are the last part of `UserStoreProofs` | as `UserStore` |
| `Paging`, `PagingProofs` | the listings of users, organizations and groups, and the online count; theorems about them | one action per key that Range visits |
| `PgStore`, `PgStoreProofs` | the Postgres store and the service above it; theorems about it | one action per SQL statement |
| `Membership` | abstract: who belongs to which live container | one action per change |
| `OrgStore`, `OrgStoreProofs`, `GroupStore`, `GroupStoreProofs` | the two directory stores; theorems about each | one action per method (the mutex is held throughout) |
| `Directory`, `DirectoryProofs` | composition of `OrgStore`, `GroupStore` and the user store as GetByID shows it; the directory service, its REST statuses and the UDS joins; theorems about it, from those about the stores | one action per store call |
| `UdsServer`, `UdsServerProofs` | life of acceptLoop, handleConn, idleChecker, Stop; theorems about it | one action per shared-state access |
| `UdsSession`, `UdsSessionProofs` | one connection's byte stream, handshake and codecs; theorems about it | one action per read |
| `MC...` | symmetry sets for the runs | |

**UserStore.** `users`, `byUsername` and `byEmail` are the three maps. A goroutine `p` has a label
`pc[p]`, the next map call, and a frame `call[p]`: the request's fields and `seen`, the record a
`Load` returned. `ReserveName`, `ReserveEmail`, `UndoName` and `StoreNew` are the calls of Create in
their order, `Load`, `ClaimEmail`, `DropEmail` and `StoreUpdate` those of Update, and so on. Login is
`FindName`, `FindUser` and then Update's actions, with Update's error ignored. `Init` is the state
after `bootstrapAdmin`. An error of password hashing or token signing returns before or after all
store calls and has no effect on the store; it is left out, as are display names and timestamps.
`Ops` and `StatusInputs` select which requests the clients send.

`Overlap` says whether two writing requests about one user may be in flight together. Nothing in
`memory_store.go` or `service/user.go` prevents it: `Overlap = TRUE` is the code, and `Overlap = FALSE` is
an assumption on clients that serialise by themselves. Only one property, `EmailIndexExact`, is claimed under
that assumption; every other property is proved for both values of `Overlap`. Such clients do not send a writing request
about a user while another is under way (`MayWrite`; reads, `ReadOps`, block nothing), nor two logins of
one username, whose account may only just be coming into being (`MayLogin`); and a uuid that a creation draws
is not one that a writing request under way already names. The last two are needed from three goroutines on:
without them a login that waits for a name, or an update of an id sent before the creation has drawn it, meets
a second request on the account that has just been created.

**Session** extends `UserStore`: a step of a request is `UserStore!Step`, and the module says how the
request came in, which password it carried and what is done with its answer. `tokens` are the claims of
the unexpired tokens (signing makes them unforgeable, so there is no other way to have one), `front[p]`
is how the request of `p` came in and the username of the record VerifyCredentials returned, and
`presented` remembers the usernames whose right password a client has sent. `Request` is a REST request
with a token. `router.go` attaches `JWTMiddleware` to each group of routes by itself, so `AuthGroup`, `UsersGroup`
and `ScimGroup` are definitions of their own, and the user routes (`UserRoutes`) can be reached through
either of the last two; `RestLogin` is the one route without the middleware. `Present` records a right password when
it is sent, which may be before the account exists: a request or a late datagram can be overtaken by the
creation and be checked after it. `ReceivePacket` starts `processPacket` for
a datagram that was sent at some time: it may be late, repeated, out of order or lost. What is answered
without a store call changes nothing and is no action.

**Paging.** One listing at a time is followed, since listings do not touch each other. `Visit` is one call of
Range's callback, with the contract of `sync.Map.Range`; for a directory store (`locked`) no writer moves
in between. `steady` and `ever` record what qualified at every and at some moment of the listing.
`Recover` and `Crash` are the two ends of a panic: gin recovers one in a REST handler, nothing recovers one
in the UDS server. The REST user handlers, ListOrgs and ListGroups pass offset and limit on as they are.

**PgStore.** A single INSERT or UPDATE checks the UNIQUE constraints and its WHERE clause and writes, in
one step. `call[p]` carries the id from the first statement of UpdateUser or Login to the second. `walk` is
a client that asks for page after page. `created_at` is a number, the database's `DEFAULT NOW()`: rows may
become visible in another order than that of their stamps, and two rows may have the same. `ORDER BY created_at
DESC` has no tie-break, so the first k rows of a query are any k rows that no other row comes before
(`Leads`, `First`), and each query chooses anew.

**OrgStore, GroupStore.** Member lists are sets, because nothing depends on their order. A path is
the sequence of ids that the code joins with "/". A uuid is drawn at most once (`drawn`).

**Directory.** `Org` and `Group` are instances of the two stores. `account[u]` is what
`userStore.GetByID` says. `Revive` is there because a stale Update can revive a deleted user
(run `user_delete_race`). `call[p]` holds what a request of several store calls carries between
them; `HttpStatus` is the status that `directory_handler.go` gives each outcome.

**UdsServer.** `handler[c]` is where the goroutine of connection `c` is; `accepting`, `idler` and
`stopper` are the three others. `connections` is keyed by the clock reading (`Stamps`), and two
goroutines may read the same one. `StopVisit` follows the contract of `sync.Map.Range`: entries
present from start to end are visited, later ones may be.

**UdsSession.** The stream is a row of messages of three units each (the first byte; the rest of the length
prefix or of the text; the body or the newline), so a position is a number and a buffer an interval. A
scanner's read takes any non-empty part of what has arrived; a token is what stands before the first
newline in the buffer; then the scanner and the rest of its buffer are gone (`ScanLine`). `io.ReadFull`
takes exactly what the prefix says (`ReadPrefix`, `ReadBody`). Messages are good, refused (handshake only),
malformed or oversized. The client may stall or close anywhere. Deadlines pass at any time, in the middle
of a message too (`ReadTimeout`), and a client that does not read its answers makes a write fail
(`WriteFails`). When a read fails, by end of file or deadline, `bufio.Scanner` hands out the unterminated rest of its
buffer as the last line (`LastLine`): a whole text without its newline is handled like any other message. `late`
remembers that a deadline has cut something short.

## 3. Runs

| Run | Checks | Shows |
|---|---|---|
| `user_serial` | `EmailIndexExact`, `UsernameIndexExact`, `LoginBindsName`, `ImplementsRegistry` | For clients that serialise, requests on different users still compete for names and emails: the email index is exact up to the three windows of Create and Update, so emails are unique. The other three do not need that assumption (section 4): usernames are unique and no interleaving leaks a reservation, a login acts on the account it named, and the store implements `UserRegistry`. |
| `session` | `TypeOK`, `PresenceNeedsCredentials`, `TokenNamesAccount`, `LockedUntilLogin`, `DeletionSettles`, `InternalErrorExplained`, `OfflineOnlyOnRequest` | Without any serialisation: presence and tokens go back to a right password, also through late and repeated datagrams; claims stay true; a user who is deleted when the requests that had loaded the record are through stays so, and no later request gets hold of the record; a 500 has one of two known causes; only Logout and UpdateUser take a live user offline. |
| `user_delete_race` | `DeletedIsFinal` (violated) | A presence update that loaded the record before a deletion revives the user. |
| `pg_store` | `WalkLosesNothing`, `PgDeletedIsFinal`, `ImplementsRegistry` | The Postgres store keeps a deletion final and implements `UserRegistry` without any serialisation; a client that pages to the end sees everybody whose `created_at` is his own, as long as nobody is deleted. |
| `paging` | `ScanBracketed`, `PagesPartition`, `PanicNeedsNegativeOffset`, `CountBracketed` | Listings under concurrent writes; the pages of one list, for a client that asks for a limit in range and steps by it; the panic of a negative offset; the online count. |
| `org_members` | `IndexesMirror`, `PathsChain`, `ImplementsMembership` | The two indexes are one relation; the stored paths stay a forest (each a prefix of those below it, nobody on one twice) whatever parents Update takes; the store implements `Membership`. |
| `group_members` | `IndexesMirror`, `ImplementsMembership` | The same for groups. |
| `directory` | `TypeOK`, `RelationsKnown`, `DeletedStaysEmpty`, `BlankIsDeleted`, `NoInternalError` | Check-then-act across stores never relates unknown users or revives a deleted container, and every interleaved outcome of the requests other than the listings has its status (a listing with a negative offset is a 500: `paging`). `TypeOK` includes those of the two stores. |
| `uds_server` | `WaitGroupExact`, `ConnCountExact`, `StopLeavesNothing`, `StopReachesReaders`, `StopReturns`, `ClosedLeaves` | Counting is exact on every path; Stop returns, leaves nothing and reaches every reader, also one that registers meanwhile (the exception is a connection whose id was drawn twice); a closed connection leaves. |
| `uds_limit` | `MaxConnsRespected` (violated) | Connections that shake hands at the same time pass the limit. |
| `uds_session` | `AnswersInOrder`, `OnlyEagerLinesLost`, `PatientAnswered`, `SessionEnds` | Answers come in order and only after a valid handshake, also for texts that a failed read ends; only lines sent before the previous answer can be lost, frames never; a waiting client is answered unless it closes or is late; a client that closes, stalls, falls silent or takes no answers does not keep the session open. |
| `uds_pipeline` | `EveryMessageAnswered` (violated) | A JSON line sent before the previous answer is lost. |

`UsernameIndexExact`, `LoginBindsName` and `ImplementsRegistry` do not need `Overlap = FALSE`: they are
checked with the others in `user_serial`, and the theorems of section 4 give them for every value of
`Overlap`. The other four are proved from `~Overlap`, for any number of goroutines, where the run has
two. The type invariants of the modules whose run does not list one are the first part of the
invariants that section 4 proves.

Every property of a passing run has a mutant in `PROJECT.json`: an operator next to the definition
it replaces, with the kind of slip a programmer makes there, that TLC finds to break the property.

### Bounds

* `user_serial`: two goroutines, three ids (the administrator's and two more), two usernames, three
  emails. Every conflict in the code is between two requests over one map entry; two creations can
  compete for the free name while the administrator's email makes one of them fail and undo, and an
  update can move to a free email while a creation takes what it dropped.
* `session`: two goroutines, two ids, two usernames, two emails, `Overlap = TRUE`: enough for a login or
  a datagram to race with a creation, an update and a deletion of the same account.
* `user_delete_race`: two goroutines, the two requests that meet.
* `paging`: four records; default limit 1 < maximum 2 < cap 3, in the order of 20 < 100 < 10000, so that
  a list can be longer than each; offsets and limits on both sides of every comparison.
* `pg_store`: two goroutines, three rows, a page size of one, the administrator's stamp and a later one, so that there
  are rows with equal stamps and rows in front of others.
* `org_members`: three organizations (a path of length three, a deletion in its middle, moves), two
  users, two roles. `group_members`: three groups.
* `directory`: two requests at a time, one organization, one group, two users.
* `uds_server`: two connections, a limit of one, two clock readings, so that both refusal and equal ids
  happen.
* `uds_session`: a handshake and three requests, every combination of message kinds, both formats.
  `uds_pipeline`: two requests.

The other bounds (how many uuids can be drawn, how many connections are dialled) are the sizes of the
constant sets. Symmetry is used only where no liveness property is checked. Deadlock is checked in
the store runs; the UDS runs switch it off because a stopped server and an ended session do nothing more,
and `paging` because a panic ends the process.

### Fairness

`UdsServer!FairSpec`: weak fairness of each goroutine that has work, since the Go scheduler runs them all.
Reading, writing and the handshake always become possible because each has a deadline
(`server.go:179`, `212`, `226`) that ends it whatever the client does. Nobody is obliged to dial, to
go idle or to call Stop. `UdsSession!FairSpec`: weak fairness of the server goroutine only, which the
scheduler runs and whose reads and writes end by themselves, since the deadlines (5 s for a handshake, the
idle timeout for a request, 30 s for an answer) pass. The client owes nothing: it need not finish a
message, send another or read an answer.

## 4. Proofs

The theorems hold for every value of the constants that satisfies the named assumptions, so for any
number of goroutines, users, containers or connections and every interleaving. Finiteness is assumed of
one set only, the connections of a server (`UdsAssumption`). Apart from it the assumptions say that the
administrator's data are in their sets, that `None` is in no set it stands beside, that the workload is
drawn from the requests there are, that limits and page sizes are positive, that the default limit is at
most the maximum, the cap of the count is above it and offsets and limits are integers (`LimitAssumption`), and that `Stamps` are integers;
the TLC runs evaluate all of them.

A theorem about an invariant follows one pattern: the property is not inductive, a stronger one
(`IndInv`, `SerialInv`, ...) is, and the module proves that the initial states satisfy it, that every
action keeps it, with one lemma per action or per conjunct, and that it implies the property. TLC has
checked each of these invariants on an instance of the size of the module's run. An action property is
proved from the same invariant, for a single step.

### User store (`UserStoreProofs`)

| Theorem | States | For |
|---|---|---|
| `TypeCorrect` | `Spec => []TypeOK` | every `Overlap` |
| `UsernamesExact` | `Spec => []UsernameIndexExact` | every `Overlap` |
| `LoginSafe` | `Spec => []LoginBindsName` | every `Overlap` |
| `Refinement` | `Spec => ImplementsRegistry` | every `Overlap` |
| `DeletionSettled` | `Spec => DeletionSettles` | every `Overlap` |
| `EmailsExact` | `Spec => []EmailIndexExact` | `~Overlap` |

That a `StoreNew` keeps the username index exact depends on what its goroutine did before: that the name
in the index is still its own. `IndInv` adds

* `CreatorInv`: the id of a creation under way has been drawn and has no record yet, and from the
  reservation to the end the creation owns the index entry of its username;
* `FreshInv`: no two goroutines create the same id, and only ids that were drawn have records;
* `UpdaterInv`: an update or deletion that has loaded a record is about a record that is still there and
  has the username that was loaded, because no action changes a stored username;
* `LoginInv`: the id that a login has read from the index belongs to a record of its username, or to a
  creation of that username, which may yet be undone; past its checks there is a record.

`Refinement` follows from the same invariant: `StoreNew` is the abstract `Register`, whose guard (fresh
name, fresh id) is what `CreatorInv` and exactness of the index give; `StoreUpdate` and `StoreDelete`
keep the username and are stutters, as is everything else. `DeletionSettled` is about one step: a goroutine that
has not loaded a record that is deleted cannot come by it (`NotLoadedAgain`: every load tests the status), and who
has loaded nothing of a user writes nothing of it (`OthersStay`, `GoneStays`).

For clients that serialise, `SerialInv` adds to `IndInv`

* `Alone`: every user is the target of at most one writing request, also a user who is about to be
  created and whose name a login already waits for;
* `EmailInv`: what a request has loaded, or has stored and reads back, is what is stored, and the
  index entries of the emails it has claimed or dropped are as it left them;
* `OpInv`: which requests pass through which label.

The argument is one of frames: a step of a goroutine writes the record of its target and the index
entries of emails that it owns (`OwnFrame`, `OwnEmail`), so by `Alone` what another goroutine has seen
stays true (`RecordStays`, `EntriesStay`), and exactness of the index is about one goroutine
(`IndexStep`). Section 5 tells how `EmailsExact` fails without `~Overlap`.

### Front ends (`UserStoreProofs`, last part)

| Theorem | States |
|---|---|
| `SessionTypeCorrect` | `SessionSpec => [](TypeOK /\ SessionTypeOK)` |
| `Presence` | `SessionSpec => []PresenceNeedsCredentials` |
| `Tokens` | `SessionSpec => []TokenNamesAccount` |
| `Locked` | `SessionSpec => []LockedUntilLogin` |
| `Offline` | `SessionSpec => OfflineOnlyOnRequest` |
| `InternalErrors` | `SessionSpec => InternalErrorExplained` |
| `SessionRegistry` | `SessionSpec => ImplementsRegistry` |
| `SessionNames` | `SessionSpec => [](UsernameIndexExact /\ LoginBindsName)` |
| `SessionDeletion` | `SessionSpec => DeletionSettles` |
| `SessionEmails` | `~Overlap`: `SessionSpec => []EmailIndexExact` |

All but the last hold for every value of `Overlap`. All that a front end does to the store is steps of `UserStore`, so
`UserStoreProofs`' `IndInv` holds here as well; in particular `LoginInv` is what makes the claims of a new
token true. On top of it `SessionInv` says how each request came in (`FrontInv`), that a login
past VerifyCredentials had the right password (`VerifiedInv`), that what a goroutine has loaded is no
more online than the passwords presented allow (`OnlineInv`: a stale record that is stored back is
where presence could appear from nowhere), and that before the first right password no goroutine gets past
VerifyCredentials (`QuietInv`). The last four theorems are about the composition: `SessionSteps` shows that
every step of `Session` is a step of `UserStore` or leaves its maps and goroutines alone, and so what the
store promises by itself it still promises behind the front ends.

### Listings (`PagingProofs`)

| Theorem | States |
|---|---|
| `TypeCorrect` | `Spec => []TypeOK` |
| `Bracketed` | `Spec => []ScanBracketed` |
| `Counted` | `Spec => []CountBracketed` |
| `Partition` | `Spec => []PagesPartition` |
| `PanicNegativeOnly` | `Spec => []PanicNeedsNegativeOffset` |

For any set of keys, also an infinite one: finitely many of them are there at a time (`PresentInv`). Two
of the properties speak of the end of a scan, so `IndInv` says what is true in its middle:

* `SteadyInv`: whoever has qualified all the while lies before Range or is in the list already;
* `EverInv`: whoever is in the list qualified at the moment Range came to him;
* `OnceInv`: the keys of the list are among those Range has come to, and none is there twice;
* `WitnessInv`: what qualifies now has `steady` below and `ever` above it;
* `LockedInv`: while a directory store is listed nothing moves.

At the end of the scan nothing lies before Range and the first three give `Bracketed`. `Counted` needs how
many entries of a list the cap cuts off (`AboveCap`). `PagesPartition` speaks of `FlattenSeq`, which is defined
by recursion over the number of pages. The library's induction rules cannot be used, so `FlattenIs` argues by
the least counterexample: a function that satisfies the equation of `FlattenSeq` for every number of pages
is what it computes, since at the least number where the two differ the equation makes them equal. `NextPage`
then shows that appending page j to the first (j - 1) * limit entries gives the first j * limit. The theorem is
about limits from 1 to the maximum, by which a client may step; beyond them see section 5.

### Postgres store (`PgStoreProofs`)

| Theorem | States |
|---|---|
| `TypeCorrect` | `Spec => []TypeOK` |
| `DeletionFinal` | `Spec => PgDeletedIsFinal` |
| `Refinement` | `Spec => ImplementsRegistry` |
| `WalkComplete` | `Spec => []WalkLosesNothing` |

The inductive invariant of the first three is `TypeOK` with `CallInv` (a second statement has an id to be
about). The argument goes through what a step may do to the table: `IndInvStep` shows that every step
inserts a row with a new id and an unused username (`Inserted`), replaces a row that is not deleted by one
of the same username (`Replaced`), or leaves the table. `Inserted` is the abstract `Register`, `Replaced` a
stutter, and neither touches a deleted row.

`WalkComplete` needs `PagingInv`: the table is finite (`TableInv`, which holds because every step adds at most
one row), and whoever was in the list when the walk began still is, and has been seen, shares his stamp with
another or has at least `offset` rows before him in every order that the query may choose (`WalkInv`), as
long as nobody is deleted. An insertion or an update can only increase the number of these rows, and never
parts rows with equal stamps (`WriteKeeps`). `HeadHas` ties this to what a query may give: a row with a stamp
of its own is among the first k exactly when fewer than k come before it, and if it is not, there are k
others, so that an empty page ends the walk only when nobody is left.

### Organization and group stores (`OrgStoreProofs`, `GroupStoreProofs`)

| Theorem | States | In |
|---|---|---|
| `TypeCorrect` | `Spec => []TypeOK` | both |
| `Mirror` | `Spec => []IndexesMirror` | both |
| `Paths` | `Spec => []PathsChain` | `OrgStoreProofs` |
| `Refinement` | `Spec => ImplementsMembership` | both |

With the types, `IndexesMirror` is inductive. `PathsChain` (a path ends in its organization and names nobody
twice, and an organization on it that exists has the corresponding prefix as its path; what the parents say
is not in it) is not: an organization created later under a uuid that stands on an old path would have to have the matching path. `PathsDrawn` (all that stands on a path
has been drawn) rules this out, because Create draws a new uuid. The refinement reads `Membership` from
the index by user; that a deletion ends all memberships at once, and that a removal from both
lists is one change, is where `IndexesMirror` is needed.

### Directory service (`DirectoryProofs`)

| Theorem | States |
|---|---|
| `TypeCorrect` | `Spec => []TypeOK` |
| `Known` | `Spec => []RelationsKnown` |
| `Empty` | `Spec => []DeletedStaysEmpty` |
| `Blank` | `Spec => []BlankIsDeleted` |
| `NoError` | `Spec => []NoInternalError` |
| `OrgMembership` | `Spec => Org!ImplementsMembership` |
| `GroupMembership` | `Spec => Group!ImplementsMembership` |
| `StoresWhole` | `Spec => [](Org!PathsChain /\ Org!IndexesMirror /\ Group!IndexesMirror)` |

Every step is, for each of the two stores, one of its own steps or none, so that the invariants of the
two modules above are conjuncts of `IndInv`, and each store still implements `Membership` behind the service
(the last three theorems, which only the proofs state: no run of `Directory` checks them). What the
composition adds is `CallInv`, what a request remembers between two store calls: the user whose existence it has checked was created (and "created" is
never undone, while "not deleted" may be), and what it has found missing in a listing stays missing.
`MembersKnown` carries the first of these into the stores. `NoError` is about the requests that are actions of
`Directory`; ListOrgs and ListGroups are not, and a negative offset makes them a 500.

### UDS server (`UdsServerProofs`)

| Theorem | States |
|---|---|
| `TypeCorrect` | `Spec => []TypeOK` |
| `WaitGroup` | `Spec => []WaitGroupExact` |
| `ConnCount` | `Spec => []ConnCountExact` |
| `StopClean` | `Spec => []StopLeavesNothing` |
| `StopReaches` | `Spec => []StopReachesReaders` |

For any finite number of connections and any limit. The two counts are cardinalities of sets of
connections by label; `GotoAt` says what moving one connection does to them. `PhasesAgree` relates
Stop's progress to context, listener and acceptLoop, `EntriesOwned` says who can be in the map, and
`ReadersReached` that a reading connection whose id nobody else drew is closed or still to be visited once
Stop's Range has begun. A connection that registers later looks at the context before it reads.

### UDS session (`UdsSessionProofs`)

| Theorem | States |
|---|---|
| `TypeCorrect` | `Spec => []TypeOK` |
| `InOrder` | `Spec => []AnswersInOrder` |
| `LostLines` | `Spec => []OnlyEagerLinesLost` |

For a conversation of any number N of requests and any splitting and merging of its bytes. `IndInv` says that a
message begun while the one before it had no answer is eager (`EagerInv`), that all answered messages
begin behind the reader, where the newline of the last may be still to come, and all that has been passed over
is answered, eager or being handled (`RequestInv`, `CurrentInv`), where the handshake stands (`HelloInv`), and that
a frame is read from where it starts (`FrameInv`), which is why no frame is lost. `LastLineKeeps` is the case
of a text that a failed read ends.

### Only model-checked

* Liveness: `StopReturns`, `ClosedLeaves`, `PatientAnswered`, `SessionEnds`. The prover has no support for fairness.
* The three violations, which are counterexamples.

## 5. Findings

* **A deleted user comes back** (`user_delete_race`; `memory_store.go:107`). The README calls the
  operation a deletion; an Update that had loaded the record stores status active again.
* **The connection limit is not a limit** (`uds_limit`; `server.go:163`).
* **Pipelined JSON lines are lost** (`uds_pipeline`; `codec.go:282`, also `257`). If only the head of the
  next line was swallowed, its tail does not parse and the connection is closed.

Seen on the way and not the subject of a run:

* Two overlapping updates of one user and a creation can leave two accounts with one email, which `models.go:18`
  declares unique: both updates load the record; one moves to another email and drops the old one from the index;
  a creation takes the old one; the other update stores the old one back (`memory_store.go:107`). It is the
  cause of `user_delete_race` once more, and why `EmailIndexExact` needs `Overlap = FALSE`.
* For the same reason a login, whose Update is to set the presence (`service/user.go:110`), undoes an update of
  email or status that was stored after the login had loaded the record.
* A limit above 100 becomes 20, though the README of the repository (line 313) gives 100 as the maximum, and
  the answer repeats the limit that was asked for (`handler.go:98`): a client that steps by it skips items.
* Update changes the parent of an organization and leaves the path, which later children extend
  (`directory/memory_store.go:79`, `47`): what is created under an organization that was moved has a path
  without the new ancestor, though `Test.md:659` says that paths inherit the hierarchy.
* Login, and a UDP packet, answer success although the presence update failed; a token outlives the
  deletion of its account.
* A negative offset panics; the UDS server does not recover and the process ends (`Paging!Crash`).
* Two pages of one listing come from two independent orders of a map, so paging through users,
  organizations or groups may skip some and repeat others; only the pages of one list fit together.
* Rows of the Postgres table with equal `created_at` can be missed by a client that pages
  (`WalkLosesNothing` excepts them).
* A JSON message without its newline is handled when the client closes or the read deadline passes; if the
  newline comes after that, it is an empty line, does not parse and closes the session.
* The Postgres store never selects `is_online`, so that GetOnlineCount over it is zero, and returns a broken
  UNIQUE constraint of an Update as it comes, which a handler answers with 500.
* `idpctl` asks for `page` and `page_size`, which the server does not read, and for organization and group
  paths that `router.go` does not have; its UDS call does one read of 4096 bytes.

Also: UpdateUser takes the user offline, because it leaves
IsOnline false and Update copies it (`memory_store.go:104`); a creation
can be refused for a name that only a failing creation holds;
two connections with one clock reading hide each other from Stop and from idleChecker; a protobuf
handshake of a length that ends in byte 0x7B is taken for JSON and never answered.

## 6. What is not modelled

* Sync jobs: a job is created pending, can be read, and no code advances it; there is nothing to check
  beyond one map write.
* `GetByEmail` of both stores has no caller. The Postgres Search is List's statement with one more condition.
* Start and Stop of the UDP server open and close its socket. After Stop datagrams no longer arrive,
  which they need not do before it either.
* The UDS handlers for users, organizations and groups other than the joins decode, call one service
  method and encode; the methods are modelled.
* JWT signing, gin, JSON and protobuf encoding, the command-line client, environment parsing, generated code:
  libraries, pure conversion or I/O.

## 7. Plan

Done: every module above, its runs, and the theorems of section 4.

Left: liveness, which stays with TLC, and sync jobs, should the service ever come to run them.
