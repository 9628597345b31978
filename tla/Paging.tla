------------------------------- MODULE Paging -------------------------------
(***************************************************************************)
(* The listings: List and Search of the user store, List of the two        *)
(* directory stores, the services' ListUsers, ListOrgs, ListGroups and     *)
(* GetOnlineCount, and the handlers that ask for them.                      *)
(*                                                                         *)
(* The user store collects its list in sync.Map.Range while other requests *)
(* go on; the directory stores range over a map under RLock.  Both in any  *)
(* order.  One listing is followed at a time: listings do not touch each   *)
(* other.  A record is reduced to whether it is deleted and to one mark:    *)
(* IsOnline when the listing is a count, a match when it is a search.       *)
(***************************************************************************)
EXTENDS Integers, Sequences, FiniteSets, SequencesExt

CONSTANTS
    Keys,                    \* the ids there can be
    Offsets, Limits,         \* what clients ask for, negative numbers too
    DefaultLimit, MaxLimit,  \* 20 and 100 in the code
    OnlineCap                \* 10000 in the code

ASSUME LimitAssumption ==
    /\ DefaultLimit \in 1..MaxLimit /\ MaxLimit \in Nat
    /\ OnlineCap \in Nat /\ OnlineCap > MaxLimit
    /\ Offsets \subseteq Int /\ Limits \subseteq Int

VARIABLES
    locked,    \* a directory store (TRUE) or the user store (FALSE)
    item,      \* key -> "absent", "live" or "gone" (deleted)
    mark,      \* key -> online, or a match
    scan,      \* the listing in progress
    steady,    \* keys that have qualified at every moment of it
    ever,      \* keys that have qualified at some moment of it
    reply,     \* the last page, or count
    up         \* the process runs

vars == <<locked, item, mark, scan, steady, ever, reply, up>>

Kinds == {"list", "search", "count"}

NoScan == [kind |-> "none", todo |-> {}, seen |-> {}, all |-> <<>>]

NoReply ==
    [sent |-> FALSE, offset |-> 0, limit |-> 0, page |-> <<>>, count |-> 0, panic |-> FALSE]

Entry == [key : Keys, mark : BOOLEAN]

TypeOK ==
    /\ locked \in BOOLEAN
    /\ item \in [Keys -> {"absent", "live", "gone"}]
    /\ mark \in [Keys -> BOOLEAN]
    /\ scan \in [kind : Kinds \cup {"none"}, todo : SUBSET Keys, seen : SUBSET Keys,
                 all : Seq(Entry)]
    /\ scan.todo \cap scan.seen = {}
    /\ reply \in [sent : BOOLEAN, offset : Int, limit : Int, page : Seq(Entry), count : Nat,
                  panic : BOOLEAN]
    /\ steady \subseteq ever /\ ever \subseteq Keys
    /\ up \in BOOLEAN

Init ==
    /\ locked \in BOOLEAN
    /\ item = [k \in Keys |-> "absent"]
    /\ mark = [k \in Keys |-> FALSE]
    /\ scan = NoScan
    /\ steady = {} /\ ever = {}
    /\ reply = NoReply
    /\ up = TRUE

-----------------------------------------------------------------------------
(* What the listing is about, and the changes meanwhile. *)

\* Does key k belong in a listing of this kind?
Qualifies(kind, its, marks, k) ==
    its[k] = "live" /\ (kind \in {"search", "count"} => marks[k])

\* Bookkeeping of a change while a listing is in progress
Witness ==
    LET now == {k \in Keys : Qualifies(scan.kind, item', mark', k)} IN
    /\ steady' = steady \cap now
    /\ ever' = IF scan = NoScan THEN {} ELSE ever \cup now

\* A writer of a directory store waits for the RLock of a listing.
MayChange == locked => scan = NoScan

Change ==
    /\ up /\ MayChange
    /\ Witness
    /\ reply' = NoReply
    /\ UNCHANGED <<locked, scan, up>>

Create(k) == item[k] = "absent" /\ item' = [item EXCEPT ![k] = "live"] /\ UNCHANGED mark /\ Change

Delete(k) == item[k] = "live" /\ item' = [item EXCEPT ![k] = "gone"] /\ UNCHANGED mark /\ Change

\* A stale Update stores a deleted user back (UserStore, run user_delete_race).
Revive(k) ==
    ~locked /\ item[k] = "gone" /\ item' = [item EXCEPT ![k] = "live"] /\ UNCHANGED mark /\ Change

\* An Update of a live user: presence, or a field that a search looks at
Update(k) ==
    ~locked /\ item[k] = "live" /\ mark' = [mark EXCEPT ![k] = ~@] /\ UNCHANGED item /\ Change

-----------------------------------------------------------------------------
(* The listing. *)

\* A deleted user stays in the sync.Map, a deleted organization leaves its map.
InMap(k) == item[k] = "live" \/ (~locked /\ item[k] = "gone")

Begin(kind) ==
    /\ up /\ scan = NoScan
    /\ scan' = [kind |-> kind, todo |-> {k \in Keys : InMap(k)}, seen |-> {}, all |-> <<>>]
    /\ steady' = {k \in Keys : Qualifies(kind, item, mark, k)}
    /\ ever' = steady'
    /\ reply' = NoReply
    /\ UNCHANGED <<locked, item, mark, up>>

\* ListUsers with or without a query, GetOnlineCount; ListOrgs and ListGroups
ListUsers == ~locked /\ (Begin("list") \/ Begin("search"))
GetOnlineCount == ~locked /\ Begin("count")
ListContainers == locked /\ Begin("list")

\* What the callbacks of List and of Search keep
ListKeeps(k) == item[k] = "live"
SearchKeeps(k) == item[k] = "live" /\ mark[k]

\* The list with the record of k, cloned as it is at this moment
Collected(k) ==
    IF IF scan.kind = "search" THEN SearchKeeps(k) ELSE ListKeeps(k)
    THEN Append(scan.all, [key |-> k, mark |-> mark[k]])
    ELSE scan.all

\* Mutant of Visit: the callback returns false, which ends Range, at a record it skips.
VisitStops(k) ==
    /\ up /\ scan # NoScan
    /\ k \notin scan.seen /\ InMap(k)
    /\ scan' = [scan EXCEPT !.todo = IF Collected(k) = scan.all THEN {} ELSE @ \ {k},
                            !.seen = @ \cup {k}, !.all = Collected(k)]
    /\ reply' = NoReply
    /\ UNCHANGED <<locked, item, mark, steady, ever, up>>

\* Range comes to a key, at most once: surely to one that was there from the start,
\* perhaps to a later one.
Visit(k) ==
    /\ up /\ scan # NoScan
    /\ k \notin scan.seen /\ InMap(k)
    /\ scan' = [scan EXCEPT !.todo = @ \ {k}, !.seen = @ \cup {k}, !.all = Collected(k)]
    /\ reply' = NoReply
    /\ UNCHANGED <<locked, item, mark, steady, ever, up>>

\* Mutant of NormLimit: only the upper bound is tested.
NormLimitUpper(lim) == IF lim > MaxLimit THEN DefaultLimit ELSE lim

\* The services' limit: what is out of range becomes the default.
NormLimit(lim) == IF lim <= 0 \/ lim > MaxLimit THEN DefaultLimit ELSE lim

\* Mutant of PageEnd: the end is taken for inclusive.
PageEndShort(all, off, lim) == IF off + lim > Len(all) THEN Len(all) ELSE off + lim - 1

\* The end of the slice: offset + limit, at most the length
PageEnd(all, off, lim) == IF off + lim > Len(all) THEN Len(all) ELSE off + lim

\* Go panics when a slice expression is out of bounds.
Panics(all, off, lim) ==
    off < Len(all) /\ ~(0 <= off /\ off <= PageEnd(all, off, lim))

Page(all, off, lim) ==
    IF off >= Len(all) THEN <<>> ELSE SubSeq(all, off + 1, PageEnd(all, off, lim))

\* Mutant of OnlinePage: GetOnlineCount goes through the services' limit.
OnlinePageLimited(all) == Page(all, 0, NormLimit(OnlineCap))

\* GetOnlineCount's List(0, 10000)
OnlinePage(all) == Page(all, 0, OnlineCap)

\* How many records of a page are marked
Count(page) == Cardinality({j \in DOMAIN page : page[j].mark})

\* The listing is over.
Answer(off, lim, page, count, panic) ==
    /\ reply' = [sent |-> TRUE, offset |-> off, limit |-> lim, page |-> page, count |-> count,
                 panic |-> panic]
    /\ scan' = NoScan /\ steady' = {} /\ ever' = {}
    /\ UNCHANGED <<locked, item, mark>>

Complete == up /\ scan # NoScan /\ scan.todo = {}

\* The list is complete; offset and limit are not looked at before.
ReplyPage(off, lim) ==
    /\ Complete /\ scan.kind # "count"
    /\ ~Panics(scan.all, off, NormLimit(lim))
    /\ Answer(off, lim, Page(scan.all, off, NormLimit(lim)), 0, FALSE)
    /\ UNCHANGED up

\* gin.Recovery turns a panic of a REST handler into a 500.
Recover(off, lim) ==
    /\ Complete /\ scan.kind # "count"
    /\ Panics(scan.all, off, NormLimit(lim))
    /\ Answer(off, lim, <<>>, 0, TRUE)
    /\ UNCHANGED up

\* Nothing recovers in the UDS server, which lists organizations and groups.
Crash(off, lim) ==
    /\ Complete /\ locked
    /\ Panics(scan.all, off, NormLimit(lim))
    /\ Answer(off, lim, <<>>, 0, TRUE)
    /\ up' = FALSE

\* GetOnlineCount counts the marked records of its page.
ReplyCount ==
    /\ Complete /\ scan.kind = "count"
    /\ Answer(0, OnlineCap, <<>>, Count(OnlinePage(scan.all)), FALSE)
    /\ UNCHANGED up

Next ==
    \/ \E k \in Keys : Create(k) \/ Delete(k) \/ Revive(k) \/ Update(k) \/ Visit(k)
    \/ ListUsers \/ GetOnlineCount \/ ListContainers
    \/ \E off \in Offsets, lim \in Limits :
          ReplyPage(off, lim) \/ Recover(off, lim) \/ Crash(off, lim)
    \/ ReplyCount

Spec == Init /\ [][Next]_vars

-----------------------------------------------------------------------------

Listed(s) == {s[j].key : j \in DOMAIN s}

\* A listing of users that races with writers misses nothing that was there all the
\* time, shows nothing that never was, and nothing twice (memory_store.go:129, 152).
\* Under the RLock a list of organizations or groups is the store's content at the
\* moment it is answered (directory/memory_store.go:118, 319).
ScanBracketed ==
    scan.kind \in {"list", "search"} /\ scan.todo = {} =>
        /\ steady \subseteq Listed(scan.all)
        /\ Listed(scan.all) \subseteq ever
        /\ Cardinality(Listed(scan.all)) = Len(scan.all)
        /\ locked => Listed(scan.all) = {k \in Keys : item[k] = "live"}

\* The pages of list all that a client gets by adding the limit to the offset.  The
\* handlers answer with the limit as it came in (handler.go:98, directory_handler.go:95),
\* so that a client who asks for more than the maximum and steps by that skips items.
PagesOf(all, lim) ==
    [j \in 1..Len(all) |-> Page(all, (j - 1) * lim, NormLimit(lim))]

\* The pages of one list that a client gets with a limit in range put the list together
\* again, and none but those past the end is empty; and whatever limit is asked for, no
\* page is longer than the maximum (memory_store.go:138-146).  This is about one list:
\* every request ranges over its map in a new order.
PagesPartition ==
    scan.kind \in {"list", "search"} =>
        /\ \A lim \in Limits \cap (1..MaxLimit) :
              LET pages == PagesOf(scan.all, lim)
              IN /\ FlattenSeq(pages) = scan.all
                 /\ \A j \in DOMAIN pages : pages[j] = <<>> <=> (j - 1) * lim >= Len(scan.all)
        /\ \A lim \in Limits, j \in 1..Len(scan.all) :
              Len(Page(scan.all, j - 1, NormLimit(lim))) <= MaxLimit

\* Only a negative offset, which no handler refuses, makes a slice expression panic
\* (memory_store.go:146), and only such a request can end the process.
PanicNeedsNegativeOffset ==
    reply.panic \/ ~up => reply.offset < 0

\* GetOnlineCount is between those online all the while and those online at some
\* moment, short by no more than what lies beyond the cap (service/user.go:156).
CountBracketed ==
    scan.kind = "count" /\ scan.todo = {} =>
        LET counted == Count(OnlinePage(scan.all))
            beyond == IF Len(scan.all) > OnlineCap THEN Len(scan.all) - OnlineCap ELSE 0
        IN Cardinality(steady) - beyond <= counted /\ counted <= Cardinality(ever)
=============================================================================
