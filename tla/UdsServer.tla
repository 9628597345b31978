----------------------------- MODULE UdsServer ------------------------------
(***************************************************************************)
(* The life of the Unix-socket server (internal/uds/server.go): acceptLoop,*)
(* one handleConn goroutine per connection, idleChecker, and Stop, which   *)
(* cancels the context, closes the listener and every registered           *)
(* connection, and waits for all goroutines.                               *)
(*                                                                         *)
(* What a handshake or a request says is left out: reading one succeeds or *)
(* fails.  Reads and writes have deadlines in the code, so they end        *)
(* whatever the client does; that is the fairness of Handler.  A clock     *)
(* reading is a value of Stamps.                                           *)
(***************************************************************************)
EXTENDS Naturals, FiniteSets

CONSTANTS
    Conns,           \* client connections, each dialled at most once
    MaxConns,        \* Config.MaxConns
    Stamps,          \* the nanosecond clock readings that connection ids are made of
    None

ASSUME UdsAssumption ==
    /\ IsFiniteSet(Conns)
    /\ MaxConns \in Nat \ {0}
    /\ None \notin Conns
    /\ None \notin Stamps
    /\ Conns \cap {"accept", "exited", "select"} = {}

VARIABLES
    ctxDone,       \* s.ctx is cancelled
    listening,     \* s.listener is open
    connections,   \* stamp -> connection, the sync.Map
    connCount,     \* the atomic counter
    wg,            \* the WaitGroup's counter
    accepting,     \* acceptLoop: "accept", "exited", or the connection it accepted
    idler,         \* idleChecker: "select", "exited", or the connection it will close
    stopper,       \* Stop: "off" until it is called
    toVisit,       \* stamps that Stop's Range still has to visit
    handler,       \* handleConn of each connection
    key,           \* its connection id
    open,          \* server side of its socket
    closed,        \* its closeCh
    stale          \* lastActive is more than IdleTimeout ago

vars == <<ctxDone, listening, connections, connCount, wg, accepting, idler, stopper,
          toVisit, handler, key, open, closed, stale>>

\* Labels of handleConn from the registration to the deferred clean-up.
Serving == {"count", "loop", "read", "handle", "write"}
Unwinding == {"unstore", "uncount", "close", "done"}
Labels == {"undialled", "backlog", "accepted", "handshake", "store", "gone"}
             \cup Serving \cup Unwinding

TypeOK ==
    /\ ctxDone \in BOOLEAN /\ listening \in BOOLEAN
    /\ connections \in [Stamps -> Conns \cup {None}]
    /\ connCount \in Nat /\ wg \in Nat
    /\ accepting \in Conns \cup {"accept", "exited"}
    /\ idler \in Conns \cup {"select", "exited"}
    /\ stopper \in {"off", "listener", "range", "wait", "stopped"}
    /\ toVisit \subseteq Stamps
    /\ handler \in [Conns -> Labels]
    /\ key \in [Conns -> Stamps \cup {None}]
    /\ open \in [Conns -> BOOLEAN]
    /\ closed \in [Conns -> BOOLEAN]
    /\ stale \in [Conns -> BOOLEAN]

-----------------------------------------------------------------------------

\* Start has returned: acceptLoop and idleChecker run.
Init ==
    /\ ctxDone = FALSE /\ listening = TRUE
    /\ connections = [s \in Stamps |-> None]
    /\ connCount = 0 /\ wg = 2
    /\ accepting = "accept" /\ idler = "select" /\ stopper = "off" /\ toVisit = {}
    /\ handler = [c \in Conns |-> "undialled"]
    /\ key = [c \in Conns |-> None]
    /\ open = [c \in Conns |-> FALSE]
    /\ closed = [c \in Conns |-> FALSE]
    /\ stale = [c \in Conns |-> FALSE]

goroutines == <<accepting, idler, stopper, toVisit>>
registry == <<connections, connCount>>
sockets == <<key, open, closed, stale>>

Goto(c, l) == handler' = [handler EXCEPT ![c] = l]

\* Connection.Close, under closeOnce
CloseConn(c) ==
    /\ closed' = [closed EXCEPT ![c] = TRUE]
    /\ open' = [open EXCEPT ![c] = FALSE]

-----------------------------------------------------------------------------
(* The environment: clients dial, and time passes.                          *)

Dial(c) ==
    /\ handler[c] = "undialled" /\ listening
    /\ Goto(c, "backlog")
    /\ UNCHANGED <<ctxDone, listening, registry, wg, goroutines, sockets>>

Ages(c) ==
    /\ handler[c] \in Serving /\ ~stale[c]
    /\ stale' = [stale EXCEPT ![c] = TRUE]
    /\ UNCHANGED <<ctxDone, listening, registry, wg, goroutines, handler, key, open, closed>>

-----------------------------------------------------------------------------
(* acceptLoop                                                               *)

Accept(c) ==
    /\ accepting = "accept" /\ listening /\ handler[c] = "backlog"
    /\ accepting' = c
    /\ Goto(c, "accepted")
    /\ open' = [open EXCEPT ![c] = TRUE]
    /\ UNCHANGED <<ctxDone, listening, registry, wg, idler, stopper, toVisit, key, closed, stale>>

\* Mutant of Admit: wg.Add is forgotten.
AdmitNoAdd(c) ==
    /\ accepting = c
    /\ accepting' = "accept"
    /\ connCount < MaxConns
    /\ Goto(c, "handshake")
    /\ UNCHANGED <<ctxDone, listening, registry, wg, idler, stopper, toVisit, sockets>>

\* The limit is tested here; connCount counts the connection only after its handshake.
Admit(c) ==
    /\ accepting = c
    /\ accepting' = "accept"
    /\ \/ /\ connCount >= MaxConns
          /\ open' = [open EXCEPT ![c] = FALSE]
          /\ Goto(c, "gone")
          /\ UNCHANGED wg
       \/ /\ connCount < MaxConns
          /\ wg' = wg + 1
          /\ Goto(c, "handshake")
          /\ UNCHANGED open
    /\ UNCHANGED <<ctxDone, listening, registry, idler, stopper, toVisit, key, closed, stale>>

\* Mutant of AcceptExit: every error repeats the loop.
AcceptRetries ==
    /\ accepting = "accept" /\ ~listening /\ ctxDone
    /\ UNCHANGED vars

\* Accept fails once the listener is closed; other errors only repeat the loop.
AcceptExit ==
    /\ accepting = "accept" /\ ~listening /\ ctxDone
    /\ accepting' = "exited"
    /\ wg' = wg - 1
    /\ UNCHANGED <<ctxDone, listening, registry, idler, stopper, toVisit, handler, sockets>>

-----------------------------------------------------------------------------
(* handleConn                                                               *)

\* A failed handshake closes the raw connection and returns.
Handshake(c) ==
    /\ handler[c] = "handshake"
    /\ \/ Goto(c, "store") /\ UNCHANGED open
       \/ Goto(c, "done") /\ open' = [open EXCEPT ![c] = FALSE]
    /\ UNCHANGED <<ctxDone, listening, registry, wg, goroutines, key, closed, stale>>

\* connID from the clock, which two goroutines may read alike, then connections.Store
Register(c) ==
    /\ handler[c] = "store"
    /\ \E s \in Stamps :
          /\ key' = [key EXCEPT ![c] = s]
          /\ connections' = [connections EXCEPT ![s] = c]
    /\ Goto(c, "count")
    /\ UNCHANGED <<ctxDone, listening, connCount, wg, goroutines, open, closed, stale>>

Count(c) ==
    /\ handler[c] = "count"
    /\ connCount' = connCount + 1
    /\ Goto(c, "loop")
    /\ UNCHANGED <<ctxDone, listening, connections, wg, goroutines, sockets>>

\* The select at the head of the loop
LoopTest(c) ==
    /\ handler[c] = "loop"
    /\ Goto(c, IF ctxDone \/ closed[c] THEN "unstore" ELSE "read")
    /\ UNCHANGED <<ctxDone, listening, registry, wg, goroutines, sockets>>

\* Mutant of ReadRequest: no deadline, and closing the socket does not end it.
ReadRequestBlocks(c) ==
    /\ handler[c] = "read"
    /\ open[c] /\ Goto(c, "handle") /\ stale' = [stale EXCEPT ![c] = FALSE]
    /\ UNCHANGED <<ctxDone, listening, registry, wg, goroutines, key, open, closed>>

\* ReadRequest: a request arrives on an open socket and touch() is called, or the
\* read fails (closed by either side, malformed, or the deadline passes).
ReadRequest(c) ==
    /\ handler[c] = "read"
    /\ \/ open[c] /\ Goto(c, "handle") /\ stale' = [stale EXCEPT ![c] = FALSE]
       \/ Goto(c, "unstore") /\ UNCHANGED stale
    /\ UNCHANGED <<ctxDone, listening, registry, wg, goroutines, key, open, closed>>

Handle(c) ==
    /\ handler[c] = "handle"
    /\ Goto(c, "write")
    /\ UNCHANGED <<ctxDone, listening, registry, wg, goroutines, sockets>>

WriteResponse(c) ==
    /\ handler[c] = "write"
    /\ \/ open[c] /\ Goto(c, "loop")
       \/ Goto(c, "unstore")
    /\ UNCHANGED <<ctxDone, listening, registry, wg, goroutines, sockets>>

\* Mutant of Unstore: the counter is not decremented.
UnstoreOnly(c) ==
    /\ handler[c] = "unstore"
    /\ connections' = [connections EXCEPT ![key[c]] = None]
    /\ Goto(c, "close")
    /\ UNCHANGED <<ctxDone, listening, connCount, wg, goroutines, sockets>>

\* The deferred function: Delete, Add(-1), Close; then wg.Done.
Unstore(c) ==
    /\ handler[c] = "unstore"
    /\ connections' = [connections EXCEPT ![key[c]] = None]
    /\ Goto(c, "uncount")
    /\ UNCHANGED <<ctxDone, listening, connCount, wg, goroutines, sockets>>

Uncount(c) ==
    /\ handler[c] = "uncount"
    /\ connCount' = connCount - 1
    /\ Goto(c, "close")
    /\ UNCHANGED <<ctxDone, listening, connections, wg, goroutines, sockets>>

\* Mutant of CloseOwn: the connection is not closed.
CloseOwnForgotten(c) ==
    /\ handler[c] = "close"
    /\ Goto(c, "done")
    /\ UNCHANGED <<ctxDone, listening, registry, wg, goroutines, sockets>>

CloseOwn(c) ==
    /\ handler[c] = "close"
    /\ CloseConn(c)
    /\ Goto(c, "done")
    /\ UNCHANGED <<ctxDone, listening, registry, wg, goroutines, key, stale>>

Done(c) ==
    /\ handler[c] = "done"
    /\ wg' = wg - 1
    /\ Goto(c, "gone")
    /\ UNCHANGED <<ctxDone, listening, registry, goroutines, sockets>>

Handler(c) ==
    \/ Handshake(c) \/ Register(c) \/ Count(c) \/ LoopTest(c) \/ ReadRequest(c)
    \/ Handle(c) \/ WriteResponse(c) \/ Unstore(c) \/ Uncount(c) \/ CloseOwn(c) \/ Done(c)

-----------------------------------------------------------------------------
(* idleChecker: on a tick, look at each registered connection's lastActive, *)
(* and then close it.                                                       *)

IdleLook(c) ==
    /\ idler = "select"
    /\ \E s \in Stamps : connections[s] = c
    /\ stale[c]
    /\ idler' = c
    /\ UNCHANGED <<ctxDone, listening, registry, wg, accepting, stopper, toVisit, handler, sockets>>

IdleClose(c) ==
    /\ idler = c
    /\ CloseConn(c)
    /\ idler' = "select"
    /\ UNCHANGED <<ctxDone, listening, registry, wg, accepting, stopper, toVisit, handler,
                   key, stale>>

IdleExit ==
    /\ idler = "select" /\ ctxDone
    /\ idler' = "exited"
    /\ wg' = wg - 1
    /\ UNCHANGED <<ctxDone, listening, registry, accepting, stopper, toVisit, handler, sockets>>

-----------------------------------------------------------------------------
(* Stop                                                                     *)

\* Mutant of StopCancel: the context is not cancelled before connections are closed.
StopNoCancel ==
    /\ stopper = "off"
    /\ stopper' = "listener"
    /\ UNCHANGED <<ctxDone, listening, registry, wg, accepting, idler, toVisit, handler, sockets>>

StopCancel ==
    /\ stopper = "off"
    /\ ctxDone' = TRUE
    /\ stopper' = "listener"
    /\ UNCHANGED <<listening, registry, wg, accepting, idler, toVisit, handler, sockets>>

\* Connections still in the backlog are refused.  Range starts with the entries
\* there are now.
StopListener ==
    /\ stopper = "listener"
    /\ listening' = FALSE
    /\ handler' = [c \in Conns |-> IF handler[c] = "backlog" THEN "gone" ELSE handler[c]]
    /\ stopper' = "range"
    /\ toVisit' = {s \in Stamps : connections[s] # None}
    /\ UNCHANGED <<ctxDone, registry, wg, accepting, idler, sockets>>

\* Range visits every entry that stays in the map, and may visit later ones.
StopVisit(s) ==
    /\ stopper = "range"
    /\ toVisit' = toVisit \ {s}
    /\ \/ connections[s] # None /\ CloseConn(connections[s])
       \/ connections[s] = None /\ s \in toVisit /\ UNCHANGED <<open, closed>>
    /\ UNCHANGED <<ctxDone, listening, registry, wg, accepting, idler, stopper, handler, key,
                   stale>>

StopRanged ==
    /\ stopper = "range" /\ toVisit = {}
    /\ stopper' = "wait"
    /\ UNCHANGED <<ctxDone, listening, registry, wg, accepting, idler, toVisit, handler, sockets>>

StopWaited ==
    /\ stopper = "wait" /\ wg = 0
    /\ stopper' = "stopped"
    /\ UNCHANGED <<ctxDone, listening, registry, wg, accepting, idler, toVisit, handler, sockets>>

Stop == StopListener \/ StopRanged \/ StopWaited \/ \E s \in toVisit : StopVisit(s)

-----------------------------------------------------------------------------

Next ==
    \/ \E c \in Conns : \/ Dial(c) \/ Ages(c) \/ Accept(c) \/ Admit(c) \/ Handler(c)
                        \/ IdleLook(c) \/ IdleClose(c)
    \/ AcceptExit \/ IdleExit
    \/ StopCancel \/ StopListener \/ StopRanged \/ StopWaited
    \/ \E s \in Stamps : StopVisit(s)

\* The scheduler runs every goroutine; nobody has to dial, to age, or to call Stop.
Fairness ==
    /\ \A c \in Conns : WF_vars(Handler(c)) /\ WF_vars(Admit(c)) /\ WF_vars(IdleClose(c))
    /\ WF_vars(AcceptExit) /\ WF_vars(IdleExit) /\ WF_vars(Stop)

Spec == Init /\ [][Next]_vars

FairSpec == Spec /\ Fairness

-----------------------------------------------------------------------------

\* The goroutines of handleConn that have been started and have not returned.
Running == {c \in Conns : handler[c] \in {"handshake", "store"} \cup Serving \cup Unwinding}

Bit(b) == IF b THEN 1 ELSE 0

\* The WaitGroup counts exactly the goroutines that run, through every exit of
\* handleConn, so it is never negative and acceptLoop never adds to it once it
\* can have reached zero under Wait.
WaitGroupExact ==
    wg = Cardinality(Running) + Bit(accepting # "exited") + Bit(idler # "exited")

\* connCount counts exactly the connections past their Add(1) and before their
\* Add(-1), whatever way the connection ends.
ConnCountExact ==
    connCount = Cardinality({c \in Conns :
                    handler[c] \in (Serving \ {"count"}) \cup {"unstore", "uncount"}})

\* When Stop has returned nothing is left: no goroutine, no entry, no count and no
\* open socket, also of connections accepted or registered while Stop ran.
StopLeavesNothing ==
    stopper = "stopped" =>
        /\ Running = {} /\ accepting = "exited" /\ idler = "exited"
        /\ connCount = 0
        /\ \A s \in Stamps : connections[s] = None
        /\ \A c \in Conns : ~open[c]

\* Once Stop waits, every connection that is reading has been closed ("close all
\* connections", server.go:138), so that Stop does not sit out its read deadline:
\* the one exception is a connection whose id was drawn twice (server.go:188),
\* because the other connection has overwritten or removed its entry.
StopReachesReaders ==
    stopper \in {"wait", "stopped"} =>
        \A c \in Conns :
            handler[c] = "read" /\ (\A d \in Conns \ {c} : key[d] # key[c]) => closed[c]

\* A Stop that has been called returns.
StopReturns == stopper # "off" ~> stopper = "stopped"

\* A connection whose close channel was closed leaves the server.
ClosedLeaves == \A c \in Conns : closed[c] ~> handler[c] = "gone"

-----------------------------------------------------------------------------
(* What the repository's documents say and the code does not do.            *)

\* The server holds at most MaxConns connections (README.md:98).
MaxConnsRespected == connCount <= MaxConns
=============================================================================
