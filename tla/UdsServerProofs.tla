-------------------------- MODULE UdsServerProofs ---------------------------
(***************************************************************************)
(* Theorems about UdsServer, for every finite set of connections, every    *)
(* limit and every set of clock readings.                                  *)
(***************************************************************************)
EXTENDS UdsServer, FiniteSetTheorems, TLAPS

-----------------------------------------------------------------------------
(* The inductive invariant. *)

RunLabels == {"handshake", "store"} \cup Serving \cup Unwinding
CountLabels == (Serving \ {"count"}) \cup {"unstore", "uncount"}
Registered == Serving \cup {"unstore"}

\* The connections at one of the labels L, when h holds their labels
At(h, L) == {c \in Conns : h[c] \in L}

\* The context is cancelled from the first step of Stop on, and the listener is
\* closed from the second; the connection that acceptLoop holds is the accepted one.
PhasesAgree ==
    /\ ctxDone <=> stopper # "off"
    /\ stopper \in {"range", "wait", "stopped"} => ~listening
    /\ \A c \in Conns : handler[c] = "accepted" <=> accepting = c
    /\ stopper = "stopped" => wg = 0

\* A connection has an id from its registration on, an entry leads to a connection
\* that has registered and not yet removed itself, and only a connection between
\* Accept and its own Close has an open socket.
EntriesOwned ==
    /\ \A c \in Conns : handler[c] \in Registered => key[c] \in Stamps
    /\ \A c \in Conns :
          handler[c] \in {"undialled", "backlog", "accepted", "handshake", "store"}
             => key[c] = None
    /\ \A s \in Stamps : \A c \in Conns :
          connections[s] = c => key[c] = s /\ handler[c] \in Registered
    /\ \A c \in Conns : open[c] =>
          handler[c] \in {"accepted", "handshake", "store", "uncount", "close"} \cup Registered

\* No other connection has drawn the id of c.
OwnKey(c) == \A d \in Conns \ {c} : key[d] # key[c]

\* A connection with an id of its own keeps its entry until it removes it, and a
\* reading one is closed or still to be visited once Stop's Range has begun.
ReadersReached ==
    /\ \A c \in Conns : handler[c] \in Registered /\ OwnKey(c) => connections[key[c]] = c
    /\ stopper \in {"range", "wait", "stopped"} =>
          \A c \in Conns : handler[c] = "read" /\ OwnKey(c) =>
              closed[c] \/ (stopper = "range" /\ key[c] \in toVisit)

IndInv ==
    /\ TypeOK /\ WaitGroupExact /\ ConnCountExact
    /\ PhasesAgree /\ EntriesOwned /\ ReadersReached

-----------------------------------------------------------------------------
(* Counting connections. *)

\* A goroutine that moves from one label to another changes the number of
\* connections at the labels L by at most one.
LEMMA GotoAt ==
  ASSUME TypeOK, NEW c \in Conns, NEW l, Goto(c, l), NEW L
  PROVE  /\ Cardinality(At(handler, L)) \in Nat /\ Cardinality(At(handler', L)) \in Nat
         /\ l \in L /\ handler[c] \in L =>
               Cardinality(At(handler', L)) = Cardinality(At(handler, L))
         /\ l \notin L /\ handler[c] \notin L =>
               Cardinality(At(handler', L)) = Cardinality(At(handler, L))
         /\ l \in L /\ handler[c] \notin L =>
               Cardinality(At(handler', L)) = Cardinality(At(handler, L)) + 1
         /\ l \notin L /\ handler[c] \in L =>
               Cardinality(At(handler', L)) = Cardinality(At(handler, L)) - 1
<1> DEFINE A == At(handler, L)
<1> DEFINE B == At(handler', L)
<1>1. IsFiniteSet(A) /\ IsFiniteSet(B) /\ Cardinality(A) \in Nat /\ Cardinality(B) \in Nat
  <2>1. A \subseteq Conns /\ B \subseteq Conns
    BY DEF At
  <2>2. IsFiniteSet(A) /\ IsFiniteSet(B)
    BY <2>1, FS_Subset, UdsAssumption
  <2> QED
    BY <2>2, FS_CardinalityType
<1>2. \A d \in Conns : handler'[d] = IF d = c THEN l ELSE handler[d]
  BY DEF Goto, TypeOK
<1>3. CASE (l \in L /\ handler[c] \in L) \/ (l \notin L /\ handler[c] \notin L)
  <2>1. A = B
    BY <1>2, <1>3 DEF At
  <2> QED
    BY <1>1, <1>3, <2>1
<1>4. CASE l \in L /\ handler[c] \notin L
  <2>1. c \notin A /\ B = A \cup {c}
    BY <1>2, <1>4 DEF At
  <2>2. Cardinality(B) = Cardinality(A) + 1
    BY <1>1, <2>1, FS_AddElement
  <2> QED
    BY <1>1, <1>4, <2>2
<1>5. CASE l \notin L /\ handler[c] \in L
  <2>1. c \in A /\ B = A \ {c}
    BY <1>2, <1>5 DEF At
  <2>2. Cardinality(B) = Cardinality(A) - 1
    BY <1>1, <2>1, FS_RemoveElement
  <2> QED
    BY <1>1, <1>5, <2>2
<1> QED
  BY <1>3, <1>4, <1>5

LEMMA SameAt ==
  ASSUME NEW L
  PROVE  /\ Cardinality(At(handler, L)) \in Nat /\ Cardinality(At(handler', L)) \in Nat
         /\ handler' = handler => Cardinality(At(handler', L)) = Cardinality(At(handler, L))
         /\ StopListener /\ "backlog" \notin L /\ "gone" \notin L =>
               Cardinality(At(handler', L)) = Cardinality(At(handler, L))
<1>1. At(handler, L) \subseteq Conns /\ At(handler', L) \subseteq Conns
  BY DEF At
<1>2. IsFiniteSet(At(handler, L)) /\ IsFiniteSet(At(handler', L))
  BY <1>1, FS_Subset, UdsAssumption
<1>3. Cardinality(At(handler, L)) \in Nat /\ Cardinality(At(handler', L)) \in Nat
  BY <1>2, FS_CardinalityType
<1>4. ASSUME StopListener, "backlog" \notin L, "gone" \notin L
      PROVE  At(handler', L) = At(handler, L)
  <2>1. \A c \in Conns : handler'[c] = IF handler[c] = "backlog" THEN "gone" ELSE handler[c]
    BY <1>4 DEF StopListener
  <2> QED
    BY <1>4, <2>1 DEF At
<1> QED
  BY <1>3, <1>4

LEMMA RunningIs ==
  /\ Running = At(handler, RunLabels)
  /\ Running' = At(handler', RunLabels)
PROOF BY DEF Running, At, RunLabels

LEMMA WaitGroupMeans ==
  /\ WaitGroupExact <=> wg = Cardinality(At(handler, RunLabels))
        + Bit(accepting # "exited") + Bit(idler # "exited")
  /\ WaitGroupExact' <=> wg' = Cardinality(At(handler', RunLabels))
        + Bit(accepting' # "exited") + Bit(idler' # "exited")
PROOF BY RunningIs DEF WaitGroupExact

LEMMA ConnCountMeans ==
  /\ ConnCountExact <=> connCount = Cardinality(At(handler, CountLabels))
  /\ ConnCountExact' <=> connCount' = Cardinality(At(handler', CountLabels))
PROOF BY DEF ConnCountExact, At, CountLabels

-----------------------------------------------------------------------------
(* Types, and the two counters. *)

LEMMA InitHolds == Init => IndInv
<1> SUFFICES ASSUME Init PROVE IndInv
  OBVIOUS
<1>1. At(handler, RunLabels) = {} /\ At(handler, CountLabels) = {}
  BY DEF Init, At, RunLabels, CountLabels, Serving, Unwinding
<1>2. Cardinality({}) = 0
  BY FS_EmptySet
<1>3. WaitGroupExact /\ ConnCountExact
  BY <1>1, <1>2, WaitGroupMeans, ConnCountMeans DEF Init, Bit
<1>4. TypeOK /\ PhasesAgree
  BY UdsAssumption DEF Init, TypeOK, PhasesAgree, Labels
<1>5. EntriesOwned /\ ReadersReached
  BY UdsAssumption DEF Init, EntriesOwned, ReadersReached, Registered, Serving
<1> QED
  BY <1>3, <1>4, <1>5 DEF IndInv

\* handleConn's steps keep acceptLoop, idleChecker and Stop where they are.
LEMMA HandlerMoves ==
  ASSUME NEW c \in Conns, Handler(c)
  PROVE  /\ UNCHANGED <<ctxDone, listening, goroutines>>
         /\ handler[c] \in RunLabels
         /\ \E l \in {"gone"} \cup RunLabels : Goto(c, l)
<1>1. CASE Handshake(c)
  BY <1>1 DEF Handshake, RunLabels, Serving, Unwinding, goroutines
<1>2. CASE Register(c)
  BY <1>2 DEF Register, RunLabels, Serving, Unwinding, goroutines
<1>3. CASE Count(c)
  BY <1>3 DEF Count, RunLabels, Serving, Unwinding, goroutines
<1>4. CASE LoopTest(c)
  BY <1>4 DEF LoopTest, RunLabels, Serving, Unwinding, goroutines
<1>5. CASE ReadRequest(c)
  BY <1>5 DEF ReadRequest, RunLabels, Serving, Unwinding, goroutines
<1>6. CASE Handle(c)
  BY <1>6 DEF Handle, RunLabels, Serving, Unwinding, goroutines
<1>7. CASE WriteResponse(c)
  BY <1>7 DEF WriteResponse, RunLabels, Serving, Unwinding, goroutines
<1>8. CASE Unstore(c)
  BY <1>8 DEF Unstore, RunLabels, Serving, Unwinding, goroutines
<1>9. CASE Uncount(c)
  BY <1>9 DEF Uncount, RunLabels, Serving, Unwinding, goroutines
<1>10. CASE CloseOwn(c)
  BY <1>10 DEF CloseOwn, RunLabels, Serving, Unwinding, goroutines
<1>11. CASE Done(c)
  BY <1>11 DEF Done, RunLabels, Serving, Unwinding, goroutines
<1> QED
  BY <1>1, <1>2, <1>3, <1>4, <1>5, <1>6, <1>7, <1>8, <1>9, <1>10, <1>11 DEF Handler

LEMMA HandlerCounts ==
  ASSUME NEW c \in Conns, Handler(c)
  PROVE  \E l \in Labels :
            /\ Goto(c, l)
            /\ wg' = IF l \in RunLabels THEN wg ELSE wg - 1
            /\ \/ connCount' = connCount /\ (l \in CountLabels <=> handler[c] \in CountLabels)
               \/ connCount' = connCount + 1 /\ l \in CountLabels /\ handler[c] \notin CountLabels
               \/ connCount' = connCount - 1 /\ l \notin CountLabels /\ handler[c] \in CountLabels
<1> USE DEF RunLabels, CountLabels, Serving, Unwinding, Labels, registry
<1>1. CASE Handshake(c)
  BY <1>1 DEF Handshake
<1>2. CASE Register(c)
  BY <1>2 DEF Register
<1>3. CASE Count(c)
  BY <1>3 DEF Count
<1>4. CASE LoopTest(c)
  BY <1>4 DEF LoopTest
<1>5. CASE ReadRequest(c)
  BY <1>5 DEF ReadRequest
<1>6. CASE Handle(c)
  BY <1>6 DEF Handle
<1>7. CASE WriteResponse(c)
  BY <1>7 DEF WriteResponse
<1>8. CASE Unstore(c)
  BY <1>8 DEF Unstore
<1>9. CASE Uncount(c)
  BY <1>9 DEF Uncount
<1>10. CASE CloseOwn(c)
  BY <1>10 DEF CloseOwn
<1>11. CASE Done(c)
  BY <1>11 DEF Done
<1> QED
  BY <1>1, <1>2, <1>3, <1>4, <1>5, <1>6, <1>7, <1>8, <1>9, <1>10, <1>11 DEF Handler

\* The other steps, by what they do to the counters and to acceptLoop and idleChecker
LEMMA WaitGroupStep ==
  ASSUME TypeOK, WaitGroupExact, PhasesAgree, [Next]_vars
  PROVE  WaitGroupExact' /\ wg' \in Nat
<1> DEFINE n == Cardinality(At(handler, RunLabels))
<1> DEFINE m == Cardinality(At(handler', RunLabels))
<1>1. /\ n \in Nat /\ m \in Nat
      /\ wg = n + Bit(accepting # "exited") + Bit(idler # "exited")
  BY SameAt, WaitGroupMeans
<1>2. SUFFICES wg' = m + Bit(accepting' # "exited") + Bit(idler' # "exited")
  <2>1. Bit(accepting' # "exited") \in Nat /\ Bit(idler' # "exited") \in Nat
    BY DEF Bit
  <2>2. wg' \in Nat
    BY <1>1, <1>2, <2>1
  <2>3. WaitGroupExact'
    BY <1>2, WaitGroupMeans
  <2> QED
    BY <2>2, <2>3
<1>3. "backlog" \notin RunLabels /\ "gone" \notin RunLabels /\ "accepted" \notin RunLabels
      /\ "undialled" \notin RunLabels /\ "handshake" \in RunLabels
  BY DEF RunLabels, Serving, Unwinding
<1>4. ASSUME NEW c \in Conns, Dial(c) \/ Accept(c)
      PROVE  wg' = m + Bit(accepting' # "exited") + Bit(idler' # "exited")
  <2>1. m = n
    <3>1. CASE Dial(c)
      BY <3>1, <1>3, GotoAt DEF Dial
    <3>2. CASE Accept(c)
      BY <3>2, <1>3, GotoAt DEF Accept
    <3> QED
      BY <1>4, <3>1, <3>2
  <2> QED
    BY <1>1, <1>4, <2>1, UdsAssumption DEF Dial, Accept, goroutines, Bit
<1>5. ASSUME NEW c \in Conns, Admit(c)
      PROVE  wg' = m + Bit(accepting' # "exited") + Bit(idler' # "exited")
  <2>1. handler[c] = "accepted" /\ accepting = c /\ accepting' = "accept" /\ idler' = idler
    BY <1>5 DEF Admit, PhasesAgree
  <2>2. \/ wg' = wg /\ Goto(c, "gone")
        \/ wg' = wg + 1 /\ Goto(c, "handshake")
    BY <1>5 DEF Admit
  <2>3. (Goto(c, "gone") => m = n) /\ (Goto(c, "handshake") => m = n + 1)
    BY <1>3, <2>1, GotoAt
  <2> QED
    BY <1>1, <2>1, <2>2, <2>3, UdsAssumption DEF Bit
<1>6. ASSUME NEW c \in Conns, Handler(c)
      PROVE  wg' = m + Bit(accepting' # "exited") + Bit(idler' # "exited")
  <2>1. handler[c] \in RunLabels /\ accepting' = accepting /\ idler' = idler
    BY <1>6, HandlerMoves DEF goroutines
  <2>2. PICK l \in Labels : Goto(c, l) /\ wg' = IF l \in RunLabels THEN wg ELSE wg - 1
    BY <1>6, HandlerCounts
  <2>3. m = IF l \in RunLabels THEN n ELSE n - 1
    BY <2>1, <2>2, GotoAt
  <2> QED
    BY <1>1, <2>1, <2>2, <2>3 DEF Bit
<1>7. CASE AcceptExit
  BY <1>1, <1>7, SameAt DEF AcceptExit, Bit
<1>8. CASE IdleExit
  BY <1>1, <1>8, SameAt DEF IdleExit, Bit
<1>9. CASE StopListener
  BY <1>1, <1>3, <1>9, SameAt DEF StopListener
<1>10. ASSUME NEW c \in Conns, IdleLook(c) \/ IdleClose(c)
       PROVE  wg' = m + Bit(accepting' # "exited") + Bit(idler' # "exited")
  BY <1>1, <1>10, SameAt, UdsAssumption DEF IdleLook, IdleClose, Bit
<1>11. CASE UNCHANGED <<wg, handler, accepting, idler>>
  BY <1>1, <1>11, SameAt
<1>12. ASSUME NEW c \in Conns, Ages(c) PROVE UNCHANGED <<wg, handler, accepting, idler>>
  BY <1>12 DEF Ages, goroutines
<1>13. CASE StopCancel \/ StopRanged \/ StopWaited \/ (\E s \in Stamps : StopVisit(s))
  BY <1>11, <1>13 DEF StopCancel, StopRanged, StopWaited, StopVisit
<1>14. CASE UNCHANGED vars
  BY <1>11, <1>14 DEF vars
<1> QED
  BY <1>4, <1>5, <1>6, <1>7, <1>8, <1>9, <1>10, <1>11, <1>12, <1>13, <1>14 DEF Next

LEMMA ConnCountStep ==
  ASSUME TypeOK, ConnCountExact, PhasesAgree, [Next]_vars
  PROVE  ConnCountExact' /\ connCount' \in Nat
<1> DEFINE n == Cardinality(At(handler, CountLabels))
<1> DEFINE m == Cardinality(At(handler', CountLabels))
<1>1. n \in Nat /\ m \in Nat /\ connCount = n
  BY SameAt, ConnCountMeans
<1>2. SUFFICES connCount' = m
  BY <1>1, ConnCountMeans
<1>3. /\ "backlog" \notin CountLabels /\ "gone" \notin CountLabels
      /\ "accepted" \notin CountLabels /\ "undialled" \notin CountLabels
      /\ "handshake" \notin CountLabels
  BY DEF CountLabels, Serving
<1>4. ASSUME NEW c \in Conns, Dial(c) \/ Accept(c) \/ Admit(c) PROVE connCount' = m
  <2>1. CASE Dial(c)
    BY <1>1, <1>3, <2>1, GotoAt DEF Dial, registry
  <2>2. CASE Accept(c)
    BY <1>1, <1>3, <2>2, GotoAt DEF Accept, registry
  <2>3. CASE Admit(c)
    <3>1. handler[c] = "accepted"
      BY <2>3 DEF Admit, PhasesAgree
    <3>2. connCount' = connCount /\ (Goto(c, "gone") \/ Goto(c, "handshake"))
      BY <2>3 DEF Admit, registry
    <3> QED
      BY <1>1, <1>3, <3>1, <3>2, GotoAt
  <2> QED
    BY <1>4, <2>1, <2>2, <2>3
<1>5. ASSUME NEW c \in Conns, Handler(c) PROVE connCount' = m
  <2>1. PICK l \in Labels :
            /\ Goto(c, l)
            /\ \/ connCount' = connCount /\ (l \in CountLabels <=> handler[c] \in CountLabels)
               \/ connCount' = connCount + 1 /\ l \in CountLabels /\ handler[c] \notin CountLabels
               \/ connCount' = connCount - 1 /\ l \notin CountLabels /\ handler[c] \in CountLabels
    BY <1>5, HandlerCounts
  <2> QED
    BY <1>1, <2>1, GotoAt
<1>6. CASE StopListener
  BY <1>1, <1>3, <1>6, SameAt DEF StopListener, registry
<1>7. CASE UNCHANGED <<connCount, handler>>
  BY <1>1, <1>7, SameAt
<1>8. ASSUME NEW c \in Conns, Ages(c) \/ IdleLook(c) \/ IdleClose(c)
      PROVE  UNCHANGED <<connCount, handler>>
  BY <1>8 DEF Ages, IdleLook, IdleClose, registry
<1>9. CASE \/ AcceptExit \/ IdleExit \/ StopCancel \/ StopRanged \/ StopWaited
           \/ \E s \in Stamps : StopVisit(s)
  BY <1>7, <1>9 DEF AcceptExit, IdleExit, StopCancel, StopRanged, StopWaited, StopVisit, registry
<1>10. CASE UNCHANGED vars
  BY <1>7, <1>10 DEF vars
<1> QED
  BY <1>4, <1>5, <1>6, <1>7, <1>8, <1>9, <1>10 DEF Next

LEMMA TypeStep ==
  ASSUME TypeOK, wg' \in Nat, connCount' \in Nat, [Next]_vars
  PROVE  TypeOK'
<1> USE DEF TypeOK, Labels
<1>1. ASSUME NEW c \in Conns, Handler(c) PROVE TypeOK'
  <2>1. /\ UNCHANGED <<ctxDone, listening, goroutines>>
        /\ \E l \in {"gone"} \cup RunLabels : Goto(c, l)
    BY <1>1, HandlerMoves
  <2>2. handler' \in [Conns -> Labels]
    BY <2>1 DEF Goto, RunLabels, Serving, Unwinding
  <2>3. /\ connections' \in [Stamps -> Conns \cup {None}]
        /\ key' \in [Conns -> Stamps \cup {None}]
        /\ open' \in [Conns -> BOOLEAN]
        /\ closed' \in [Conns -> BOOLEAN]
        /\ stale' \in [Conns -> BOOLEAN]
    <3> USE DEF registry, sockets
    <3>1. CASE Handshake(c)
      BY <3>1 DEF Handshake
    <3>2. CASE Register(c)
      BY <3>2 DEF Register
    <3>3. CASE Count(c)
      BY <3>3 DEF Count
    <3>4. CASE LoopTest(c)
      BY <3>4 DEF LoopTest
    <3>5. CASE ReadRequest(c)
      BY <3>5 DEF ReadRequest
    <3>6. CASE Handle(c)
      BY <3>6 DEF Handle
    <3>7. CASE WriteResponse(c)
      BY <3>7 DEF WriteResponse
    <3>8. CASE Unstore(c)
      BY <3>8 DEF Unstore
    <3>9. CASE Uncount(c)
      BY <3>9 DEF Uncount
    <3>10. CASE CloseOwn(c)
      BY <3>10 DEF CloseOwn, CloseConn
    <3>11. CASE Done(c)
      BY <3>11 DEF Done
    <3> QED
      BY <1>1, <3>1, <3>2, <3>3, <3>4, <3>5, <3>6, <3>7, <3>8, <3>9, <3>10, <3>11 DEF Handler
  <2> QED
    BY <2>1, <2>2, <2>3 DEF goroutines
<1> USE DEF registry, sockets, goroutines
<1>2. ASSUME NEW c \in Conns, Dial(c) \/ Ages(c) \/ Accept(c) \/ Admit(c) PROVE TypeOK'
  <2>1. CASE Dial(c)
    BY <2>1 DEF Dial, Goto
  <2>2. CASE Ages(c)
    BY <2>2 DEF Ages
  <2>3. CASE Accept(c)
    BY <2>3 DEF Accept, Goto
  <2>4. CASE Admit(c)
    BY <2>4 DEF Admit, Goto
  <2> QED
    BY <1>2, <2>1, <2>2, <2>3, <2>4
<1>3. ASSUME NEW c \in Conns, IdleLook(c) \/ IdleClose(c) PROVE TypeOK'
  BY <1>3 DEF IdleLook, IdleClose, CloseConn
<1>4. CASE AcceptExit \/ IdleExit
  BY <1>4 DEF AcceptExit, IdleExit
<1>5. CASE StopCancel \/ StopRanged \/ StopWaited
  BY <1>5 DEF StopCancel, StopRanged, StopWaited
<1>6. CASE StopListener
  <2>1. handler' \in [Conns -> Labels]
    BY <1>6 DEF StopListener
  <2> QED
    BY <1>6, <2>1 DEF StopListener
<1>7. ASSUME NEW s \in Stamps, StopVisit(s) PROVE TypeOK'
  BY <1>7 DEF StopVisit, CloseConn
<1>8. CASE UNCHANGED vars
  BY <1>8 DEF vars
<1> QED
  BY <1>1, <1>2, <1>3, <1>4, <1>5, <1>6, <1>7, <1>8 DEF Next

-----------------------------------------------------------------------------
(* The phases of Stop, and acceptLoop's connection. *)

\* When Stop has returned, the counter says that every goroutine has.
LEMMA StoppedMeans ==
  ASSUME TypeOK, WaitGroupExact, PhasesAgree, stopper = "stopped"
  PROVE  /\ wg = 0 /\ accepting = "exited" /\ idler = "exited"
         /\ \A c \in Conns : handler[c] \notin RunLabels
<1>1. wg = 0
  BY DEF PhasesAgree
<1>2. Cardinality(At(handler, RunLabels)) \in Nat
  BY SameAt
<1>3. wg = Cardinality(At(handler, RunLabels)) + Bit(accepting # "exited") + Bit(idler # "exited")
  BY WaitGroupMeans
<1>4. Cardinality(At(handler, RunLabels)) = 0 /\ accepting = "exited" /\ idler = "exited"
  BY <1>1, <1>2, <1>3 DEF Bit
<1>5. At(handler, RunLabels) = {}
  <2>1. At(handler, RunLabels) \subseteq Conns
    BY DEF At
  <2>2. IsFiniteSet(At(handler, RunLabels))
    BY <2>1, FS_Subset, UdsAssumption
  <2> QED
    BY <1>4, <2>2, FS_EmptySet
<1> QED
  BY <1>1, <1>4, <1>5 DEF At

LEMMA PhasesStep ==
  ASSUME TypeOK, WaitGroupExact, PhasesAgree, [Next]_vars
  PROVE  PhasesAgree'
<1>0. stopper = "stopped" => /\ wg = 0 /\ accepting = "exited" /\ idler = "exited"
                             /\ \A c \in Conns : handler[c] \notin RunLabels
  BY StoppedMeans
<1> USE DEF PhasesAgree
<1>1. ASSUME NEW c \in Conns, Handler(c) PROVE PhasesAgree'
  <2>1. /\ UNCHANGED <<ctxDone, listening, goroutines>> /\ handler[c] \in RunLabels
        /\ stopper # "stopped"
    BY <1>0, <1>1, HandlerMoves
  <2>2. PICK l \in {"gone"} \cup RunLabels : Goto(c, l)
    BY <1>1, HandlerMoves
  <2>3. l # "accepted" /\ handler[c] # "accepted"
    BY <2>1 DEF RunLabels, Serving, Unwinding
  <2>4. \A d \in Conns : handler'[d] = "accepted" <=> handler[d] = "accepted"
    BY <2>2, <2>3 DEF Goto, TypeOK
  <2> QED
    BY <2>1, <2>4 DEF goroutines
<1> USE DEF registry, sockets, goroutines
<1>2. ASSUME NEW c \in Conns, Dial(c) \/ Ages(c) PROVE PhasesAgree'
  <2>1. CASE Dial(c)
    BY <2>1 DEF Dial, Goto, TypeOK
  <2>2. CASE Ages(c)
    BY <2>2 DEF Ages
  <2> QED
    BY <1>2, <2>1, <2>2
<1>3. ASSUME NEW c \in Conns, Accept(c) PROVE PhasesAgree'
  BY <1>0, <1>3, UdsAssumption DEF Accept, Goto, TypeOK
<1>4. ASSUME NEW c \in Conns, Admit(c) PROVE PhasesAgree'
  <2>1. stopper # "stopped"
    BY <1>0, <1>4, UdsAssumption DEF Admit
  <2>2. \A d \in Conns : handler'[d] # "accepted"
    BY <1>4 DEF Admit, Goto, TypeOK
  <2> QED
    BY <1>4, <2>1, <2>2, UdsAssumption DEF Admit
<1>5. CASE AcceptExit
  BY <1>0, <1>5, UdsAssumption DEF AcceptExit
<1>6. CASE IdleExit
  BY <1>0, <1>6 DEF IdleExit
<1>7. ASSUME NEW c \in Conns, IdleLook(c) \/ IdleClose(c) PROVE PhasesAgree'
  BY <1>7 DEF IdleLook, IdleClose
<1>8. CASE StopCancel \/ StopRanged \/ StopWaited
  BY <1>8 DEF StopCancel, StopRanged, StopWaited
<1>9. CASE StopListener
  <2>1. \A d \in Conns : handler'[d] = "accepted" <=> handler[d] = "accepted"
    BY <1>9 DEF StopListener
  <2> QED
    BY <1>9, <2>1 DEF StopListener
<1>10. ASSUME NEW s \in Stamps, StopVisit(s) PROVE PhasesAgree'
  BY <1>10 DEF StopVisit
<1>11. CASE UNCHANGED vars
  BY <1>11 DEF vars
<1> QED
  BY <1>1, <1>2, <1>3, <1>4, <1>5, <1>6, <1>7, <1>8, <1>9, <1>10, <1>11 DEF Next

-----------------------------------------------------------------------------
(* The registry. *)

\* A label at which the connection has no id yet
Fresh == {"undialled", "backlog", "accepted", "handshake", "store"}

\* A label at which the socket may be open
MayBeOpen == {"accepted", "handshake", "store", "uncount", "close"} \cup Registered

\* The parts of EntriesOwned for one connection, of the four functions they read
Owned(h, k, cs, op, c) ==
    /\ h[c] \in Registered => k[c] \in Stamps
    /\ h[c] \in Fresh => k[c] = None
    /\ \A s \in Stamps : cs[s] = c => k[c] = s /\ h[c] \in Registered
    /\ op[c] => h[c] \in MayBeOpen

LEMMA OwnedMeans ==
  /\ EntriesOwned <=> \A c \in Conns : Owned(handler, key, connections, open, c)
  /\ EntriesOwned' <=> \A c \in Conns : Owned(handler', key', connections', open', c)
PROOF BY DEF EntriesOwned, Owned, Fresh, MayBeOpen

\* A step that registers nothing: a connection that moves does so within the labels
\* that its id, its entries and its socket allow.
LEMMA OwnedKept ==
  ASSUME EntriesOwned, key' = key,
         \A s \in Stamps : connections'[s] = connections[s] \/ connections'[s] = None,
         \A c \in Conns :
            /\ handler'[c] \in Registered => handler[c] \in Registered
            /\ handler'[c] \in Fresh => handler[c] \in Fresh
            /\ handler[c] \in Registered /\ handler'[c] \notin Registered =>
                  \A s \in Stamps : connections'[s] # c
            /\ open'[c] => handler'[c] \in MayBeOpen
  PROVE  EntriesOwned'
<1> SUFFICES ASSUME NEW c \in Conns PROVE Owned(handler', key', connections', open', c)
  BY OwnedMeans
<1>1. Owned(handler, key, connections, open, c)
  BY OwnedMeans
<1>2. ASSUME NEW s \in Stamps, connections'[s] = c PROVE key'[c] = s /\ handler'[c] \in Registered
  <2>1. connections[s] = c
    BY <1>2, UdsAssumption
  <2> QED
    BY <1>1, <1>2, <2>1 DEF Owned
<1> QED
  BY <1>1, <1>2 DEF Owned

LEMMA EntriesStep ==
  ASSUME TypeOK, PhasesAgree, EntriesOwned, [Next]_vars
  PROVE  EntriesOwned'
<1> USE DEF Registered, Fresh, MayBeOpen, Serving, registry, sockets, goroutines
<1>0. \A c \in Conns : open[c] => handler[c] \in MayBeOpen
  BY DEF EntriesOwned
<1>1. ASSUME NEW c \in Conns, Handler(c), ~Register(c), ~Unstore(c) PROVE EntriesOwned'
  <2>1. /\ key' = key /\ connections' = connections
        /\ handler'[c] \in Registered <=> handler[c] \in Registered
        /\ handler'[c] \in Fresh => handler[c] \in Fresh
        /\ open'[c] => open[c] /\ handler'[c] \in MayBeOpen
        /\ \A d \in Conns \ {c} : handler'[d] = handler[d] /\ open'[d] = open[d]
    <3> USE DEF TypeOK, Goto
    <3>1. CASE Handshake(c)
      BY <1>0, <3>1 DEF Handshake
    <3>2. CASE Count(c)
      BY <1>0, <3>2 DEF Count
    <3>3. CASE LoopTest(c)
      BY <1>0, <3>3 DEF LoopTest
    <3>4. CASE ReadRequest(c)
      BY <1>0, <3>4 DEF ReadRequest
    <3>5. CASE Handle(c)
      BY <1>0, <3>5 DEF Handle
    <3>6. CASE WriteResponse(c)
      BY <1>0, <3>6 DEF WriteResponse
    <3>7. CASE Uncount(c)
      BY <1>0, <3>7 DEF Uncount
    <3>8. CASE CloseOwn(c)
      BY <1>0, <3>8 DEF CloseOwn, CloseConn
    <3>9. CASE Done(c)
      BY <1>0, <3>9 DEF Done
    <3> QED
      BY <1>1, <3>1, <3>2, <3>3, <3>4, <3>5, <3>6, <3>7, <3>8, <3>9 DEF Handler
  <2>2. \A d \in Conns : open'[d] => handler'[d] \in MayBeOpen
    BY <1>0, <2>1
  <2> QED
    BY <2>1, <2>2, OwnedKept
<1>2. ASSUME NEW c \in Conns, Register(c) PROVE EntriesOwned'
  <2>1. PICK s \in Stamps : /\ key' = [key EXCEPT ![c] = s]
                            /\ connections' = [connections EXCEPT ![s] = c]
    BY <1>2 DEF Register
  <2>2. /\ handler[c] = "store" /\ handler'[c] = "count" /\ open' = open
        /\ \A d \in Conns \ {c} : handler'[d] = handler[d] /\ key'[d] = key[d]
        /\ key'[c] = s
        /\ \A r \in Stamps : connections'[r] = IF r = s THEN c ELSE connections[r]
    BY <1>2, <2>1 DEF Register, Goto, TypeOK
  <2>3. \A r \in Stamps : connections[r] # c
    BY <2>2 DEF EntriesOwned
  <2>4. Owned(handler', key', connections', open', c)
    BY <2>2, <2>3 DEF Owned
  <2>5. ASSUME NEW d \in Conns \ {c} PROVE Owned(handler', key', connections', open', d)
    <3>1. Owned(handler, key, connections, open, d)
      BY OwnedMeans
    <3> QED
      BY <2>2, <3>1 DEF Owned
  <2> QED
    BY <2>4, <2>5, OwnedMeans
<1>3. ASSUME NEW c \in Conns, Unstore(c) PROVE EntriesOwned'
  <2>1. /\ key' = key /\ open' = open
        /\ handler[c] = "unstore" /\ handler'[c] = "uncount"
        /\ \A d \in Conns \ {c} : handler'[d] = handler[d]
        /\ \A s \in Stamps : connections'[s] = IF s = key[c] THEN None ELSE connections[s]
    BY <1>3 DEF Unstore, Goto, TypeOK
  <2>2. \A s \in Stamps : connections'[s] # c
    BY <2>1, UdsAssumption DEF EntriesOwned
  <2> QED
    BY <1>0, <2>1, <2>2, OwnedKept
<1>4. ASSUME NEW c \in Conns, Dial(c) PROVE EntriesOwned'
  BY <1>0, <1>4, OwnedKept DEF Dial, Goto, TypeOK
<1>5. ASSUME NEW c \in Conns, Accept(c) PROVE EntriesOwned'
  <2>1. /\ key' = key /\ connections' = connections
        /\ handler[c] = "backlog" /\ handler'[c] = "accepted"
        /\ \A d \in Conns \ {c} : handler'[d] = handler[d] /\ open'[d] = open[d]
    BY <1>5 DEF Accept, Goto, TypeOK
  <2> QED
    BY <1>0, <2>1, OwnedKept
<1>6. ASSUME NEW c \in Conns, Admit(c) PROVE EntriesOwned'
  <2>1. /\ key' = key /\ connections' = connections
        /\ handler[c] = "accepted"
        /\ handler'[c] = "handshake" \/ (handler'[c] = "gone" /\ ~open'[c])
        /\ \A d \in Conns \ {c} : handler'[d] = handler[d] /\ open'[d] = open[d]
    BY <1>6 DEF Admit, Goto, TypeOK, PhasesAgree
  <2> QED
    BY <1>0, <2>1, OwnedKept
<1>7. CASE /\ UNCHANGED <<key, connections, handler>>
           /\ \A c \in Conns : open'[c] => open[c]
  BY <1>0, <1>7, OwnedKept
<1>8. ASSUME NEW c \in Conns, Ages(c) \/ IdleLook(c) PROVE EntriesOwned'
  BY <1>7, <1>8 DEF Ages, IdleLook
<1>9. ASSUME NEW c \in Conns, IdleClose(c) PROVE EntriesOwned'
  BY <1>7, <1>9 DEF IdleClose, CloseConn, TypeOK
<1>10. CASE AcceptExit \/ IdleExit \/ StopCancel \/ StopRanged \/ StopWaited
  BY <1>7, <1>10 DEF AcceptExit, IdleExit, StopCancel, StopRanged, StopWaited
<1>11. CASE StopListener
  <2>1. /\ key' = key /\ connections' = connections /\ open' = open
        /\ \A c \in Conns : handler'[c] = IF handler[c] = "backlog" THEN "gone" ELSE handler[c]
    BY <1>11 DEF StopListener
  <2> QED
    BY <1>0, <2>1, OwnedKept
<1>12. ASSUME NEW s \in Stamps, StopVisit(s) PROVE EntriesOwned'
  BY <1>7, <1>12 DEF StopVisit, CloseConn, TypeOK
<1>13. CASE UNCHANGED vars
  BY <1>7, <1>13 DEF vars
<1> QED
  BY <1>1, <1>2, <1>3, <1>4, <1>5, <1>6, <1>8, <1>9, <1>10, <1>11, <1>12, <1>13 DEF Next

-----------------------------------------------------------------------------
(* What Stop's Range reaches. *)

EntryKept == \A c \in Conns : handler[c] \in Registered /\ OwnKey(c) => connections[key[c]] = c

Phase == {"range", "wait", "stopped"}

Reached ==
    stopper \in Phase =>
        \A c \in Conns : handler[c] = "read" /\ OwnKey(c) =>
            closed[c] \/ (stopper = "range" /\ key[c] \in toVisit)

LEMMA ReachedMeans ==
  /\ ReadersReached <=> EntryKept /\ Reached
  /\ ReadersReached' <=> EntryKept' /\ Reached'
PROOF BY DEF ReadersReached, EntryKept, Reached, Phase

\* A step that draws no id and removes no entry of a registered connection
LEMMA EntryKeptStep ==
  ASSUME EntryKept, key' = key,
         \A c \in Conns : handler'[c] \in Registered /\ OwnKey(c) =>
            handler[c] \in Registered /\ connections'[key[c]] = connections[key[c]]
  PROVE  EntryKept'
<1> SUFFICES ASSUME NEW c \in Conns, handler'[c] \in Registered, OwnKey(c)'
             PROVE  connections'[key'[c]] = c
  BY DEF EntryKept
<1>1. OwnKey(c)
  BY DEF OwnKey
<1> QED
  BY <1>1 DEF EntryKept

\* A step of another goroutine than Stop, and in which no connection begins to read
\* once Stop has cancelled the context
LEMMA ReachedStep ==
  ASSUME Reached, key' = key, UNCHANGED <<stopper, toVisit>>,
         \A c \in Conns : /\ stopper \in Phase /\ handler'[c] = "read" => handler[c] = "read"
                          /\ closed[c] => closed'[c]
  PROVE  Reached'
<1> SUFFICES ASSUME stopper' \in Phase, NEW c \in Conns, handler'[c] = "read", OwnKey(c)'
             PROVE  closed'[c] \/ (stopper' = "range" /\ key'[c] \in toVisit')
  BY DEF Reached
<1>1. OwnKey(c)
  BY DEF OwnKey
<1> QED
  BY <1>1 DEF Reached

LEMMA RegisterReached ==
  ASSUME TypeOK, EntriesOwned, EntryKept, Reached, NEW c \in Conns, Register(c)
  PROVE  EntryKept' /\ Reached'
<1> USE DEF Registered, Serving
<1>1. PICK s \in Stamps : /\ key' = [key EXCEPT ![c] = s]
                          /\ connections' = [connections EXCEPT ![s] = c]
  BY DEF Register
<1>2. /\ handler[c] = "store" /\ handler'[c] = "count"
      /\ UNCHANGED <<stopper, toVisit, closed>>
      /\ \A d \in Conns \ {c} : handler'[d] = handler[d] /\ key'[d] = key[d]
      /\ key'[c] = s
      /\ \A r \in Stamps : connections'[r] = IF r = s THEN c ELSE connections[r]
  BY <1>1 DEF Register, Goto, TypeOK, goroutines
<1>3. key[c] = None
  BY <1>2 DEF EntriesOwned
<1>4. ASSUME NEW d \in Conns \ {c}, handler[d] \in Registered, OwnKey(d)'
      PROVE  OwnKey(d) /\ key[d] \in Stamps /\ key[d] # s
  <2>1. key[d] \in Stamps
    BY <1>4 DEF EntriesOwned
  <2>2. \A e \in Conns \ {d} : key'[e] # key'[d]
    BY <1>4 DEF OwnKey
  <2>3. key[d] # s
    BY <1>2, <1>4, <2>2
  <2>4. \A e \in Conns \ {d} : key[e] # key[d]
    BY <1>2, <1>3, <2>1, <2>2, UdsAssumption
  <2> QED
    BY <2>1, <2>3, <2>4 DEF OwnKey
<1>5. EntryKept'
  <2> SUFFICES ASSUME NEW d \in Conns, handler'[d] \in Registered, OwnKey(d)'
               PROVE  connections'[key'[d]] = d
    BY DEF EntryKept
  <2>1. CASE d = c
    BY <1>2, <2>1
  <2>2. CASE d # c
    <3>1. handler[d] \in Registered /\ key'[d] = key[d]
      BY <1>2, <2>2
    <3>2. OwnKey(d) /\ key[d] \in Stamps /\ key[d] # s
      BY <1>4, <2>2, <3>1
    <3> QED
      BY <1>2, <3>1, <3>2 DEF EntryKept
  <2> QED
    BY <2>1, <2>2
<1>6. Reached'
  <2> SUFFICES ASSUME stopper' \in Phase, NEW d \in Conns, handler'[d] = "read", OwnKey(d)'
               PROVE  closed'[d] \/ (stopper' = "range" /\ key'[d] \in toVisit')
    BY DEF Reached
  <2>1. d # c /\ handler[d] = "read" /\ key'[d] = key[d]
    BY <1>2
  <2>2. OwnKey(d)
    BY <1>4, <2>1
  <2> QED
    BY <1>2, <2>1, <2>2 DEF Reached
<1> QED
  BY <1>5, <1>6

\* Range begins with the stamps that have an entry, so with those of the readers
\* that have an id of their own.
LEMMA StopListenerReached ==
  ASSUME TypeOK, EntriesOwned, EntryKept, StopListener
  PROVE  EntryKept' /\ Reached'
<1>1. /\ UNCHANGED <<key, connections, closed>>
      /\ stopper' = "range" /\ toVisit' = {s \in Stamps : connections[s] # None}
      /\ \A c \in Conns : handler'[c] = IF handler[c] = "backlog" THEN "gone" ELSE handler[c]
  BY DEF StopListener, registry, sockets
<1>2. EntryKept'
  BY <1>1, EntryKeptStep DEF Registered, Serving
<1>3. ASSUME NEW c \in Conns, handler'[c] = "read", OwnKey(c)' PROVE key'[c] \in toVisit'
  <2>1. handler[c] \in Registered /\ OwnKey(c)
    BY <1>1, <1>3 DEF OwnKey, Registered, Serving
  <2>2. connections[key[c]] = c /\ key[c] \in Stamps
    BY <2>1 DEF EntryKept, EntriesOwned
  <2> QED
    BY <1>1, <2>2, UdsAssumption
<1>4. Reached'
  BY <1>1, <1>3 DEF Reached
<1> QED
  BY <1>2, <1>4

LEMMA StopVisitReached ==
  ASSUME TypeOK, EntriesOwned, EntryKept, Reached, NEW s \in Stamps, StopVisit(s)
  PROVE  EntryKept' /\ Reached'
<1>1. /\ UNCHANGED <<key, connections, handler, stopper>>
      /\ stopper = "range" /\ toVisit' = toVisit \ {s}
      /\ \A c \in Conns : closed[c] => closed'[c]
      /\ \A c \in Conns : connections[s] = c => closed'[c]
  BY UdsAssumption DEF StopVisit, CloseConn, TypeOK, registry
<1>2. EntryKept'
  BY <1>1, EntryKeptStep
<1>3. ASSUME NEW c \in Conns, handler'[c] = "read", OwnKey(c)'
      PROVE  closed'[c] \/ key'[c] \in toVisit'
  <2>1. handler[c] = "read" /\ OwnKey(c)
    BY <1>1, <1>3 DEF OwnKey
  <2>2. connections[key[c]] = c
    BY <2>1 DEF EntryKept, Registered, Serving
  <2>3. closed[c] \/ key[c] \in toVisit
    BY <1>1, <2>1 DEF Reached, Phase
  <2> QED
    BY <1>1, <2>2, <2>3
<1>4. Reached'
  BY <1>1, <1>3 DEF Reached
<1> QED
  BY <1>2, <1>4

LEMMA ReadersStep ==
  ASSUME TypeOK, PhasesAgree, EntriesOwned, ReadersReached, [Next]_vars
  PROVE  ReadersReached'
<1>0. EntryKept /\ Reached
  BY ReachedMeans
<1> USE DEF Registered, Serving, registry, sockets, goroutines
<1>1. ASSUME NEW c \in Conns, Handler(c), ~Register(c), ~Unstore(c) PROVE ReadersReached'
  <2>1. /\ UNCHANGED <<key, connections, stopper, toVisit>>
        /\ handler'[c] \in Registered => handler[c] \in Registered
        /\ handler'[c] = "read" => handler[c] = "loop" /\ ~ctxDone
        /\ \A d \in Conns : closed[d] => closed'[d]
        /\ \A d \in Conns \ {c} : handler'[d] = handler[d]
    <3> USE DEF TypeOK, Goto
    <3>1. CASE Handshake(c)
      BY <3>1 DEF Handshake
    <3>2. CASE Count(c)
      BY <3>2 DEF Count
    <3>3. CASE LoopTest(c)
      BY <3>3 DEF LoopTest
    <3>4. CASE ReadRequest(c)
      BY <3>4 DEF ReadRequest
    <3>5. CASE Handle(c)
      BY <3>5 DEF Handle
    <3>6. CASE WriteResponse(c)
      BY <3>6 DEF WriteResponse
    <3>7. CASE Uncount(c)
      BY <3>7 DEF Uncount
    <3>8. CASE CloseOwn(c)
      BY <3>8 DEF CloseOwn, CloseConn
    <3>9. CASE Done(c)
      BY <3>9 DEF Done
    <3> QED
      BY <1>1, <3>1, <3>2, <3>3, <3>4, <3>5, <3>6, <3>7, <3>8, <3>9 DEF Handler
  <2>2. EntryKept'
    BY <1>0, <2>1, EntryKeptStep
  <2>3. stopper \in Phase => ctxDone
    BY DEF PhasesAgree, Phase
  <2>4. Reached'
    BY <1>0, <2>1, <2>3, ReachedStep
  <2> QED
    BY <2>2, <2>4, ReachedMeans
<1>2. ASSUME NEW c \in Conns, Register(c) PROVE ReadersReached'
  BY <1>0, <1>2, RegisterReached, ReachedMeans
<1>3. ASSUME NEW c \in Conns, Unstore(c) PROVE ReadersReached'
  <2>1. /\ UNCHANGED <<key, closed, stopper, toVisit>>
        /\ handler'[c] = "uncount"
        /\ \A d \in Conns \ {c} : handler'[d] = handler[d]
        /\ \A s \in Stamps : s # key[c] => connections'[s] = connections[s]
    BY <1>3 DEF Unstore, Goto, TypeOK
  <2>2. ASSUME NEW d \in Conns, handler'[d] \in Registered, OwnKey(d)
        PROVE  handler[d] \in Registered /\ connections'[key[d]] = connections[key[d]]
    <3>1. d # c /\ handler[d] \in Registered
      BY <2>1, <2>2
    <3>2. key[d] \in Stamps /\ key[d] # key[c]
      BY <2>2, <3>1 DEF EntriesOwned, OwnKey
    <3> QED
      BY <2>1, <3>1, <3>2
  <2>3. EntryKept'
    BY <1>0, <2>1, <2>2, EntryKeptStep
  <2>4. Reached'
    BY <1>0, <2>1, ReachedStep
  <2> QED
    BY <2>3, <2>4, ReachedMeans
<1>4. CASE /\ UNCHANGED <<key, connections, stopper, toVisit>>
           /\ \A c \in Conns :
                 /\ handler'[c] \in Registered => handler'[c] = handler[c]
                 /\ closed[c] => closed'[c]
  <2>1. EntryKept'
    BY <1>0, <1>4, EntryKeptStep
  <2>2. Reached'
    BY <1>0, <1>4, ReachedStep
  <2> QED
    BY <2>1, <2>2, ReachedMeans
<1>5. ASSUME NEW c \in Conns, Dial(c) \/ Ages(c) PROVE ReadersReached'
  BY <1>4, <1>5 DEF Dial, Ages, Goto, TypeOK
<1>6. ASSUME NEW c \in Conns, Accept(c) PROVE ReadersReached'
  BY <1>4, <1>6 DEF Accept, Goto, TypeOK
<1>7. ASSUME NEW c \in Conns, Admit(c) PROVE ReadersReached'
  BY <1>4, <1>7 DEF Admit, Goto, TypeOK
<1>8. ASSUME NEW c \in Conns, IdleLook(c) \/ IdleClose(c) PROVE ReadersReached'
  BY <1>4, <1>8 DEF IdleLook, IdleClose, CloseConn, TypeOK
<1>9. CASE AcceptExit \/ IdleExit
  BY <1>4, <1>9 DEF AcceptExit, IdleExit
<1>10. CASE StopListener
  BY <1>0, <1>10, StopListenerReached, ReachedMeans
<1>11. ASSUME NEW s \in Stamps, StopVisit(s) PROVE ReadersReached'
  BY <1>0, <1>11, StopVisitReached, ReachedMeans
<1>12. CASE StopCancel \/ StopRanged \/ StopWaited
  <2>1. /\ UNCHANGED <<key, connections, handler, closed, toVisit>>
        /\ stopper' \in Phase => stopper \in Phase
        /\ stopper = "range" => toVisit = {}
    BY <1>12 DEF StopCancel, StopRanged, StopWaited, Phase
  <2>2. EntryKept'
    BY <1>0, <2>1, EntryKeptStep
  <2>3. \A c \in Conns : OwnKey(c)' <=> OwnKey(c)
    BY <2>1 DEF OwnKey
  <2>4. Reached'
    BY <1>0, <2>1, <2>3 DEF Reached
  <2> QED
    BY <2>2, <2>4, ReachedMeans
<1>13. CASE UNCHANGED vars
  BY <1>4, <1>13 DEF vars
<1> QED
  BY <1>1, <1>2, <1>3, <1>5, <1>6, <1>7, <1>8, <1>9, <1>10, <1>11, <1>12, <1>13 DEF Next

-----------------------------------------------------------------------------

LEMMA InductiveStep == IndInv /\ [Next]_vars => IndInv'
<1> SUFFICES ASSUME IndInv, [Next]_vars PROVE IndInv'
  OBVIOUS
<1> USE DEF IndInv
<1>1. WaitGroupExact' /\ wg' \in Nat
  BY WaitGroupStep
<1>2. ConnCountExact' /\ connCount' \in Nat
  BY ConnCountStep
<1>3. TypeOK'
  BY <1>1, <1>2, TypeStep
<1>4. PhasesAgree' /\ EntriesOwned' /\ ReadersReached'
  BY PhasesStep, EntriesStep, ReadersStep
<1> QED
  BY <1>1, <1>2, <1>3, <1>4

LEMMA Inductive == Spec => []IndInv
PROOF BY InitHolds, InductiveStep, PTL DEF Spec

\* Every goroutine is at one of its labels, and the two counters are naturals: neither
\* is ever decremented below zero.
THEOREM TypeCorrect == Spec => []TypeOK
<1>1. IndInv => TypeOK
  BY DEF IndInv
<1> QED
  BY <1>1, Inductive, PTL

\* Through every exit of handleConn, and however acceptLoop, idleChecker and Stop
\* interleave with it, the WaitGroup counts the goroutines that run.
THEOREM WaitGroup == Spec => []WaitGroupExact
<1>1. IndInv => WaitGroupExact
  BY DEF IndInv
<1> QED
  BY <1>1, Inductive, PTL

\* The connection counter is the number of connections past their handshake, whatever
\* way each of them ends.
THEOREM ConnCount == Spec => []ConnCountExact
<1>1. IndInv => ConnCountExact
  BY DEF IndInv
<1> QED
  BY <1>1, Inductive, PTL

\* When Stop has returned there is no goroutine, entry, count or open socket left.
THEOREM StopClean == Spec => []StopLeavesNothing
<1>1. IndInv => StopLeavesNothing
  <2> SUFFICES ASSUME IndInv, stopper = "stopped"
               PROVE  /\ Running = {} /\ accepting = "exited" /\ idler = "exited"
                      /\ connCount = 0
                      /\ \A s \in Stamps : connections[s] = None
                      /\ \A c \in Conns : ~open[c]
    BY DEF StopLeavesNothing
  <2>1. /\ accepting = "exited" /\ idler = "exited"
        /\ \A c \in Conns : handler[c] \notin RunLabels
    BY StoppedMeans DEF IndInv
  <2>2. Running = {}
    BY <2>1, RunningIs DEF At
  <2>3. connCount = 0
    <3>1. At(handler, CountLabels) = {}
      BY <2>1 DEF At, CountLabels, RunLabels, Unwinding
    <3> QED
      BY <3>1, ConnCountMeans, FS_EmptySet DEF IndInv
  <2>4. \A s \in Stamps : connections[s] = None
    <3>1. \A s \in Stamps : connections[s] \notin Conns
      BY <2>1 DEF IndInv, EntriesOwned, Registered, RunLabels, Unwinding
    <3> QED
      BY <3>1 DEF IndInv, TypeOK
  <2>5. \A c \in Conns : ~open[c]
    <3>1. \A c \in Conns : handler[c] # "accepted"
      BY <2>1, UdsAssumption DEF IndInv, PhasesAgree
    <3> QED
      BY <2>1, <3>1 DEF IndInv, EntriesOwned, Registered, RunLabels, Unwinding
  <2> QED
    BY <2>1, <2>2, <2>3, <2>4, <2>5
<1> QED
  BY <1>1, Inductive, PTL

\* Once Stop waits, a connection that reads has been closed, unless another one drew
\* the same id.
THEOREM StopReaches == Spec => []StopReachesReaders
<1>1. IndInv => StopReachesReaders
  BY DEF IndInv, ReadersReached, OwnKey, StopReachesReaders
<1> QED
  BY <1>1, Inductive, PTL
=============================================================================
