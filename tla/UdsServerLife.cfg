\* Two connections under a limit of one, every goroutine scheduled.
\* The server may stop: no deadlock check.
CONSTANTS
    Conns = {c1, c2}
    MaxConns = 1
    Stamps = {s1, s2}
    None = None
SPECIFICATION FairSpec
INVARIANTS WaitGroupExact ConnCountExact StopLeavesNothing StopReachesReaders
PROPERTIES StopReturns ClosedLeaves
CHECK_DEADLOCK FALSE
