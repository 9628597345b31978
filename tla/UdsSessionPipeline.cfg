\* A handshake and two requests that may be sent without waiting.
CONSTANT N = 2
SPECIFICATION Spec
INVARIANT EveryMessageAnswered
CHECK_DEADLOCK FALSE
