\* Two connections shake hands at once under a limit of one.
CONSTANTS
    Conns = {c1, c2}
    MaxConns = 1
    Stamps = {s1, s2}
    None = None
SPECIFICATION Spec
INVARIANT MaxConnsRespected
CHECK_DEADLOCK FALSE
