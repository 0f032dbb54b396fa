CONSTANTS
    N = 2
    Callers = {c1}
    Closers = {k1, k2}
    PosWrap = 1
    PingsFail = TRUE
SPECIFICATION Spec
SYMMETRY Symmetry
INVARIANTS
    CloseIsComplete
