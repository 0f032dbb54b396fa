CONSTANTS
    N = 2
    Callers = {c1, c2}
    Closers = {}
    PosWrap = 2
    PingsFail = TRUE
SPECIFICATION Spec
SYMMETRY Symmetry
INVARIANTS
    NoticedOnce
