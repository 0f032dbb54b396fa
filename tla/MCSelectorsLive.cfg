CONSTANTS
    Callers = {c1}
    Closers = {k1, k2}
    PosWrap = 1
    PingsFail = FALSE
SPECIFICATION FairSpec
PROPERTIES
    EjectedRecovers
    CloseEnds
