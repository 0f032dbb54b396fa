CONSTANTS
  Callers = {p1, p2}
  Closers = {k1}
  Conns = {c1, c2}
  NoConn = NoConn
  MaxConns = 1
  ConfMaxIdleConns = 1
  ConfMaxWaiters = 1
  PoolFIFO = FALSE
SYMMETRY Symmetry
SPECIFICATION Spec
INVARIANT CloseWaitsForAll
