CONSTANTS
  Callers = {p1, p2, p3, p4}
  Closers = {k1}
  Conns = {c1, c2}
  NoConn = NoConn
  MaxConns = 1
  ConfMaxIdleConns = 3
  ConfMaxWaiters = 2
  PoolFIFO = FALSE
SPECIFICATION FairSpec
INVARIANTS
  Accounting
  SoleOwner
  NoLostWakeup
  CapacityBound
  ShutdownIsFinal
PROPERTIES
  WaitersServedInOrder
  LendsLikeLeasePool
  OperationsReturn
  ShutdownCompletes
