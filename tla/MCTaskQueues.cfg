CONSTANTS
    Workers = {w1, w2}
    Tasks = {t1, t2, t3}
    Free = Free
    Stopper = Stopper
    NoTask = NoTask
    ConfQueueSize = 1
    Procs = {p1, p2}
    Stalled = {p1}
    MaxPushes = 3
    Nil = Nil
    Nothing = Nothing
    Empty = Empty
SPECIFICATION FairSpec
INVARIANT TasksAccounted
PROPERTIES
    AcceptedIsCompleted
    WorkersReturn
    QueueIsFifo
    OthersReturn
CHECK_DEADLOCK FALSE
