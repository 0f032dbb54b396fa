-------------------------------- MODULE Gpool --------------------------------
(***************************************************************************)
(* The connection pool of gpool/gpool.go and gpool/waiter_queue.go.        *)
(*                                                                         *)
(* Everything the pool shares is read and written under Gpool.mutex, so an *)
(* action is one critical section: from a Lock to the next Unlock.  The    *)
(* pool releases the mutex in the middle of an operation wherever it runs  *)
(* the connection factory or closes a connection; pc[p] says where in the  *)
(* code caller p is between two critical sections.                         *)
(*                                                                         *)
(* Whether a connection is open and within its lifetimes, whether the      *)
(* factory succeeds and when a context or timer ends are the environment's *)
(* choice.  A connection that was closed is unreachable, and its identity  *)
(* may be given to a later connection.                                     *)
(***************************************************************************)
EXTENDS Integers, Sequences, FiniteSets

CONSTANTS Callers,          \* goroutines that call Get, Close and Discard
          Closers,          \* goroutines that call Gpool.Close
          Conns,            \* connections
          NoConn,           \* the nil *PoolConn
          MaxConns,         \* GPoolConfig.MaxConns
          ConfMaxIdleConns, \* GPoolConfig.MaxIdleConns, before clamping
          ConfMaxWaiters,   \* GPoolConfig.MaxWaiters, before defaulting
          PoolFIFO          \* GPoolConfig.PoolFIFO

ASSUME ConfAssumption ==
    /\ MaxConns \in Nat
    /\ ConfMaxIdleConns \in Nat
    /\ ConfMaxWaiters \in Int
    /\ PoolFIFO \in BOOLEAN
    /\ NoConn \notin Conns
    /\ IsFiniteSet(Callers)

VARIABLES idle,       \* idleQueue: connections from oldest to newest
          inUse,      \* number of borrowed connections
          creating,   \* number of slots reserved for connections being created
          closing,    \* number of connections being closed
          waiters,    \* waiterQueue: queued callers from oldest to newest
          result,     \* result[p]: what p's result channel holds
          closed,     \* the pool has been closed
          closeEnded, \* closeDone has been closed
          connState,  \* PoolConn.state
          pc,         \* where caller p is
          conn,       \* the connection caller p works with or was delivered
          closeList,  \* what closeIdleConnections has still to close
          closer      \* where a caller of Gpool.Close is

vars == <<idle, inUse, creating, closing, waiters, result, closed, closeEnded,
          connState, pc, conn, closeList, closer>>

-----------------------------------------------------------------------------
(* Configuration *)

MaxIdleConns == IF ConfMaxIdleConns > MaxConns THEN MaxConns ELSE ConfMaxIdleConns

AtLeastOne(n) == IF n >= 1 THEN n ELSE 1

MaxWaiters == IF ConfMaxWaiters <= 0 THEN AtLeastOne(MaxConns) ELSE ConfMaxWaiters

(* Values *)

ConnStates == {"idle", "borrowed", "returning", "closing", "closed"}

Results == {"none", "conn", "create", "closed"}

\* out: not in the pool; replacing: closing a stale idle connection in Get;
\* creating: running the factory; waiting: blocked in the select;
\* cancelling: context or timer fired, before cancelWaiter locks; using: holds
\* a connection; returning, discarding: won the CAS, before locking;
\* closing: closing a connection at the end of an operation.
Locations == {"out", "replacing", "creating", "waiting", "cancelling", "using",
              "returning", "discarding", "closing"}

CloserLocations == {"out", "waiting", "returned"}

-----------------------------------------------------------------------------
(* Parts of critical sections *)

\* capacityUsedLocked
CapacityUsed == Len(idle) + inUse + creating + closing

\* Mutant: the loop compares capacity with <= instead of <.
DispatchCount_OffByOne(q, used) ==
    IF closed \/ used > MaxConns THEN 0
    ELSE IF Len(q) < MaxConns + 1 - used THEN Len(q) ELSE MaxConns + 1 - used

\* How many of the queued callers q dispatchCapacityWaitersLocked serves when
\* `used' slots are taken: its loop takes one slot per caller served.
DispatchCount(q, used) ==
    IF closed \/ used >= MaxConns THEN 0
    ELSE IF Len(q) < MaxConns - used THEN Len(q) ELSE MaxConns - used

\* dispatchCapacityWaitersLocked: the oldest callers of q receive a reserved
\* slot each.  `reserved' is the value of creating before the loop.
DispatchCapacityWaiters(q, used, reserved) ==
    LET n == DispatchCount(q, used)
    IN  /\ creating' = reserved + n
        /\ waiters' = SubSeq(q, n + 1, Len(q))
        /\ result' = [p \in Callers |->
                        IF \E i \in 1..n : q[i] = p THEN "create" ELSE result[p]]

\* finishCloseLocked, when `used' slots are taken and q is queued.
FinishClose(isClosed, used, q) ==
    closeEnded' = (closeEnded \/ (isClosed /\ used = 0 /\ q = <<>>))

\* Mutant: the slot freed by a physical close is not offered to the waiters.
AfterPhysicalClose_NoDispatch(p, more) ==
    /\ connState' = [connState EXCEPT ![conn[p]] = "closed"]
    /\ closing' = closing - 1
    /\ creating' = creating + more
    /\ FinishClose(closed, CapacityUsed - 1, waiters)
    /\ UNCHANGED <<waiters, result>>

\* The locked tail of closeConnectionLocked(conn[p]); `more' slots are reserved
\* by the caller in the same critical section.
AfterPhysicalClose(p, more) ==
    /\ connState' = [connState EXCEPT ![conn[p]] = "closed"]
    /\ closing' = closing - 1
    /\ \/ /\ closed
          /\ FinishClose(TRUE, CapacityUsed - 1, waiters)
          /\ creating' = creating + more
          /\ UNCHANGED <<waiters, result>>
       \/ /\ ~closed
          /\ DispatchCapacityWaiters(waiters, CapacityUsed - 1, creating + more)
          /\ UNCHANGED closeEnded

\* The first lines of closeConnectionLocked: p is about to close c, which
\* keeps its slot as a closing connection.
BeginPhysicalClose(p, c, loc) ==
    /\ connState' = [connState EXCEPT ![c] = "closing"]
    /\ closing' = closing + 1
    /\ conn' = [conn EXCEPT ![p] = c]
    /\ pc' = [pc EXCEPT ![p] = loc]

\* p's operation ends and p holds no connection.
Leave(p) ==
    /\ pc' = [pc EXCEPT ![p] = "out"]
    /\ conn' = [conn EXCEPT ![p] = NoConn]

-----------------------------------------------------------------------------
(* GpoolInit2 and CreateIdleConn: any number of the MaxIdleConns initial   *)
(* connections may have failed.                                            *)

Distinct(s) == \A i, j \in 1..Len(s) : s[i] = s[j] => i = j

Init ==
    /\ idle \in UNION {[1..n -> Conns] : n \in 0..MaxIdleConns}
    /\ Distinct(idle)
    /\ inUse = 0
    /\ creating = 0
    /\ closing = 0
    /\ waiters = <<>>
    /\ result = [p \in Callers |-> "none"]
    /\ closed = FALSE
    /\ closeEnded = FALSE
    /\ connState = [c \in Conns |->
                      IF \E i \in 1..Len(idle) : idle[i] = c THEN "idle" ELSE "closed"]
    /\ pc = [p \in Callers |-> "out"]
    /\ conn = [p \in Callers |-> NoConn]
    /\ closeList = <<>>
    /\ closer = [k \in Closers |-> "out"]

-----------------------------------------------------------------------------
(* Get *)

\* Get on a closed pool returns ErrPoolClosed.
GetClosed(p) ==
    /\ pc[p] = "out"
    /\ closed
    /\ UNCHANGED vars

\* The end of the ring getConnFromIdle takes from, and what stays.
PopIndex == IF PoolFIFO THEN 1 ELSE Len(idle)

AfterPop == IF PoolFIFO THEN Tail(idle) ELSE SubSeq(idle, 1, Len(idle) - 1)

\* getConnFromIdle, the connection is open and within its lifetimes.
GetIdle(p) ==
    /\ pc[p] = "out"
    /\ ~closed
    /\ waiters = <<>>
    /\ idle # <<>>
    /\ idle' = AfterPop
    /\ connState' = [connState EXCEPT ![idle[PopIndex]] = "borrowed"]
    /\ inUse' = inUse + 1
    /\ pc' = [pc EXCEPT ![p] = "using"]
    /\ conn' = [conn EXCEPT ![p] = idle[PopIndex]]
    /\ UNCHANGED <<creating, closing, waiters, result, closed, closeEnded,
                   closeList, closer>>

\* getConnFromIdle, the connection is not open or is too old: it is closed with
\* the mutex released.
GetStale(p) ==
    /\ pc[p] = "out"
    /\ ~closed
    /\ waiters = <<>>
    /\ idle # <<>>
    /\ idle' = AfterPop
    /\ BeginPhysicalClose(p, idle[PopIndex], "replacing")
    /\ UNCHANGED <<inUse, creating, waiters, result, closed, closeEnded,
                   closeList, closer>>

\* getConnFromIdle continues once the stale connection is closed: the freed
\* slot goes to the oldest waiter, and getConnFromNewForUse reserves a slot for
\* p as well, without looking at the capacity or at closed.
ReplaceStale(p) ==
    /\ pc[p] = "replacing"
    /\ AfterPhysicalClose(p, 1)
    /\ pc' = [pc EXCEPT ![p] = "creating"]
    /\ conn' = [conn EXCEPT ![p] = NoConn]
    /\ UNCHANGED <<idle, inUse, closed, closeList, closer>>

\* Get with a free slot: getConnFromNewForUse reserves it.
GetNew(p) ==
    /\ pc[p] = "out"
    /\ ~closed
    /\ waiters = <<>>
    /\ idle = <<>>
    /\ CapacityUsed < MaxConns
    /\ creating' = creating + 1
    /\ pc' = [pc EXCEPT ![p] = "creating"]
    /\ UNCHANGED <<idle, inUse, closing, waiters, result, closed, closeEnded,
                   connState, conn, closeList, closer>>

\* Get has to wait: others wait already, or nothing is idle and no slot is free.
MustWait == \/ waiters # <<>>
            \/ idle = <<>> /\ CapacityUsed >= MaxConns

\* waitForConnectionLocked with a full queue returns ErrPoolWaitQueueFull.
GetQueueFull(p) ==
    /\ pc[p] = "out"
    /\ ~closed
    /\ MustWait
    /\ Len(waiters) >= MaxWaiters
    /\ UNCHANGED vars

\* waitForConnectionLocked queues the caller.
GetWait(p) ==
    /\ pc[p] = "out"
    /\ ~closed
    /\ MustWait
    /\ Len(waiters) < MaxWaiters
    /\ DispatchCapacityWaiters(Append(waiters, p), CapacityUsed, creating)
    /\ pc' = [pc EXCEPT ![p] = "waiting"]
    /\ UNCHANGED <<idle, inUse, closing, closed, closeEnded, connState, conn,
                   closeList, closer>>

-----------------------------------------------------------------------------
(* The factory returns: the second half of getConnFromNewForUse and of     *)
(* handleWaitResult's create case.                                         *)

\* Mutant: closed is not looked at again after the factory returned.
CreateDone_IgnoresClosed(p, c) ==
    /\ pc[p] = "creating"
    /\ connState[c] = "closed"
    /\ creating' = creating - 1
    /\ connState' = [connState EXCEPT ![c] = "borrowed"]
    /\ inUse' = inUse + 1
    /\ pc' = [pc EXCEPT ![p] = "using"]
    /\ conn' = [conn EXCEPT ![p] = c]
    /\ UNCHANGED <<idle, closing, waiters, result, closed, closeEnded, closeList,
                   closer>>

CreateDone(p, c) ==
    /\ pc[p] = "creating"
    /\ ~closed
    /\ connState[c] = "closed"
    /\ creating' = creating - 1
    /\ connState' = [connState EXCEPT ![c] = "borrowed"]
    /\ inUse' = inUse + 1
    /\ pc' = [pc EXCEPT ![p] = "using"]
    /\ conn' = [conn EXCEPT ![p] = c]
    /\ UNCHANGED <<idle, closing, waiters, result, closed, closeEnded, closeList,
                   closer>>

\* The pool was closed meanwhile: the new connection is closed.
CreateDoneClosed(p, c) ==
    /\ pc[p] = "creating"
    /\ closed
    /\ connState[c] = "closed"
    /\ creating' = creating - 1
    /\ BeginPhysicalClose(p, c, "closing")
    /\ UNCHANGED <<idle, inUse, waiters, result, closed, closeEnded, closeList,
                   closer>>

\* Mutant: the slot of a failed creation is not offered to the waiters.
CreateFailed_NoDispatch(p) ==
    /\ pc[p] = "creating"
    /\ ~closed
    /\ creating' = creating - 1
    /\ Leave(p)
    /\ UNCHANGED <<idle, inUse, closing, waiters, result, closed, closeEnded,
                   connState, closeList, closer>>

CreateFailed(p) ==
    /\ pc[p] = "creating"
    /\ ~closed
    /\ DispatchCapacityWaiters(waiters, CapacityUsed - 1, creating - 1)
    /\ Leave(p)
    /\ UNCHANGED <<idle, inUse, closing, closed, closeEnded, connState, closeList,
                   closer>>

CreateFailedClosed(p) ==
    /\ pc[p] = "creating"
    /\ closed
    /\ creating' = creating - 1
    /\ FinishClose(TRUE, CapacityUsed - 1, waiters)
    /\ Leave(p)
    /\ UNCHANGED <<idle, inUse, closing, waiters, result, closed, connState,
                   closeList, closer>>

-----------------------------------------------------------------------------
(* Waiting: the select of waitForConnectionLocked, cancelWaiter and        *)
(* handleWaitResult.  A caller whose context or timer fired takes a result *)
(* that was delivered before it got the mutex.                             *)

Received(p, r) ==
    /\ pc[p] \in {"waiting", "cancelling"}
    /\ result[p] = r

\* A connection was handed over; delivery has already set conn[p].
ReceiveConn(p) ==
    /\ Received(p, "conn")
    /\ result' = [result EXCEPT ![p] = "none"]
    /\ pc' = [pc EXCEPT ![p] = "using"]
    /\ UNCHANGED <<idle, inUse, creating, closing, waiters, closed, closeEnded,
                   connState, conn, closeList, closer>>

\* Gpool.Close delivered ErrPoolClosed.
ReceiveClosed(p) ==
    /\ Received(p, "closed")
    /\ result' = [result EXCEPT ![p] = "none"]
    /\ Leave(p)
    /\ UNCHANGED <<idle, inUse, creating, closing, waiters, closed, closeEnded,
                   connState, closeList, closer>>

\* A reserved slot was delivered: p runs the factory.
ReceiveCreate(p) ==
    /\ Received(p, "create")
    /\ ~closed
    /\ result' = [result EXCEPT ![p] = "none"]
    /\ pc' = [pc EXCEPT ![p] = "creating"]
    /\ UNCHANGED <<idle, inUse, creating, closing, waiters, closed, closeEnded,
                   connState, conn, closeList, closer>>

\* Mutant: the reserved slot is forgotten when the pool was closed.
ReceiveCreateClosed_Leaks(p) ==
    /\ Received(p, "create")
    /\ closed
    /\ result' = [result EXCEPT ![p] = "none"]
    /\ Leave(p)
    /\ UNCHANGED <<idle, inUse, creating, closing, waiters, closed, closeEnded,
                   connState, closeList, closer>>

\* The pool was closed after the slot was delivered: p gives it back.
ReceiveCreateClosed(p) ==
    /\ Received(p, "create")
    /\ closed
    /\ result' = [result EXCEPT ![p] = "none"]
    /\ creating' = creating - 1
    /\ FinishClose(TRUE, CapacityUsed - 1, waiters)
    /\ Leave(p)
    /\ UNCHANGED <<idle, inUse, closing, waiters, closed, connState, closeList,
                   closer>>

\* The context ends or the timer fires while p waits.
StopWaiting(p) ==
    /\ pc[p] = "waiting"
    /\ pc' = [pc EXCEPT ![p] = "cancelling"]
    /\ UNCHANGED <<idle, inUse, creating, closing, waiters, result, closed,
                   closeEnded, connState, conn, closeList, closer>>

Queued(p) == \E i \in 1..Len(waiters) : waiters[i] = p

\* waiterQueue.Remove unlinks the i-th node.
Without(i) == SubSeq(waiters, 1, i - 1) \o SubSeq(waiters, i + 1, Len(waiters))

\* cancelWaiter on a waiter that is still queued.
CancelWaiter(p) ==
    /\ pc[p] = "cancelling"
    /\ \E i \in 1..Len(waiters) :
          /\ waiters[i] = p
          /\ DispatchCapacityWaiters(Without(i), CapacityUsed, creating)
    /\ Leave(p)
    /\ UNCHANGED <<idle, inUse, closing, closed, closeEnded, connState, closeList,
                   closer>>

-----------------------------------------------------------------------------
(* PoolConn.Close and put, PoolConn.Discard                                *)

\* The compare-and-swap of Close and of Discard.
BeginRelease(p, loc) ==
    /\ pc[p] = "using"
    /\ connState[conn[p]] = "borrowed"
    /\ connState' = [connState EXCEPT ![conn[p]] = "returning"]
    /\ pc' = [pc EXCEPT ![p] = loc]
    /\ UNCHANGED <<idle, inUse, creating, closing, waiters, result, closed,
                   closeEnded, conn, closeList, closer>>

Close(p) == BeginRelease(p, "returning")

Discard(p) == BeginRelease(p, "discarding")

\* Discard's critical section closes the connection.
DiscardClose(p) ==
    /\ pc[p] = "discarding"
    /\ inUse' = inUse - 1
    /\ BeginPhysicalClose(p, conn[p], "closing")
    /\ UNCHANGED <<idle, creating, waiters, result, closed, closeEnded, closeList,
                   closer>>

\* put on a closed pool closes the connection.
PutClosed(p) ==
    /\ pc[p] = "returning"
    /\ closed
    /\ inUse' = inUse - 1
    /\ BeginPhysicalClose(p, conn[p], "closing")
    /\ UNCHANGED <<idle, creating, waiters, result, closed, closeEnded, closeList,
                   closer>>

\* Mutant: a handoff counts as the end of a loan.
PutHandoff_Decrements(p) ==
    /\ pc[p] = "returning"
    /\ ~closed
    /\ waiters # <<>>
    /\ inUse' = inUse - 1
    /\ waiters' = Tail(waiters)
    /\ result' = [result EXCEPT ![Head(waiters)] = "conn"]
    /\ conn' = [conn EXCEPT ![p] = NoConn, ![Head(waiters)] = conn[p]]
    /\ connState' = [connState EXCEPT ![conn[p]] = "borrowed"]
    /\ pc' = [pc EXCEPT ![p] = "out"]
    /\ UNCHANGED <<idle, creating, closing, closed, closeEnded, closeList, closer>>

\* Mutant: the newest waiter is served.
PutHandoff_Newest(p) ==
    /\ pc[p] = "returning"
    /\ ~closed
    /\ waiters # <<>>
    /\ LET w == waiters[Len(waiters)]
       IN  /\ waiters' = SubSeq(waiters, 1, Len(waiters) - 1)
           /\ result' = [result EXCEPT ![w] = "conn"]
           /\ conn' = [conn EXCEPT ![p] = NoConn, ![w] = conn[p]]
    /\ connState' = [connState EXCEPT ![conn[p]] = "borrowed"]
    /\ pc' = [pc EXCEPT ![p] = "out"]
    /\ UNCHANGED <<idle, inUse, creating, closing, closed, closeEnded, closeList,
                   closer>>

\* put hands a reusable connection to the oldest waiter.
PutHandoff(p) ==
    /\ pc[p] = "returning"
    /\ ~closed
    /\ waiters # <<>>
    /\ waiters' = Tail(waiters)
    /\ result' = [result EXCEPT ![Head(waiters)] = "conn"]
    /\ conn' = [conn EXCEPT ![p] = NoConn, ![Head(waiters)] = conn[p]]
    /\ connState' = [connState EXCEPT ![conn[p]] = "borrowed"]
    /\ pc' = [pc EXCEPT ![p] = "out"]
    /\ UNCHANGED <<idle, inUse, creating, closing, closed, closeEnded, closeList,
                   closer>>

\* put closes the connection: someone waits, but it cannot be handed over, being
\* broken or too old; or nobody waits, but the pool keeps no idle connections.
PutUnusable(p) ==
    /\ pc[p] = "returning"
    /\ ~closed
    /\ waiters = <<>> => MaxIdleConns = 0
    /\ inUse' = inUse - 1
    /\ BeginPhysicalClose(p, conn[p], "closing")
    /\ UNCHANGED <<idle, creating, waiters, result, closed, closeEnded, closeList,
                   closer>>

\* Mutant: put does not look at closed.
PutIdle_IgnoresClosed(p) ==
    /\ pc[p] = "returning"
    /\ waiters = <<>>
    /\ Len(idle) < MaxIdleConns
    /\ inUse' = inUse - 1
    /\ idle' = Append(idle, conn[p])
    /\ connState' = [connState EXCEPT ![conn[p]] = "idle"]
    /\ Leave(p)
    /\ UNCHANGED <<creating, closing, waiters, result, closed, closeEnded,
                   closeList, closer>>

\* put keeps the connection idle.
PutIdle(p) ==
    /\ pc[p] = "returning"
    /\ ~closed
    /\ waiters = <<>>
    /\ Len(idle) < MaxIdleConns
    /\ inUse' = inUse - 1
    /\ idle' = Append(idle, conn[p])
    /\ connState' = [connState EXCEPT ![conn[p]] = "idle"]
    /\ Leave(p)
    /\ UNCHANGED <<creating, closing, waiters, result, closed, closeEnded,
                   closeList, closer>>

\* Mutant: the oldest connection is closed but not taken out of the ring.
PutEvict_KeepsOldest(p) ==
    /\ pc[p] = "returning"
    /\ ~closed
    /\ waiters = <<>>
    /\ MaxIdleConns > 0
    /\ Len(idle) >= MaxIdleConns
    /\ inUse' = inUse - 1
    /\ idle' = Append(idle, conn[p])
    /\ connState' = [connState EXCEPT ![conn[p]] = "idle", ![Head(idle)] = "closing"]
    /\ closing' = closing + 1
    /\ conn' = [conn EXCEPT ![p] = Head(idle)]
    /\ pc' = [pc EXCEPT ![p] = "closing"]
    /\ UNCHANGED <<creating, waiters, result, closed, closeEnded, closeList, closer>>

\* put with a full ring: the connection takes the place of the oldest one,
\* which p closes.
PutEvict(p) ==
    /\ pc[p] = "returning"
    /\ ~closed
    /\ waiters = <<>>
    /\ MaxIdleConns > 0
    /\ Len(idle) >= MaxIdleConns
    /\ inUse' = inUse - 1
    /\ idle' = Append(Tail(idle), conn[p])
    /\ connState' = [connState EXCEPT ![conn[p]] = "idle", ![Head(idle)] = "closing"]
    /\ closing' = closing + 1
    /\ conn' = [conn EXCEPT ![p] = Head(idle)]
    /\ pc' = [pc EXCEPT ![p] = "closing"]
    /\ UNCHANGED <<creating, waiters, result, closed, closeEnded, closeList, closer>>

\* closeConnectionLocked is the last thing p's operation does.
CloseDone(p) ==
    /\ pc[p] = "closing"
    /\ AfterPhysicalClose(p, 0)
    /\ Leave(p)
    /\ UNCHANGED <<idle, inUse, closed, closeList, closer>>

-----------------------------------------------------------------------------
(* Gpool.Close and closeIdleConnections                                    *)

\* The first Close: waiters are told, idle connections leave for closing.
PoolClose(k) ==
    /\ closer[k] = "out"
    /\ ~closed
    /\ closed' = TRUE
    /\ waiters' = <<>>
    /\ result' = [p \in Callers |-> IF Queued(p) THEN "closed" ELSE result[p]]
    /\ idle' = <<>>
    /\ connState' = [c \in Conns |->
                       IF \E i \in 1..Len(idle) : idle[i] = c THEN "closing"
                       ELSE connState[c]]
    /\ closing' = closing + Len(idle)
    /\ closeList' = idle
    /\ FinishClose(TRUE, CapacityUsed, <<>>)
    /\ closer' = [closer EXCEPT ![k] = "waiting"]
    /\ UNCHANGED <<inUse, creating, pc, conn>>

\* A later Close waits for the same shutdown.
PoolCloseAgain(k) ==
    /\ closer[k] = "out"
    /\ closed
    /\ closer' = [closer EXCEPT ![k] = "waiting"]
    /\ UNCHANGED <<idle, inUse, creating, closing, waiters, result, closed,
                   closeEnded, connState, pc, conn, closeList>>

\* closeIdleConnections: one connection has been closed.
CloseIdleConnection ==
    /\ closeList # <<>>
    /\ connState' = [connState EXCEPT ![Head(closeList)] = "closed"]
    /\ closing' = closing - 1
    /\ closeList' = Tail(closeList)
    /\ FinishClose(closed, CapacityUsed - 1, waiters)
    /\ UNCHANGED <<idle, inUse, creating, waiters, result, closed, pc, conn, closer>>

\* Gpool.Close returns because closeDone is closed.
PoolCloseReturns(k) ==
    /\ closer[k] = "waiting"
    /\ closeEnded
    /\ closer' = [closer EXCEPT ![k] = "returned"]
    /\ UNCHANGED <<idle, inUse, creating, closing, waiters, result, closed,
                   closeEnded, connState, pc, conn, closeList>>

\* Gpool.Close returns because its context ended; it may be called again.
PoolCloseExpires(k) ==
    /\ closer[k] = "waiting"
    /\ closer' = [closer EXCEPT ![k] = "out"]
    /\ UNCHANGED <<idle, inUse, creating, closing, waiters, result, closed,
                   closeEnded, connState, pc, conn, closeList>>

-----------------------------------------------------------------------------
\* Steps a goroutine takes without waiting for its caller, a context or a timer.
Progress(p) ==
    \/ ReplaceStale(p)
    \/ \E c \in Conns : CreateDone(p, c) \/ CreateDoneClosed(p, c)
    \/ CreateFailed(p)
    \/ CreateFailedClosed(p)
    \/ ReceiveConn(p)
    \/ ReceiveClosed(p)
    \/ ReceiveCreate(p)
    \/ ReceiveCreateClosed(p)
    \/ CancelWaiter(p)
    \/ DiscardClose(p)
    \/ PutClosed(p)
    \/ PutHandoff(p)
    \/ PutUnusable(p)
    \/ PutIdle(p)
    \/ PutEvict(p)
    \/ CloseDone(p)

Get(p) ==
    \/ GetClosed(p)
    \/ GetIdle(p)
    \/ GetStale(p)
    \/ GetNew(p)
    \/ GetQueueFull(p)
    \/ GetWait(p)

Release(p) == Close(p) \/ Discard(p)

Next ==
    \/ \E p \in Callers : Get(p) \/ Release(p) \/ StopWaiting(p) \/ Progress(p)
    \/ \E k \in Closers : \/ PoolClose(k)
                          \/ PoolCloseAgain(k)
                          \/ PoolCloseReturns(k)
                          \/ PoolCloseExpires(k)
    \/ CloseIdleConnection

Spec == Init /\ [][Next]_vars

\* Every goroutine keeps running, the factory and Conn.Close return, and a
\* borrower releases its connection.  Nothing makes contexts or timers end.
FairSpec ==
    /\ Spec
    /\ \A p \in Callers : WF_vars(Progress(p)) /\ WF_vars(Release(p))
    /\ WF_vars(CloseIdleConnection)
    /\ \A k \in Closers : WF_vars(PoolCloseReturns(k))

-----------------------------------------------------------------------------
(* Properties *)

\* The pool's fields have the shapes of the Go struct; the counters, Go ints,
\* never go below zero.
TypeOK ==
    /\ idle \in Seq(Conns)
    /\ inUse \in Nat
    /\ creating \in Nat
    /\ closing \in Nat
    /\ waiters \in Seq(Callers)
    /\ result \in [Callers -> Results]
    /\ closed \in BOOLEAN
    /\ closeEnded \in BOOLEAN
    /\ connState \in [Conns -> ConnStates]
    /\ pc \in [Callers -> Locations]
    /\ conn \in [Callers -> Conns \cup {NoConn}]
    /\ closeList \in Seq(Conns)
    /\ closer \in [Closers -> CloserLocations]

\* p has a connection on loan: it uses it, is about to lock the mutex to give
\* it back, or has been delivered it and has not woken up yet.
Borrows(p) ==
    \/ pc[p] \in {"using", "returning", "discarding"}
    \/ result[p] = "conn"

Reserves(p) == pc[p] = "creating" \/ result[p] = "create"

Closes(p) == pc[p] \in {"replacing", "closing"}

\* The counters that every capacity decision rests on (capacityUsedLocked) are
\* exact in every interleaving of borrowers, factories, physical closes,
\* cancellations and shutdown: one inUse per loan, one creating per reserved
\* slot, one closing per connection being closed.
Accounting ==
    /\ inUse = Cardinality({p \in Callers : Borrows(p)})
    /\ creating = Cardinality({p \in Callers : Reserves(p)})
    /\ closing = Cardinality({p \in Callers : Closes(p)}) + Len(closeList)

\* A connection is in one place only: an idle slot, the shutdown's close list,
\* or with one caller.  In particular no two callers are ever given the same
\* connection, also when put's direct handoff races a cancellation.
SoleOwner ==
    /\ Distinct(idle)
    /\ Distinct(closeList)
    /\ \A p, q \in Callers : p # q /\ conn[p] # NoConn => conn[p] # conn[q]
    /\ \A p \in Callers :
          /\ \A i \in 1..Len(idle) : idle[i] # conn[p]
          /\ \A i \in 1..Len(closeList) : closeList[i] # conn[p]
    /\ \A i \in 1..Len(idle), j \in 1..Len(closeList) : idle[i] # closeList[j]

\* No wakeup is lost: whenever the mutex is free and someone is queued, there
\* is nothing idle to give and no free slot to hand out, so some other caller
\* is still to come back and serve the queue (put, dispatchCapacityWaitersLocked).
NoLostWakeup == waiters # <<>> => idle = <<>> /\ CapacityUsed >= MaxConns

\* The limit the pool really keeps: at most one slot more than MaxConns.  Get
\* checks capacityUsed before it reserves a slot, but the replacement of a
\* stale idle connection (getConnFromIdle) does not.
CapacityBound == CapacityUsed <= MaxConns + 1

\* After Gpool.Close nothing is idle or queued, and when the shutdown is
\* reported complete nobody holds a connection or will be handed one.
ShutdownIsFinal ==
    /\ closed => idle = <<>> /\ waiters = <<>>
    /\ closeEnded => closed /\ \A p \in Callers : ~Borrows(p)

\* Waiters are served first come, first served: when a queued caller is given a
\* connection or a slot, nobody who queued before it is still in the queue.
WaitersServedInOrder ==
    [][\A i, j \in 1..Len(waiters) :
         /\ i < j
         /\ result[waiters[j]] = "none"
         /\ result'[waiters[j]] \in {"conn", "create"}
         => \A k \in 1..Len(waiters') : waiters'[k] # waiters[i]]_vars

\* The pool implements the abstract lending service.
Lease == [p \in Callers |-> IF Borrows(p) THEN conn[p] ELSE NoConn]

LP == INSTANCE LeasePool WITH lease <- Lease, shut <- closed, drained <- closeEnded

\* A connection is lent to one caller at a time, nothing is lent after
\* Gpool.Close, and closeDone is closed only when nothing is lent.
LendsLikeLeasePool == LP!LSpec

\* Every Get, Close and Discard returns: a queued caller is eventually served
\* although nothing forces its context or its timer to end.
OperationsReturn ==
    \A p \in Callers : pc[p] \notin {"out", "using"} ~> pc[p] \in {"out", "using"}

\* Once Close was called and borrowers give their connections back, the
\* shutdown completes and stays complete.
ShutdownCompletes == closed ~> [](closed /\ closeEnded)

-----------------------------------------------------------------------------
(* What the documentation says and the code does not do *)

\* OPTIMIZATION_REVIEW.md: 0 <= capacityUsed <= MaxConns, a strict constraint
\* under concurrency.
MaxConnsStrict == CapacityUsed <= MaxConns

\* Comment of Gpool.Close: it waits until idle, borrowed, creating and closing
\* connections have all been physically closed.
CloseWaitsForAll ==
    \A k \in Closers : closer[k] = "returned" => CapacityUsed = 0
=============================================================================
