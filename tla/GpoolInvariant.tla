-------------------------- MODULE GpoolInvariant ----------------------------
(***************************************************************************)
(* The inductive invariant of the connection pool, and the steps' effect on *)
(* types, capacity, the waiter queue and the order it is served in.        *)
(***************************************************************************)
EXTENDS Gpool, TLAPS

-----------------------------------------------------------------------------
(* Operators *)

\* A contiguous part of a sequence.
LEMMA SubSeqFacts ==
  ASSUME NEW S, NEW s \in Seq(S), NEW m \in Int, NEW n \in Int,
         1 <= m, m <= n + 1, n <= Len(s)
  PROVE  /\ SubSeq(s, m, n) \in Seq(S)
         /\ Len(SubSeq(s, m, n)) = n - m + 1
         /\ \A i \in 1..(n - m + 1) : SubSeq(s, m, n)[i] = s[i + m - 1]
  <1>1. Len(s) \in Nat /\ \A i \in m..n : s[i] \in S
    OBVIOUS
  <1>2. /\ SubSeq(s, m, n) \in Seq(S)
        /\ Len(SubSeq(s, m, n)) = IF m <= n THEN n - m + 1 ELSE 0
        /\ \A i \in 1 .. n - m + 1 : SubSeq(s, m, n)[i] = s[m + i - 1]
    BY <1>1
  <1>3. Len(SubSeq(s, m, n)) = n - m + 1
    BY <1>2
  <1>4. ASSUME NEW i \in 1..(n - m + 1) 
        PROVE  SubSeq(s, m, n)[i] = s[i + m - 1]
    <2>1. SubSeq(s, m, n)[i] = s[m + i - 1]
      BY <1>2
    <2>2. m + i - 1 = i + m - 1
      OBVIOUS
    <2> QED
      BY <2>1, <2>2, Zenon
  <1> QED
    BY <1>2, <1>3, <1>4

\* The clamped and defaulted limits are natural numbers.
LEMMA Limits == MaxIdleConns \in Nat /\ MaxIdleConns <= MaxConns /\ MaxWaiters \in Nat
  BY ConfAssumption DEF MaxIdleConns, MaxWaiters, AtLeastOne

\* dispatchCapacityWaitersLocked serves a prefix of the queue, never takes a
\* slot beyond MaxConns, and stops only at the end of the queue or when the
\* slots are used up.
LEMMA DispatchServes ==
  ASSUME closed \in BOOLEAN, NEW q \in Seq(Callers), NEW used \in Int
  PROVE  /\ DispatchCount(q, used) \in 0..Len(q)
         /\ DispatchCount(q, used) > 0 => used + DispatchCount(q, used) <= MaxConns
         /\ ~closed /\ DispatchCount(q, used) < Len(q) =>
               used + DispatchCount(q, used) >= MaxConns
         /\ closed => DispatchCount(q, used) = 0
  BY ConfAssumption DEF DispatchCount

\* What dispatchCapacityWaitersLocked leaves in the queue.
LEMMA DispatchLeaves ==
  ASSUME closed \in BOOLEAN, NEW q \in Seq(Callers), NEW used \in Int
  PROVE  LET n == DispatchCount(q, used)
             rest == SubSeq(q, n + 1, Len(q))
         IN  /\ rest \in Seq(Callers)
             /\ Len(rest) = Len(q) - n
             /\ \A i \in 1..Len(rest) : rest[i] = q[i + n]
  <1> DEFINE n == DispatchCount(q, used)
  <1>1. n \in 0..Len(q) /\ Len(q) \in Nat
    BY DispatchServes
  <1> HIDE DEF n
  <1>2. /\ SubSeq(q, n + 1, Len(q)) \in Seq(Callers)
        /\ Len(SubSeq(q, n + 1, Len(q))) = Len(q) - (n + 1) + 1
        /\ \A i \in 1..(Len(q) - (n + 1) + 1) :
              SubSeq(q, n + 1, Len(q))[i] = q[i + (n + 1) - 1]
    <2>1. n + 1 \in Int /\ Len(q) \in Int /\ 1 <= n + 1 /\ n + 1 <= Len(q) + 1
      BY <1>1
    <2> QED
      BY <2>1, SubSeqFacts
  <1>3. Len(q) - (n + 1) + 1 = Len(q) - n
    BY <1>1
  <1>4. \A i \in 1..(Len(q) - n) : i + (n + 1) - 1 = i + n
    BY <1>1
  <1> QED
    BY <1>2, <1>3, <1>4 DEF n

-----------------------------------------------------------------------------
(* Types *)

\* TypeOK without the claim that the counters stay natural numbers, which
\* needs Accounting.
FieldTypes ==
    /\ idle \in Seq(Conns)
    /\ inUse \in Int
    /\ creating \in Int
    /\ closing \in Int
    /\ waiters \in Seq(Callers)
    /\ result \in [Callers -> Results]
    /\ closed \in BOOLEAN
    /\ closeEnded \in BOOLEAN
    /\ connState \in [Conns -> ConnStates]
    /\ pc \in [Callers -> Locations]
    /\ conn \in [Callers -> Conns \cup {NoConn}]
    /\ closeList \in Seq(Conns)
    /\ closer \in [Closers -> CloserLocations]

\* The ring and the queue after the removals the code makes.
LEMMA PopTypes ==
  ASSUME FieldTypes, idle # <<>>
  PROVE  /\ PopIndex \in 1..Len(idle)
         /\ idle[PopIndex] \in Conns
         /\ AfterPop \in Seq(Conns)
         /\ Len(AfterPop) = Len(idle) - 1
         /\ \A i \in 1..Len(AfterPop) : AfterPop[i] = idle[IF PoolFIFO THEN i + 1 ELSE i]
  <1>1. Len(idle) \in Nat \ {0}
    BY DEF FieldTypes
  <1>2. PopIndex \in 1..Len(idle)
    BY <1>1 DEF PopIndex
  <1>3. idle[PopIndex] \in Conns
    BY <1>2 DEF FieldTypes
  <1>4. CASE PoolFIFO
    BY <1>1, <1>2, <1>3, <1>4 DEF FieldTypes, AfterPop, PopIndex
  <1>5. CASE ~PoolFIFO
    <2>1. PICK k \in Int : k = Len(idle) - 1 /\ 0 <= k /\ k <= Len(idle)
      BY SMTT(30), <1>1
    <2> DEFINE rest == SubSeq(idle, 1, k)
    <2>2. idle \in Seq(Conns)
      BY DEF FieldTypes
    <2>3. /\ rest \in Seq(Conns)
          /\ Len(rest) = k
          /\ \A i \in 1..k : rest[i] = idle[i]
      BY <2>1, <2>2, SubSeqFacts
    <2>4. AfterPop = rest /\ PopIndex = Len(idle)
      BY <1>5, <2>1 DEF AfterPop, PopIndex
    <2> HIDE DEF rest
    <2> QED
      BY <1>2, <1>3, <1>5, <2>1, <2>3, <2>4
  <1> QED
    BY <1>4, <1>5

LEMMA Joined ==
  ASSUME NEW S, NEW s \in Seq(S), NEW t \in Seq(S)
  PROVE  /\ s \o t \in Seq(S)
         /\ Len(s \o t) = Len(s) + Len(t)
         /\ \A j \in 1..Len(s) + Len(t) :
               (s \o t)[j] = IF j <= Len(s) THEN s[j] ELSE t[j - Len(s)]
  OBVIOUS

\* The waiter queue after waiterQueue.Remove unlinked a node.
LEMMA WithoutTypes ==
  ASSUME FieldTypes, NEW i \in 1..Len(waiters)
  PROVE  /\ Without(i) \in Seq(Callers)
         /\ Len(Without(i)) = Len(waiters) - 1
         /\ \A j \in 1..Len(Without(i)) : 
               Without(i)[j] = IF j < i THEN waiters[j] ELSE waiters[j + 1]
  <1> DEFINE a == SubSeq(waiters, 1, i - 1)
             b == SubSeq(waiters, i + 1, Len(waiters))
  <1>1. Len(waiters) \in Nat /\ i \in Int /\ 1 <= i /\ i <= Len(waiters)
    BY DEF FieldTypes
  <1>2. \A j \in 1..Len(waiters) : waiters[j] \in Callers
    BY DEF FieldTypes
  <1>3. /\ a \in Seq(Callers)
        /\ Len(a) = i - 1
        /\ \A j \in 1..(i - 1) : a[j] = waiters[j]
    BY <1>1, SubSeqFacts DEF FieldTypes
  <1>4. /\ b \in Seq(Callers)
        /\ Len(b) = Len(waiters) - i
        /\ \A j \in 1..(Len(waiters) - i) : b[j] = waiters[i + j]
    BY <1>1, SubSeqFacts DEF FieldTypes
  <1> HIDE DEF a, b
  <1>5. /\ a \o b \in Seq(Callers)
        /\ Len(a \o b) = Len(a) + Len(b)
        /\ \A j \in 1..Len(a) + Len(b) : 
              (a \o b)[j] = IF j <= Len(a) THEN a[j] ELSE b[j - Len(a)]
    BY Zenon, <1>3, <1>4, Joined
  <1>6. Without(i) = a \o b
    BY DEF Without, a, b
  <1>7. Len(a \o b) = Len(waiters) - 1
    BY <1>1, <1>3, <1>4, <1>5
  <1>8. ASSUME NEW j \in 1..(Len(waiters) - 1)
        PROVE  (a \o b)[j] = IF j < i THEN waiters[j] ELSE waiters[j + 1]
    <2>1. (a \o b)[j] = IF j <= Len(a) THEN a[j] ELSE b[j - Len(a)]
      BY <1>1, <1>3, <1>4, <1>5
    <2>2. CASE j < i
      BY <1>1, <1>3, <2>1, <2>2
    <2>3. CASE j >= i
      <3>1. j - Len(a) \in 1..(Len(waiters) - i) /\ i + (j - Len(a)) = j + 1 /\ ~(j <= Len(a))
        BY <1>1, <1>3, <2>3
      <3>2. b[j - Len(a)] = waiters[i + (j - Len(a))]
        BY Zenon, <1>4, <3>1
      <3> QED
        BY SMTT(30), <2>1, <3>1, <3>2, <2>3, <1>1
    <2>4. j < i \/ j >= i
      BY <1>1
    <2> QED
      BY Zenon, <2>2, <2>3, <2>4
  <1> QED
    BY <1>5, <1>6, <1>7, <1>8

-----------------------------------------------------------------------------
(* The inductive invariant *)

Waits(p) == pc[p] \in {"waiting", "cancelling"}

\* The queue holds exactly the callers that wait and have no result yet, once
\* each; a result is delivered only to a caller that waits for it.
QueueShape ==
    /\ Distinct(waiters)
    /\ \A p \in Callers : Queued(p) <=> Waits(p) /\ result[p] = "none"
    /\ \A p \in Callers : result[p] # "none" => Waits(p)

\* A caller has a connection exactly while it borrows or closes one, and the
\* state of every reachable connection says where it is.
Ownership ==
    /\ \A p \in Callers :
          /\ conn[p] # NoConn <=> Borrows(p) \/ Closes(p)
          /\ result[p] = "conn" \/ pc[p] = "using" => connState[conn[p]] = "borrowed"
          /\ pc[p] \in {"returning", "discarding"} => connState[conn[p]] = "returning"
          /\ Closes(p) => connState[conn[p]] = "closing"
    /\ \A i \in 1..Len(idle) : connState[idle[i]] = "idle"
    /\ \A i \in 1..Len(closeList) : connState[closeList[i]] = "closing"
    /\ SoleOwner

\* What Gpool.Close has and has not done yet.
Shutdown ==
    /\ ShutdownIsFinal
    /\ ~closed => closeList = <<>>

\* The inductive invariant.  CapacityBound and NoLostWakeup need each other:
\* a waiter can only be served beside a replacement because the capacity was
\* not exceeded before.  Accounting turns the counters Get and Close test into
\* facts about where the callers are.
IInv ==
    /\ FieldTypes
    /\ QueueShape
    /\ Ownership
    /\ Shutdown
    /\ NoLostWakeup
    /\ CapacityBound
    /\ Accounting

-----------------------------------------------------------------------------
(* Types are preserved *)

\* capacityUsedLocked is an integer.
LEMMA UsedType == FieldTypes => CapacityUsed \in Int
  BY DEF FieldTypes, CapacityUsed

\* Whoever borrows or closes a connection has one: never the nil *PoolConn.
LEMMA HolderTypes ==
  ASSUME FieldTypes, Ownership, NEW p \in Callers, Borrows(p) \/ Closes(p)
  PROVE  conn[p] \in Conns
  BY DEF FieldTypes, Ownership

\* dispatchCapacityWaitersLocked keeps the types of what it changes.
LEMMA DispatchTypes ==
  ASSUME FieldTypes, NEW q \in Seq(Callers), NEW used \in Int, NEW reserved \in Int,
         DispatchCapacityWaiters(q, used, reserved)
  PROVE  /\ creating' \in Int
         /\ waiters' \in Seq(Callers)
         /\ result' \in [Callers -> Results]
  <1>1. closed \in BOOLEAN /\ result \in [Callers -> Results]
    BY DEF FieldTypes
  <1>2. DispatchCount(q, used) \in Int
    BY <1>1, DispatchServes
  <1>3. creating' \in Int
    BY <1>2 DEF DispatchCapacityWaiters
  <1>4. waiters' \in Seq(Callers)
    BY <1>1, DispatchLeaves DEF DispatchCapacityWaiters
  <1>5. result' \in [Callers -> Results]
    BY <1>1 DEF DispatchCapacityWaiters, Results
  <1> QED
    BY <1>3, <1>4, <1>5

\* The locked tail of closeConnectionLocked keeps the types of what it changes.
LEMMA AfterPhysicalCloseTypes ==
  ASSUME FieldTypes, NEW p \in Callers, NEW more \in Int, AfterPhysicalClose(p, more)
  PROVE  /\ closing' \in Int
         /\ creating' \in Int
         /\ waiters' \in Seq(Callers)
         /\ result' \in [Callers -> Results]
         /\ closeEnded' \in BOOLEAN
         /\ connState' \in [Conns -> ConnStates]
  <1>1. closing' \in Int /\ connState' \in [Conns -> ConnStates]
    <2>1. closing' = closing - 1 /\ connState' = [connState EXCEPT ![conn[p]] = "closed"]
      BY DEF AfterPhysicalClose
    <2>2. closing \in Int /\ connState \in [Conns -> ConnStates] /\ "closed" \in ConnStates
      BY DEF FieldTypes, ConnStates
    <2>3. closing' \in Int
      BY <2>1, <2>2
    <2>4. connState' \in [Conns -> ConnStates]
      BY Zenon, <2>1, <2>2
    <2> QED
      BY <2>3, <2>4
  <1>2. CASE closed
    BY <1>1, <1>2 DEF AfterPhysicalClose, FinishClose, FieldTypes
  <1>3. CASE ~closed
    <2>1. DispatchCapacityWaiters(waiters, CapacityUsed - 1, creating + more)
      BY Zenon, <1>3 DEF AfterPhysicalClose
    <2>2. waiters \in Seq(Callers) /\ CapacityUsed - 1 \in Int /\ creating + more \in Int
      BY UsedType DEF FieldTypes
    <2>3. closeEnded' \in BOOLEAN
      BY Zenon, <1>3 DEF AfterPhysicalClose, FieldTypes
    <2> QED
      BY <1>1, <2>1, <2>2, <2>3, DispatchTypes
  <1> QED
    BY <1>2, <1>3

\* Every critical section of the pool keeps the types of the fields.
LEMMA TypesStep == IInv /\ [Next]_vars => FieldTypes'
  <1> SUFFICES ASSUME IInv, [Next]_vars PROVE FieldTypes'
    OBVIOUS
  <1> USE DEF FieldTypes
  <1>0. FieldTypes /\ Ownership
    BY DEF IInv
  <1>1. ASSUME NEW p \in Callers, Get(p) PROVE FieldTypes'
    <2>1. CASE GetClosed(p) \/ GetQueueFull(p)
      BY <1>0, <2>1 DEF GetClosed, GetQueueFull, vars
    <2>2. CASE GetIdle(p) \/ GetStale(p)
      <3>1. idle[PopIndex] \in Conns /\ AfterPop \in Seq(Conns)
        BY <1>0, <2>2, PopTypes DEF GetIdle, GetStale
      <3>2. CASE GetIdle(p)
        BY <1>0, <3>1, <3>2 DEF GetIdle, ConnStates, Locations
      <3>3. CASE GetStale(p)
        BY <1>0, <3>1, <3>3 DEF GetStale, BeginPhysicalClose, ConnStates, Locations
      <3> QED
        BY <2>2, <3>2, <3>3
    <2>3. CASE GetNew(p)
      BY <1>0, <2>3 DEF GetNew, Locations
    <2>4. CASE GetWait(p)
      <3>1. Append(waiters, p) \in Seq(Callers) /\ CapacityUsed \in Int
        BY <1>0, UsedType
      <3>2. /\ creating' \in Int
            /\ waiters' \in Seq(Callers)
            /\ result' \in [Callers -> Results]
        BY Zenon, <1>0, <2>4, <3>1, DispatchTypes DEF GetWait
      <3> QED
        BY Zenon, <1>0, <2>4, <3>2 DEF GetWait, Locations
    <2> QED
      BY <1>1, <2>1, <2>2, <2>3, <2>4 DEF Get
  <1>2. ASSUME NEW p \in Callers, Release(p) \/ StopWaiting(p) PROVE FieldTypes'
    BY Zenon, <1>0, <1>2 DEF Release, Close, Discard, BeginRelease, StopWaiting, ConnStates,
                      Locations
  <1>3. ASSUME NEW p \in Callers, Progress(p) PROVE FieldTypes'
    <2>1. CASE ReplaceStale(p) \/ CloseDone(p)
      <3>1. AfterPhysicalClose(p, 1) \/ AfterPhysicalClose(p, 0)
        BY <2>1 DEF ReplaceStale, CloseDone
      <3>2. /\ closing' \in Int
            /\ creating' \in Int
            /\ waiters' \in Seq(Callers)
            /\ result' \in [Callers -> Results]
            /\ closeEnded' \in BOOLEAN
            /\ connState' \in [Conns -> ConnStates]
        BY <1>0, <3>1, AfterPhysicalCloseTypes
      <3> QED
        BY Zenon, <1>0, <2>1, <3>2 DEF ReplaceStale, CloseDone, Leave, Locations
    <2>2. ASSUME NEW c \in Conns, CreateDone(p, c) PROVE FieldTypes'
      BY <1>0, <2>2 DEF CreateDone, ConnStates, Locations
    <2>10. ASSUME NEW c \in Conns, CreateDoneClosed(p, c) PROVE FieldTypes'
      BY <1>0, <2>10 DEF CreateDoneClosed, BeginPhysicalClose, ConnStates, Locations
    <2>3. CASE CreateFailed(p)
      <3>1. waiters \in Seq(Callers) /\ CapacityUsed - 1 \in Int /\ creating - 1 \in Int
        BY <1>0, UsedType
      <3>2. /\ creating' \in Int
            /\ waiters' \in Seq(Callers)
            /\ result' \in [Callers -> Results]
        BY <1>0, <2>3, <3>1, DispatchTypes DEF CreateFailed
      <3> QED
        BY Zenon, <1>0, <2>3, <3>2 DEF CreateFailed, Leave, Locations
    <2>4. CASE CreateFailedClosed(p)
      BY <1>0, <2>4 DEF CreateFailedClosed, FinishClose, Leave, Locations
    <2>11. CASE ReceiveCreateClosed(p)
      BY <1>0, <2>11 DEF ReceiveCreateClosed, FinishClose, Leave, Locations, Results
    <2>5. CASE ReceiveConn(p) \/ ReceiveClosed(p) \/ ReceiveCreate(p)
      BY Zenon, <1>0, <2>5 DEF ReceiveConn, ReceiveClosed, ReceiveCreate, Leave, Locations,
                        Results
    <2>6. CASE CancelWaiter(p)
      <3>1. PICK i \in 1..Len(waiters) :
                   DispatchCapacityWaiters(Without(i), CapacityUsed, creating)
        BY <2>6 DEF CancelWaiter
      <3>2. Without(i) \in Seq(Callers) /\ CapacityUsed \in Int
        BY <1>0, WithoutTypes, UsedType
      <3>3. /\ creating' \in Int
            /\ waiters' \in Seq(Callers)
            /\ result' \in [Callers -> Results]
        BY <1>0, <3>1, <3>2, DispatchTypes
      <3> QED
        BY Zenon, <1>0, <2>6, <3>3 DEF CancelWaiter, Leave, Locations
    <2>7. CASE DiscardClose(p) \/ PutClosed(p) \/ PutUnusable(p)
      <3>1. /\ inUse' = inUse - 1
            /\ BeginPhysicalClose(p, conn[p], "closing")
            /\ UNCHANGED <<idle, creating, waiters, result, closed, closeEnded, closeList, closer>>
        BY <2>7 DEF DiscardClose, PutClosed, PutUnusable
      <3>2. /\ connState' \in [Conns -> ConnStates]
            /\ conn' \in [Callers -> Conns \cup {NoConn}]
            /\ pc' \in [Callers -> Locations]
        BY Zenon, <1>0, <3>1 DEF BeginPhysicalClose, ConnStates, Locations
      <3>3. inUse' \in Int /\ closing' \in Int
        BY <1>0, <3>1 DEF BeginPhysicalClose
      <3> QED
        BY <1>0, <3>1, <3>2, <3>3
    <2>8. CASE PutHandoff(p)
      <3>1. Head(waiters) \in Callers /\ Tail(waiters) \in Seq(Callers)
        BY <1>0, <2>8 DEF PutHandoff
      <3> QED
        BY Zenon, <1>0, <2>8, <3>1 DEF PutHandoff, ConnStates, Locations, Results
    <2>9. CASE PutIdle(p) \/ PutEvict(p)
      <3>1. conn[p] \in Conns
        BY <1>0, <2>9, HolderTypes DEF PutIdle, PutEvict, Borrows
      <3>2. CASE PutIdle(p)
        BY <1>0, <3>1, <3>2 DEF PutIdle, Leave, ConnStates, Locations
      <3>3. CASE PutEvict(p)
        <4>1. idle # <<>>
          BY <3>3, Limits DEF PutEvict
        <4>2. Head(idle) \in Conns /\ Tail(idle) \in Seq(Conns)
          BY <1>0, <4>1
        <4> QED
          BY SMTT(30), <1>0, <3>1, <3>3, <4>2 DEF PutEvict, ConnStates, Locations
      <3> QED
        BY <2>9, <3>2, <3>3
    <2> QED
      BY <1>3, <2>1, <2>2, <2>3, <2>4, <2>5, <2>6, <2>7, <2>8, <2>9,
         <2>10, <2>11 DEF Progress
  <1>4. ASSUME NEW k \in Closers,
               PoolClose(k) \/ PoolCloseAgain(k) \/ PoolCloseReturns(k) \/ PoolCloseExpires(k)
        PROVE  FieldTypes'
    <2>1. CASE PoolClose(k)
      BY <1>0, <2>1 DEF PoolClose, FinishClose, ConnStates, CloserLocations, Results
    <2>2. CASE PoolCloseAgain(k) \/ PoolCloseReturns(k) \/ PoolCloseExpires(k)
      BY Zenon, <1>0, <2>2 DEF PoolCloseAgain, PoolCloseReturns, PoolCloseExpires, CloserLocations
    <2> QED
      BY <1>4, <2>1, <2>2
  <1>5. CASE CloseIdleConnection
    <2>1. Tail(closeList) \in Seq(Conns)
      BY <1>0, <1>5 DEF CloseIdleConnection
    <2> QED
      BY <1>0, <1>5, <2>1 DEF CloseIdleConnection, FinishClose, ConnStates
  <1>6. CASE UNCHANGED vars
    BY <1>0, <1>6 DEF vars
  <1> QED
    BY <1>1, <1>2, <1>3, <1>4, <1>5, <1>6 DEF Next

-----------------------------------------------------------------------------
(* Capacity and wakeups *)

\* The effect of dispatchCapacityWaitersLocked on the slots and on the queue.
LEMMA DispatchEffect ==
  ASSUME FieldTypes, NEW q \in Seq(Callers), NEW used \in Int, NEW reserved \in Int,
         DispatchCapacityWaiters(q, used, reserved)
  PROVE  \E n \in 0..Len(q) :
            /\ creating' = reserved + n
            /\ n > 0 => used + n <= MaxConns
            /\ ~closed /\ waiters' # <<>> => used + n >= MaxConns
            /\ waiters' # <<>> => q # <<>>
  <1> DEFINE n == DispatchCount(q, used)
  <1>1. closed \in BOOLEAN
    BY DEF FieldTypes
  <1>2. /\ n \in 0..Len(q)
        /\ n > 0 => used + n <= MaxConns
        /\ ~closed /\ n < Len(q) => used + n >= MaxConns
    BY <1>1, DispatchServes
  <1>3. waiters' = SubSeq(q, n + 1, Len(q)) /\ creating' = reserved + n
    BY DEF DispatchCapacityWaiters
  <1>4. waiters' \in Seq(Callers) /\ Len(waiters') = Len(q) - n
    BY Zenon, <1>1, <1>3, DispatchLeaves
  <1> HIDE DEF n
  <1>5. waiters' # <<>> => n < Len(q)
    BY <1>2, <1>4
  <1>6. waiters' # <<>> => q # <<>>
    BY <1>2, <1>5
  <1> QED
    BY <1>2, <1>3, <1>5, <1>6

\* A physical close frees one slot, which goes to the oldest waiter if any.
LEMMA AfterPhysicalCloseCapacity ==
  ASSUME IInv, NEW p \in Callers, NEW more \in {0, 1}, AfterPhysicalClose(p, more),
         UNCHANGED <<idle, inUse>>
  PROVE  NoLostWakeup' /\ CapacityBound'
  <1>0. FieldTypes /\ NoLostWakeup /\ CapacityBound /\ Shutdown
    BY DEF IInv
  <1>1. closing' = closing - 1
    BY DEF AfterPhysicalClose
  <1>2. CASE closed
    <2>1. waiters' = <<>> /\ creating' = creating + more
      BY <1>0, <1>2 DEF AfterPhysicalClose, Shutdown, ShutdownIsFinal
    <2> QED
      BY <1>0, <1>1, <2>1, ConfAssumption
      DEF NoLostWakeup, CapacityBound, CapacityUsed, FieldTypes
  <1>3. CASE ~closed
    <2>1. DispatchCapacityWaiters(waiters, CapacityUsed - 1, creating + more)
      BY Zenon, <1>3 DEF AfterPhysicalClose
    <2>2. waiters \in Seq(Callers) /\ CapacityUsed - 1 \in Int /\ creating + more \in Int
      BY <1>0, UsedType DEF FieldTypes
    <2>3. PICK n \in 0..Len(waiters) :
            /\ creating' = creating + more + n
            /\ n > 0 => (CapacityUsed - 1) + n <= MaxConns
            /\ ~closed /\ waiters' # <<>> => (CapacityUsed - 1) + n >= MaxConns
            /\ waiters' # <<>> => waiters # <<>>
      BY <1>0, <2>1, <2>2, DispatchEffect
    <2>4. CapacityUsed' = (CapacityUsed - 1) + n + more
      BY <1>0, <1>1, <2>3 DEF CapacityUsed, FieldTypes
    <2>5. CapacityUsed \in Int /\ n \in Nat /\ MaxConns \in Nat
      BY <1>0, UsedType, ConfAssumption
    <2>6. CapacityBound'
      BY <1>0, <2>3, <2>4, <2>5 DEF CapacityBound
    <2>7. NoLostWakeup'
      BY <1>0, <1>3, <2>3, <2>4, <2>5 DEF NoLostWakeup
    <2> QED
      BY <2>6, <2>7
  <1> QED
    BY <1>2, <1>3

\* The same for a step that changes no slot but the ones it hands out.
LEMMA DispatchCapacity ==
  ASSUME IInv, ~closed, NEW q \in Seq(Callers), NEW freed \in {0, 1},
         DispatchCapacityWaiters(q, CapacityUsed - freed, creating - freed),
         UNCHANGED <<idle, inUse, closing>>,
         q # <<>> => idle = <<>>
  PROVE  NoLostWakeup' /\ CapacityBound'
  <1>0. FieldTypes /\ CapacityBound
    BY DEF IInv
  <1>1. CapacityUsed - freed \in Int /\ creating - freed \in Int
    BY <1>0, UsedType DEF FieldTypes
  <1>2. PICK n \in 0..Len(q) :
          /\ creating' = creating - freed + n
          /\ n > 0 => (CapacityUsed - freed) + n <= MaxConns
          /\ ~closed /\ waiters' # <<>> => (CapacityUsed - freed) + n >= MaxConns
          /\ waiters' # <<>> => q # <<>>
    BY <1>0, <1>1, DispatchEffect
  <1>3. CapacityUsed' = (CapacityUsed - freed) + n
    BY <1>0, <1>2 DEF CapacityUsed, FieldTypes
  <1>4. CapacityUsed \in Int /\ n \in Nat /\ MaxConns \in Nat
    BY <1>0, UsedType, ConfAssumption
  <1>5. CapacityBound'
    BY <1>0, <1>2, <1>3, <1>4 DEF CapacityBound
  <1>6. NoLostWakeup'
    BY <1>0, <1>2, <1>3, <1>4 DEF NoLostWakeup
  <1> QED
    BY <1>5, <1>6

\* Every critical section leaves no queued caller beside a free slot or an idle
\* connection, and takes at most one slot beyond MaxConns.
LEMMA CapacityStep == IInv /\ [Next]_vars => NoLostWakeup' /\ CapacityBound'
  <1> SUFFICES ASSUME IInv, [Next]_vars PROVE NoLostWakeup' /\ CapacityBound'
    OBVIOUS
  <1>0. FieldTypes /\ NoLostWakeup /\ CapacityBound /\ Shutdown
    BY DEF IInv
  <1> USE ConfAssumption DEF FieldTypes, NoLostWakeup, CapacityBound, CapacityUsed
  <1>1. ASSUME NEW p \in Callers, Get(p) PROVE NoLostWakeup' /\ CapacityBound'
    <2>1. CASE GetClosed(p) \/ GetQueueFull(p)
      BY <1>0, <2>1 DEF GetClosed, GetQueueFull, vars
    <2>2. CASE GetIdle(p)
      BY <1>0, <2>2, PopTypes DEF GetIdle
    <2>3. CASE GetStale(p)
      BY <1>0, <2>3, PopTypes DEF GetStale, BeginPhysicalClose
    <2>4. CASE GetNew(p)
      BY <1>0, <2>4 DEF GetNew
    <2>5. CASE GetWait(p)
      <3>1. Append(waiters, p) \in Seq(Callers) /\ idle = <<>> /\ ~closed
        BY <1>0, <2>5 DEF GetWait, MustWait
      <3>2. DispatchCapacityWaiters(Append(waiters, p), CapacityUsed - 0, creating - 0)
        BY <1>0, <2>5, UsedType DEF GetWait
      <3> QED
        BY Zenon, <2>5, <3>1, <3>2, DispatchCapacity DEF GetWait
    <2> QED
      BY <1>1, <2>1, <2>2, <2>3, <2>4, <2>5 DEF Get
  <1>2. ASSUME NEW p \in Callers, Release(p) \/ StopWaiting(p)
        PROVE  NoLostWakeup' /\ CapacityBound'
    BY <1>0, <1>2 DEF Release, Close, Discard, BeginRelease, StopWaiting
  <1>3. ASSUME NEW p \in Callers, Progress(p) PROVE NoLostWakeup' /\ CapacityBound'
    <2>1. CASE ReplaceStale(p) \/ CloseDone(p)
      BY <2>1, AfterPhysicalCloseCapacity DEF ReplaceStale, CloseDone
    <2>2. ASSUME NEW c \in Conns, CreateDone(p, c) \/ CreateDoneClosed(p, c)
          PROVE  NoLostWakeup' /\ CapacityBound'
      <3>0. Len(idle) \in Int /\ inUse \in Int /\ creating \in Int /\ closing \in Int
        BY <1>0
      <3>1. /\ UNCHANGED <<idle, waiters>>
            /\ creating' = creating - 1
            /\ \/ inUse' = inUse + 1 /\ closing' = closing
               \/ inUse' = inUse /\ closing' = closing + 1
        BY <2>2 DEF CreateDone, CreateDoneClosed, BeginPhysicalClose
      <3>2. CapacityUsed' = CapacityUsed
        BY <3>0, <3>1
      <3> QED
        BY <1>0, <3>1, <3>2 DEF NoLostWakeup, CapacityBound
    <2>3. CASE CreateFailed(p)
      <3>1. waiters \in Seq(Callers) /\ (waiters # <<>> => idle = <<>>)
        BY <1>0
      <3>2. DispatchCapacityWaiters(waiters, CapacityUsed - 1, creating - 1)
        BY <2>3 DEF CreateFailed
      <3> QED
        BY <2>3, <3>1, <3>2, DispatchCapacity DEF CreateFailed
    <2>4. CASE CreateFailedClosed(p) \/ ReceiveCreateClosed(p)
      <3>1. closed /\ creating' = creating - 1 /\ UNCHANGED <<idle, inUse, closing, waiters>>
        BY Zenon, <2>4 DEF CreateFailedClosed, ReceiveCreateClosed
      <3>2. waiters = <<>>
        BY <1>0, <3>1 DEF Shutdown, ShutdownIsFinal
      <3> QED
        BY <1>0, <3>1, <3>2
    <2>5. CASE ReceiveConn(p) \/ ReceiveClosed(p) \/ ReceiveCreate(p)
      BY <1>0, <2>5 DEF ReceiveConn, ReceiveClosed, ReceiveCreate
    <2>6. CASE CancelWaiter(p)
      <3>1. PICK i \in 1..Len(waiters) :
                   DispatchCapacityWaiters(Without(i), CapacityUsed, creating)
        BY <2>6 DEF CancelWaiter
      <3>2. waiters # <<>>
        BY <3>1
      <3>3. ~closed /\ idle = <<>>
        BY <1>0, <3>2 DEF Shutdown, ShutdownIsFinal
      <3>4. Without(i) \in Seq(Callers)
        BY <1>0, WithoutTypes
      <3>5. DispatchCapacityWaiters(Without(i), CapacityUsed - 0, creating - 0)
        BY <1>0, <3>1
      <3> QED
        BY <2>6, <3>3, <3>4, <3>5, DispatchCapacity DEF CancelWaiter
    <2>7. CASE DiscardClose(p) \/ PutClosed(p) \/ PutUnusable(p)
      BY SMTT(30), <1>0, <2>7 DEF DiscardClose, PutClosed, PutUnusable, BeginPhysicalClose
    <2>8. CASE PutHandoff(p)
      BY <1>0, <2>8 DEF PutHandoff
    <2>9. CASE PutIdle(p) \/ PutEvict(p)
      <3>1. conn[p] \in Conns
        BY <1>0, <2>9, HolderTypes DEF IInv, PutIdle, PutEvict, Borrows
      <3>2. CASE PutIdle(p)
        BY <1>0, <3>1, <3>2 DEF PutIdle
      <3>3. CASE PutEvict(p)
        <4>1. Len(idle') = Len(idle)
          <5>1. idle # <<>>
            BY <3>3, Limits DEF PutEvict
          <5>2. Tail(idle) \in Seq(Conns) /\ Len(Tail(idle)) = Len(idle) - 1
            BY <1>0, <5>1
          <5>3. Len(idle') = Len(Tail(idle)) + 1
            BY <3>1, <3>3, <5>2 DEF PutEvict
          <5> QED
            BY <1>0, <5>2, <5>3
        <4> QED
          <5>1. /\ waiters = <<>> /\ waiters' = <<>> /\ creating' = creating
                /\ inUse' = inUse - 1 /\ closing' = closing + 1
            BY <3>3 DEF PutEvict
          <5>2. CapacityUsed' = CapacityUsed
            BY <1>0, <4>1, <5>1
          <5> QED
            BY <1>0, <5>1, <5>2
      <3> QED
        BY <2>9, <3>2, <3>3
    <2> QED
      BY <1>3, <2>1, <2>2, <2>3, <2>4, <2>5, <2>6, <2>7, <2>8, <2>9 DEF Progress
  <1>4. ASSUME NEW k \in Closers,
               PoolClose(k) \/ PoolCloseAgain(k) \/ PoolCloseReturns(k) \/ PoolCloseExpires(k)
        PROVE  NoLostWakeup' /\ CapacityBound'
    <2>1. CASE PoolClose(k)
      BY <1>0, <2>1 DEF PoolClose
    <2>2. CASE PoolCloseAgain(k) \/ PoolCloseReturns(k) \/ PoolCloseExpires(k)
      BY <1>0, <2>2 DEF PoolCloseAgain, PoolCloseReturns, PoolCloseExpires
    <2> QED
      BY <1>4, <2>1, <2>2
  <1>5. CASE CloseIdleConnection
    BY <1>0, <1>5 DEF CloseIdleConnection, Shutdown, ShutdownIsFinal
  <1>6. CASE UNCHANGED vars
    BY <1>0, <1>6 DEF vars
  <1> QED
    BY <1>1, <1>2, <1>3, <1>4, <1>5, <1>6 DEF Next

-----------------------------------------------------------------------------
(* The queue *)

In(p, s) == \E i \in 1..Len(s) : s[i] = p

\* dispatchCapacityWaitersLocked splits the queue: everyone in it stays there or
\* receives a slot, nobody does both, and nobody else is touched.
LEMMA DispatchSplits ==
  ASSUME FieldTypes, NEW q \in Seq(Callers), Distinct(q), NEW used \in Int,
         NEW reserved \in Int, DispatchCapacityWaiters(q, used, reserved)
  PROVE  /\ Distinct(waiters')
         /\ \A p \in Callers : 
               \/ ~In(p, q) /\ ~In(p, waiters') /\ result'[p] = result[p]
               \/ In(p, q) /\ In(p, waiters') /\ result'[p] = result[p]
               \/ In(p, q) /\ ~In(p, waiters') /\ result'[p] = "create"
  <1> DEFINE n == DispatchCount(q, used)
  <1>1. closed \in BOOLEAN /\ result \in [Callers -> Results]
    BY DEF FieldTypes
  <1>2. n \in 0..Len(q) /\ Len(q) \in Nat
    BY <1>1, DispatchServes
  <1>3. waiters' = SubSeq(q, n + 1, Len(q))
    BY DEF DispatchCapacityWaiters
  <1>4. result' = [p \in Callers |-> IF \E i \in 1..n : q[i] = p THEN "create" ELSE result[p]]
    BY DEF DispatchCapacityWaiters
  <1>5. /\ waiters' \in Seq(Callers)
        /\ Len(waiters') = Len(q) - n
        /\ \A i \in 1..Len(waiters') : waiters'[i] = q[i + n]
    BY Zenon, <1>1, <1>3, DispatchLeaves
  <1> HIDE DEF n
  <1>6. Distinct(waiters')
    BY <1>2, <1>5 DEF Distinct
  <1>7. ASSUME NEW p \in Callers
        PROVE  In(p, waiters') <=> \E j \in (n + 1)..Len(q) : q[j] = p
    <2>1. ASSUME NEW j \in (n + 1)..Len(q), q[j] = p PROVE In(p, waiters')
      <3>1. j - n \in 1..Len(waiters') /\ (j - n) + n = j
        BY <1>2, <1>5
      <3> QED
        BY <1>5, <2>1, <3>1 DEF In
    <2>2. ASSUME NEW i \in 1..Len(waiters'), waiters'[i] = p
          PROVE  \E j \in (n + 1)..Len(q) : q[j] = p
      <3>1. i + n \in (n + 1)..Len(q)
        BY <1>2, <1>5
      <3>2. q[i + n] = p
        BY <1>5, <2>2
      <3> QED
        BY <3>1, <3>2
    <2> QED
      BY <2>1, <2>2 DEF In
  <1>8. ASSUME NEW p \in Callers
        PROVE  \/ ~In(p, q) /\ ~In(p, waiters') /\ result'[p] = result[p]
               \/ In(p, q) /\ In(p, waiters') /\ result'[p] = result[p]
               \/ In(p, q) /\ ~In(p, waiters') /\ result'[p] = "create"
    <2>1. CASE \E i \in 1..n : q[i] = p
      <3>1. In(p, q) /\ ~In(p, waiters')
        BY <1>2, <1>7, <2>1 DEF In, Distinct
      <3> QED
        BY <1>4, <2>1, <3>1
    <2>2. CASE ~ \E i \in 1..n : q[i] = p
      <3>1. In(p, q) <=> In(p, waiters')
        BY <1>2, <1>7, <2>2 DEF In
      <3> QED
        BY <1>4, <2>2, <3>1
    <2> QED
      BY <2>1, <2>2
  <1> QED
    BY <1>6, <1>8

\* The oldest waiter is taken off the queue.
LEMMA TailSplits ==
  ASSUME NEW q \in Seq(Callers), q # <<>>, Distinct(q)
  PROVE  /\ Head(q) \in Callers
         /\ Tail(q) \in Seq(Callers)
         /\ Distinct(Tail(q))
         /\ In(Head(q), q)
         /\ \A p \in Callers : In(p, Tail(q)) <=> In(p, q) /\ p # Head(q)
  <1>1. /\ Head(q) \in Callers
        /\ Tail(q) \in Seq(Callers)
        /\ Len(Tail(q)) = Len(q) - 1
        /\ \A i \in 1..Len(Tail(q)) : Tail(q)[i] = q[i + 1]
    OBVIOUS
  <1>2. Len(q) \in Nat \ {0} /\ Head(q) = q[1]
    OBVIOUS
  <1>3. Distinct(Tail(q))
    BY <1>1, <1>2 DEF Distinct
  <1>4. In(Head(q), q)
    BY <1>2 DEF In
  <1>5. ASSUME NEW p \in Callers, In(p, Tail(q)) PROVE In(p, q) /\ p # Head(q)
    BY <1>1, <1>2, <1>5 DEF In, Distinct
  <1>6. ASSUME NEW p \in Callers, In(p, q), p # Head(q) PROVE In(p, Tail(q))
    <2>1. PICK j \in 1..Len(q) : q[j] = p
      BY <1>6 DEF In
    <2>2. j # 1
      BY <1>2, <1>6, <2>1
    <2>3. j - 1 \in 1..Len(Tail(q)) /\ (j - 1) + 1 = j
      BY <1>1, <1>2, <2>2
    <2> QED
      BY <1>1, <2>1, <2>3 DEF In
  <1> QED
    BY <1>1, <1>3, <1>4, <1>5, <1>6

\* waiterQueue.PushBack and Remove.
LEMMA AppendJoins ==
  ASSUME NEW q \in Seq(Callers), Distinct(q), NEW p \in Callers, ~In(p, q)
  PROVE  /\ Append(q, p) \in Seq(Callers)
         /\ Distinct(Append(q, p))
         /\ \A r \in Callers : In(r, Append(q, p)) <=> In(r, q) \/ r = p
  <1>1. Len(q) \in Nat
    OBVIOUS
  <1>2. /\ Append(q, p) \in Seq(Callers)
        /\ Len(Append(q, p)) = Len(q) + 1
        /\ \A i \in 1..Len(q) : Append(q, p)[i] = q[i]
        /\ Append(q, p)[Len(q) + 1] = p
    OBVIOUS
  <1>3. \A i \in 1..(Len(q) + 1) : i \in 1..Len(q) \/ i = Len(q) + 1
    BY <1>1
  <1> DEFINE t == Append(q, p)
  <1> HIDE DEF t
  <1>4. Distinct(t)
    BY <1>1, <1>2, <1>3 DEF Distinct, In, t
  <1>5. \A r \in Callers : In(r, t) <=> In(r, q) \/ r = p
    BY <1>1, <1>2, <1>3 DEF In, t
  <1> QED
    BY <1>2, <1>4, <1>5 DEF t

\* waiterQueue.Remove takes out one caller and keeps the others.
LEMMA WithoutLeaves ==
  ASSUME FieldTypes, Distinct(waiters), NEW i \in 1..Len(waiters)
  PROVE  /\ Distinct(Without(i))
         /\ \A p \in Callers : In(p, Without(i)) <=> In(p, waiters) /\ p # waiters[i]
  <1>1. /\ Without(i) \in Seq(Callers)
        /\ Len(Without(i)) = Len(waiters) - 1
        /\ \A j \in 1..Len(Without(i)) : 
              Without(i)[j] = IF j < i THEN waiters[j] ELSE waiters[j + 1]
    BY WithoutTypes
  <1>2. Len(waiters) \in Nat /\ i \in Nat
    BY DEF FieldTypes
  <1>3. Distinct(Without(i))
    <2>1. ASSUME NEW j \in 1..Len(Without(i)), NEW k \in 1..Len(Without(i)),
                 Without(i)[j] = Without(i)[k]
          PROVE  j = k
      <3> DEFINE at(n) == IF n < i THEN n ELSE n + 1
      <3>1. at(j) \in 1..Len(waiters) /\ at(k) \in 1..Len(waiters)
        BY <1>1, <1>2
      <3>2. Without(i)[j] = waiters[at(j)] /\ Without(i)[k] = waiters[at(k)]
        BY <1>1
      <3>3. at(j) = at(k) => j = k
        BY <1>1, <1>2
      <3> HIDE DEF at
      <3> QED
        BY Zenon, <2>1, <3>1, <3>2, <3>3 DEF Distinct
    <2> QED
      BY <2>1 DEF Distinct
  <1>4. ASSUME NEW p \in Callers, In(p, Without(i)) PROVE In(p, waiters) /\ p # waiters[i]
    BY <1>1, <1>2, <1>4 DEF In, Distinct
  <1>5. ASSUME NEW p \in Callers, In(p, waiters), p # waiters[i] PROVE In(p, Without(i))
    <2>1. PICK j \in 1..Len(waiters) : waiters[j] = p
      BY <1>5 DEF In
    <2>2. j < i \/ j > i
      BY <1>2, <1>5, <2>1
    <2>3. CASE j < i
      BY <1>1, <1>2, <2>1, <2>3 DEF In
    <2>4. CASE j > i
      <3>1. j - 1 \in 1..Len(Without(i)) /\ (j - 1) + 1 = j /\ ~(j - 1 < i)
        BY <1>1, <1>2, <2>4
      <3> QED
        BY Zenon, <1>1, <2>1, <3>1 DEF In
    <2> QED
      BY <2>2, <2>3, <2>4
  <1> QED
    BY <1>3, <1>4, <1>5

\* A caller that is not waiting is not queued and has no result.
LEMMA OutsideQueue ==
  ASSUME QueueShape, NEW p \in Callers, ~Waits(p)
  PROVE  ~In(p, waiters) /\ result[p] = "none"
  BY DEF QueueShape, Queued, In

\* A step that hands out slots to q, where p is the only caller that moves.
LEMMA DispatchQueueShape ==
  ASSUME IInv, NEW p \in Callers, NEW q \in Seq(Callers), Distinct(q),
         NEW used \in Int, NEW reserved \in Int,
         DispatchCapacityWaiters(q, used, reserved),
         NEW loc, pc' = [pc EXCEPT ![p] = loc],
         \A r \in Callers \ {p} : In(r, q) <=> In(r, waiters),
         \/ loc = "waiting" /\ In(p, q) /\ result[p] = "none"
         \/ loc \in {"out", "creating"} /\ ~In(p, q) /\ result[p] = "none"
  PROVE  QueueShape'
  <1>0. FieldTypes /\ QueueShape
    BY DEF IInv
  <1>1. /\ Distinct(waiters')
        /\ \A r \in Callers : 
               \/ ~In(r, q) /\ ~In(r, waiters') /\ result'[r] = result[r]
               \/ In(r, q) /\ In(r, waiters') /\ result'[r] = result[r]
               \/ In(r, q) /\ ~In(r, waiters') /\ result'[r] = "create"
    BY <1>0, DispatchSplits
  <1>2. \A r \in Callers : In(r, waiters) <=> Waits(r) /\ result[r] = "none"
    BY Zenon, <1>0 DEF QueueShape, Queued, In
  <1>3. \A r \in Callers : result[r] # "none" => Waits(r)
    BY <1>0 DEF QueueShape
  <1>4. /\ pc'[p] = loc
        /\ \A r \in Callers \ {p} : pc'[r] = pc[r]
    BY <1>0 DEF FieldTypes
  <1>5. ASSUME NEW r \in Callers
        PROVE  /\ In(r, waiters') <=> Waits(r)' /\ result'[r] = "none"
               /\ result'[r] # "none" => Waits(r)'
    <2>1. CASE r = p
      BY <1>1, <1>4, <2>1 DEF Waits
    <2>2. CASE r # p
      BY <1>1, <1>2, <1>3, <1>4, <2>2 DEF Waits
    <2> QED
      BY <2>1, <2>2
  <1> QED
    BY <1>1, <1>5 DEF QueueShape, Queued, In

\* The same for the locked tail of a physical close.
LEMMA AfterPhysicalCloseQueueShape ==
  ASSUME IInv, NEW p \in Callers, NEW more \in {0, 1}, AfterPhysicalClose(p, more),
         Closes(p), NEW loc \in {"out", "creating"}, pc' = [pc EXCEPT ![p] = loc]
  PROVE  QueueShape'
  <1>0. FieldTypes /\ QueueShape
    BY DEF IInv
  <1>1. ~Waits(p)
    BY DEF Closes, Waits
  <1>2. ~In(p, waiters) /\ result[p] = "none"
    BY <1>0, <1>1, OutsideQueue
  <1>3. CASE closed
    <2>1. UNCHANGED <<waiters, result>>
      BY <1>3 DEF AfterPhysicalClose
    <2>2. \A r \in Callers : Waits(r)' <=> Waits(r)
      BY <1>0, <1>1 DEF Waits, FieldTypes
    <2> QED
      BY <1>0, <2>1, <2>2 DEF QueueShape, Queued, Distinct
  <1>4. CASE ~closed
    <2>1. DispatchCapacityWaiters(waiters, CapacityUsed - 1, creating + more)
      BY Zenon, <1>4 DEF AfterPhysicalClose
    <2>2. waiters \in Seq(Callers) /\ CapacityUsed - 1 \in Int /\ creating + more \in Int
      BY <1>0, UsedType DEF FieldTypes
    <2>3. Distinct(waiters)
      BY <1>0 DEF QueueShape
    <2> QED
      BY Zenon, <1>2, <2>1, <2>2, <2>3, DispatchQueueShape
  <1> QED
    BY <1>3, <1>4

\* Every critical section keeps the waiter queue and the result channels in step
\* with where the callers are.
LEMMA QueueStep == IInv /\ [Next]_vars => QueueShape'
  <1> SUFFICES ASSUME IInv, [Next]_vars PROVE QueueShape'
    OBVIOUS
  <1>0. FieldTypes /\ QueueShape
    BY DEF IInv
  <1>00. \A p \in Callers : Queued(p) <=> In(p, waiters)
    BY DEF Queued, In
  <1>1. ASSUME NEW p \in Callers, Get(p) PROVE QueueShape'
    <2>0. pc[p] = "out" => ~Waits(p) /\ ~In(p, waiters) /\ result[p] = "none"
      BY <1>0, OutsideQueue DEF Waits
    <2>1. CASE GetClosed(p) \/ GetQueueFull(p)
      BY SMTT(30), <1>0, <2>1 DEF GetClosed, GetQueueFull, vars, QueueShape, Queued, Waits
    <2>2. CASE GetIdle(p) \/ GetStale(p) \/ GetNew(p)
      <3>1. /\ UNCHANGED <<waiters, result>>
            /\ \E loc \in {"using", "replacing", "creating"} : pc' = [pc EXCEPT ![p] = loc]
            /\ pc[p] = "out"
        BY <2>2 DEF GetIdle, GetStale, GetNew, BeginPhysicalClose
      <3>2. \A r \in Callers : Waits(r)' <=> Waits(r)
        BY <1>0, <3>1 DEF Waits, FieldTypes
      <3> QED
        BY <1>0, <3>1, <3>2 DEF QueueShape, Queued, Distinct
    <2>3. CASE GetWait(p)
      <3>1. pc[p] = "out" /\ DispatchCapacityWaiters(Append(waiters, p), CapacityUsed, creating)
        BY <2>3 DEF GetWait
      <3>2. Distinct(waiters) /\ waiters \in Seq(Callers)
        BY Zenon, <1>0 DEF QueueShape, FieldTypes
      <3>3. /\ Append(waiters, p) \in Seq(Callers)
            /\ Distinct(Append(waiters, p))
            /\ \A r \in Callers : In(r, Append(waiters, p)) <=> In(r, waiters) \/ r = p
        BY <2>0, <3>1, <3>2, AppendJoins
      <3>4. CapacityUsed \in Int /\ creating \in Int
        BY <1>0, UsedType DEF FieldTypes
      <3> QED
        BY Zenon, <2>0, <2>3, <3>1, <3>3, <3>4, DispatchQueueShape DEF GetWait
    <2> QED
      BY <1>1, <2>1, <2>2, <2>3 DEF Get
  <1>2. ASSUME NEW p \in Callers, Release(p) \/ StopWaiting(p) PROVE QueueShape'
    <2>1. UNCHANGED <<waiters, result>>
      BY <1>2 DEF Release, Close, Discard, BeginRelease, StopWaiting
    <2>2. \A r \in Callers : Waits(r)' <=> Waits(r)
      BY <1>0, <1>2 DEF Release, Close, Discard, BeginRelease, StopWaiting, Waits, FieldTypes
    <2> QED
      BY <1>0, <2>1, <2>2 DEF QueueShape, Queued, Distinct
  <1>3. ASSUME NEW p \in Callers, Progress(p) PROVE QueueShape'
    <2>1. CASE ReplaceStale(p)
      BY Zenon, <2>1, AfterPhysicalCloseQueueShape DEF ReplaceStale, Closes
    <2>2. CASE CloseDone(p)
      BY Zenon, <2>2, AfterPhysicalCloseQueueShape DEF CloseDone, Closes, Leave
    <2>3. CASE CreateFailed(p)
      <3>1. ~In(p, waiters) /\ result[p] = "none"
        BY <1>0, <2>3, OutsideQueue DEF CreateFailed, Waits
      <3>2. waiters \in Seq(Callers) /\ CapacityUsed - 1 \in Int /\ creating - 1 \in Int
        BY <1>0, UsedType DEF FieldTypes
      <3>3. Distinct(waiters)
        BY <1>0 DEF QueueShape
      <3> QED
        BY Zenon, <2>3, <3>1, <3>2, <3>3, DispatchQueueShape DEF CreateFailed, Leave
    <2>4. CASE CancelWaiter(p)
      <3>1. PICK i \in 1..Len(waiters) :
                   waiters[i] = p /\ DispatchCapacityWaiters(Without(i), CapacityUsed, creating)
        BY <2>4 DEF CancelWaiter
      <3>2. Distinct(waiters) /\ In(p, waiters)
        BY <1>0, <3>1 DEF QueueShape, In
      <3>3. result[p] = "none"
        BY <1>0, <1>00, <3>2 DEF QueueShape
      <3>4. /\ Without(i) \in Seq(Callers)
            /\ Distinct(Without(i))
            /\ \A r \in Callers : In(r, Without(i)) <=> In(r, waiters) /\ r # p
        BY <1>0, <3>1, <3>2, WithoutTypes, WithoutLeaves
      <3>5. CapacityUsed \in Int /\ creating \in Int
        BY <1>0, UsedType DEF FieldTypes
      <3> QED
        BY Zenon, <2>4, <3>1, <3>3, <3>4, <3>5, DispatchQueueShape DEF CancelWaiter, Leave
    <2>5. CASE ReceiveConn(p) \/ ReceiveClosed(p) \/ ReceiveCreate(p) \/ ReceiveCreateClosed(p)
      <3>1. /\ UNCHANGED waiters
            /\ result' = [result EXCEPT ![p] = "none"]
            /\ \E loc \in {"using", "creating", "out"} : pc' = [pc EXCEPT ![p] = loc]
            /\ result[p] # "none"
        BY Zenon, <2>5 DEF ReceiveConn, ReceiveClosed, ReceiveCreate, ReceiveCreateClosed, Leave,
                    Received
      <3>2. \A r \in Callers \ {p} : (Waits(r)' <=> Waits(r)) /\ result'[r] = result[r]
        BY <1>0, <3>1 DEF Waits, FieldTypes
      <3>3. ~Waits(p)' /\ result'[p] = "none" /\ ~Queued(p)
        BY <1>0, <3>1 DEF Waits, FieldTypes, QueueShape
      <3> QED
        BY <1>0, <3>1, <3>2, <3>3 DEF QueueShape, Queued, Distinct
    <2>6. CASE PutHandoff(p)
      <3> DEFINE w == Head(waiters)
      <3>1. /\ waiters' = Tail(waiters)
            /\ result' = [result EXCEPT ![w] = "conn"]
            /\ pc' = [pc EXCEPT ![p] = "out"]
            /\ pc[p] = "returning"
            /\ waiters # <<>>
        BY <2>6 DEF PutHandoff
      <3>2. /\ w \in Callers
            /\ Distinct(Tail(waiters))
            /\ In(w, waiters)
            /\ \A r \in Callers : In(r, Tail(waiters)) <=> In(r, waiters) /\ r # w
        BY <1>0, <3>1, TailSplits DEF QueueShape, FieldTypes
      <3> HIDE DEF w
      <3>3. \A r \in Callers : Waits(r)' <=> Waits(r)
        BY <1>0, <3>1 DEF Waits, FieldTypes
      <3>4. /\ result'[w] = "conn"
            /\ \A r \in Callers \ {w} : result'[r] = result[r]
        BY <1>0, <3>1, <3>2 DEF FieldTypes
      <3>5. Waits(w)
        BY <1>0, <1>00, <3>2 DEF QueueShape
      <3>6. \A r \in Callers : Queued(r)' <=> In(r, Tail(waiters))
        BY <3>1 DEF Queued, In
      <3>7. ASSUME NEW r \in Callers
            PROVE  /\ Queued(r)' <=> Waits(r)' /\ result'[r] = "none"
                   /\ result'[r] # "none" => Waits(r)'
        BY Zenon, <1>0, <1>00, <3>2, <3>3, <3>4, <3>5, <3>6 DEF QueueShape
      <3>8. Distinct(waiters')
        BY <3>1, <3>2
      <3> QED
        BY <3>7, <3>8 DEF QueueShape, Distinct
    <2>7. CASE \/ \E c \in Conns : CreateDone(p, c) \/ CreateDoneClosed(p, c)
               \/ CreateFailedClosed(p)
               \/ DiscardClose(p) \/ PutClosed(p) \/ PutUnusable(p)
               \/ PutIdle(p) \/ PutEvict(p)
      <3>1. /\ UNCHANGED <<waiters, result>>
            /\ \E loc \in {"using", "closing", "out"} : pc' = [pc EXCEPT ![p] = loc]
            /\ pc[p] \in {"creating", "discarding", "returning"}
        BY Zenon, <2>7 DEF CreateDone, CreateDoneClosed, CreateFailedClosed, DiscardClose, PutClosed,
                    PutUnusable, PutIdle, PutEvict, BeginPhysicalClose, Leave
      <3>2. \A r \in Callers : Waits(r)' <=> Waits(r)
        BY <1>0, <3>1 DEF Waits, FieldTypes
      <3> QED
        BY <1>0, <3>1, <3>2 DEF QueueShape, Queued, Distinct
    <2> QED
      BY <1>3, <2>1, <2>2, <2>3, <2>4, <2>5, <2>6, <2>7 DEF Progress
  <1>4. ASSUME NEW k \in Closers, PoolClose(k) PROVE QueueShape'
    <2>1. /\ waiters' = <<>>
          /\ result' = [p \in Callers |-> IF Queued(p) THEN "closed" ELSE result[p]]
          /\ UNCHANGED pc
      BY Zenon, <1>4 DEF PoolClose
    <2>2. \A p \in Callers : ~Queued(p)' /\ (Waits(p)' <=> Waits(p))
      BY <2>1 DEF Queued, Waits
    <2>3. Distinct(waiters')
      BY <2>1 DEF Distinct
    <2>4. ASSUME NEW r \in Callers
          PROVE  /\ Queued(r)' <=> Waits(r)' /\ result'[r] = "none"
                 /\ result'[r] # "none" => Waits(r)'
      BY <1>0, <2>1, <2>2 DEF QueueShape
    <2> QED
      BY <2>3, <2>4 DEF QueueShape, Distinct
  <1>5. CASE \/ \E k \in Closers : PoolCloseAgain(k) \/ PoolCloseReturns(k) \/ PoolCloseExpires(k)
             \/ CloseIdleConnection
             \/ UNCHANGED vars
    <2>1. UNCHANGED <<waiters, result, pc>>
      BY <1>5 DEF PoolCloseAgain, PoolCloseReturns, PoolCloseExpires, CloseIdleConnection, vars
    <2> QED
      BY SMTT(30), <1>0, <2>1 DEF QueueShape, Queued, Waits, Distinct
  <1> QED
    BY <1>1, <1>2, <1>3, <1>4, <1>5 DEF Next

-----------------------------------------------------------------------------
(* The order in which waiters are served *)

\* What a step may not do: serve a queued caller and leave one in the queue that
\* was ahead of it.
InOrder ==
    \A i, j \in 1..Len(waiters) :
       /\ i < j
       /\ result[waiters[j]] = "none"
       /\ result'[waiters[j]] \in {"conn", "create"}
       => \A k \in 1..Len(waiters') : waiters'[k] # waiters[i]

\* dispatchCapacityWaitersLocked takes the callers it serves from the front.
LEMMA DispatchInOrder ==
  ASSUME FieldTypes, NEW q \in Seq(Callers), Distinct(q), NEW used \in Int,
         NEW reserved \in Int, DispatchCapacityWaiters(q, used, reserved),
         NEW a \in 1..Len(q), NEW b \in 1..Len(q), a < b,
         result[q[b]] = "none", result'[q[b]] # "none"
  PROVE  ~In(q[a], waiters')
  <1> DEFINE n == DispatchCount(q, used)
  <1>1. closed \in BOOLEAN
    BY DEF FieldTypes
  <1>a. n \in 0..Len(q)
    BY Zenon, <1>1, DispatchServes
  <1>b. Len(q) \in Nat
    OBVIOUS
  <1>2. n \in 0..Len(q) /\ Len(q) \in Nat
    BY Zenon, <1>a, <1>b
  <1>3. result' = [p \in Callers |-> IF \E i \in 1..n : q[i] = p THEN "create" ELSE result[p]]
    BY DEF DispatchCapacityWaiters
  <1> HIDE DEF n
  <1>4. q[a] \in Callers /\ q[b] \in Callers
    OBVIOUS
  <1>5. PICK i \in 1..n : q[i] = q[b]
    BY <1>3, <1>4
  <1>6. b <= n
    BY <1>2, <1>5 DEF Distinct
  <1>7. result'[q[a]] = "create" /\ a \in 1..n
    BY <1>2, <1>3, <1>4, <1>6
  <1>8. ASSUME In(q[a], waiters') PROVE FALSE
    <2>1. /\ Len(waiters') = Len(q) - n
          /\ \A k \in 1..Len(waiters') : waiters'[k] = q[k + n]
      BY Zenon, <1>1, DispatchLeaves DEF DispatchCapacityWaiters, n
    <2>2. PICK k \in 1..Len(waiters') : waiters'[k] = q[a]
      BY <1>8 DEF In
    <2>3. k + n \in 1..Len(q) /\ q[k + n] = q[a]
      BY <1>2, <2>1, <2>2
    <2> QED
      BY <1>2, <1>7, <2>3 DEF Distinct
  <1> QED
    BY <1>8

\* Nobody is served: nothing to show.
LEMMA NobodyServed ==
  ASSUME FieldTypes,
         \A r \in Callers : result[r] = "none" => result'[r] \notin {"conn", "create"}
  PROVE  InOrder
  BY DEF InOrder, FieldTypes

\* Slots are handed out to q, which keeps the order of the queue.
LEMMA ServedInOrder ==
  ASSUME FieldTypes, NEW q \in Seq(Callers), Distinct(q), NEW used \in Int,
         NEW reserved \in Int, DispatchCapacityWaiters(q, used, reserved),
         \A i, j \in 1..Len(waiters) : i < j =>
            \/ \E a, b \in 1..Len(q) : a < b /\ q[a] = waiters[i] /\ q[b] = waiters[j]
            \/ ~In(waiters[i], q)
            \/ ~In(waiters[j], q)
  PROVE  InOrder
  <1> SUFFICES ASSUME NEW i \in 1..Len(waiters), NEW j \in 1..Len(waiters), i < j,
                      result[waiters[j]] = "none",
                      result'[waiters[j]] \in {"conn", "create"}
               PROVE  ~In(waiters[i], waiters')
    BY DEF InOrder, In
  <1>1. waiters[i] \in Callers /\ waiters[j] \in Callers
    BY DEF FieldTypes
  <1>2. CASE \E a, b \in 1..Len(q) : a < b /\ q[a] = waiters[i] /\ q[b] = waiters[j]
    <2>1. PICK a \in 1..Len(q), b \in 1..Len(q) : a < b /\ q[a] = waiters[i] /\ q[b] = waiters[j]
      BY <1>2
    <2>2. ~In(q[a], waiters')
      BY Zenon, <2>1, DispatchInOrder
    <2> QED
      BY <2>1, <2>2
  <1>3. CASE ~In(waiters[i], q)
    BY <1>1, <1>3, DispatchSplits
  <1>4. CASE ~In(waiters[j], q)
    <2>1. result'[waiters[j]] = result[waiters[j]]
      BY <1>1, <1>4, DispatchSplits
    <2> QED
      BY <2>1
  <1> QED
    BY Zenon, <1>2, <1>3, <1>4

\* The queue itself is served.
LEMMA QueueServedInOrder ==
  ASSUME IInv, NEW used \in Int, NEW reserved \in Int,
         DispatchCapacityWaiters(waiters, used, reserved)
  PROVE  InOrder
  <1>1. FieldTypes /\ waiters \in Seq(Callers) /\ Distinct(waiters)
    BY DEF IInv, FieldTypes, QueueShape
  <1>2. \A i, j \in 1..Len(waiters) : i < j =>
           \E a, b \in 1..Len(waiters) : a < b /\ waiters[a] = waiters[i] /\ waiters[b] = waiters[j]
    OBVIOUS
  <1> QED
    BY <1>1, <1>2, ServedInOrder

LEMMA OrderStep == IInv /\ [Next]_vars => InOrder
  <1> SUFFICES ASSUME IInv, [Next]_vars PROVE InOrder
    OBVIOUS
  <1>1. FieldTypes /\ waiters \in Seq(Callers) /\ Distinct(waiters)
    BY DEF IInv, FieldTypes, QueueShape
  <1>2. CapacityUsed \in Int /\ creating \in Int
    BY <1>1, UsedType DEF FieldTypes
  <1>3. ASSUME result' = result PROVE InOrder
    BY <1>1, <1>3, NobodyServed
  <1>4. ASSUME NEW p \in Callers, result' = [result EXCEPT ![p] = "none"] PROVE InOrder
    BY <1>1, <1>4, NobodyServed DEF FieldTypes
  <1>5. ASSUME NEW p \in Callers, GetWait(p) PROVE InOrder
    <2>1. DispatchCapacityWaiters(Append(waiters, p), CapacityUsed, creating) /\ pc[p] = "out"
      BY <1>5 DEF GetWait
    <2>2. ~In(p, waiters)
      BY Zenon, <2>1, OutsideQueue DEF IInv, Waits
    <2>3. PICK q \in Seq(Callers) : q = Append(waiters, p) /\ Distinct(q)
      BY Zenon, <1>1, <2>2, AppendJoins
    <2>4. \A k \in 1..Len(waiters) : k \in 1..Len(q) /\ q[k] = waiters[k]
      BY <1>1, <2>3
    <2>5. \A i, j \in 1..Len(waiters) : i < j =>
             \E a, b \in 1..Len(q) : a < b /\ q[a] = waiters[i] /\ q[b] = waiters[j]
      BY <2>4
    <2>6. DispatchCapacityWaiters(q, CapacityUsed, creating) /\ Distinct(q)
      BY <2>1, <2>3
    <2> QED
      BY <1>1, <1>2, <2>5, <2>6, ServedInOrder
  <1>6. ASSUME NEW p \in Callers, CancelWaiter(p) PROVE InOrder
    <2>1. PICK k \in 1..Len(waiters) :
             /\ waiters[k] = p
             /\ DispatchCapacityWaiters(Without(k), CapacityUsed, creating)
      BY <1>6 DEF CancelWaiter
    <2>2. /\ Without(k) \in Seq(Callers) /\ Distinct(Without(k))
          /\ Len(Without(k)) = Len(waiters) - 1
          /\ \A j \in 1..Len(Without(k)) :
                Without(k)[j] = IF j < k THEN waiters[j] ELSE waiters[j + 1]
      BY <1>1, WithoutTypes, WithoutLeaves
    <2>3. ~In(waiters[k], Without(k))
      BY <1>1, <2>1, WithoutLeaves
    <2>4. ASSUME NEW i \in 1..Len(waiters), i # k
          PROVE  LET a == IF i < k THEN i ELSE i - 1
                 IN  a \in 1..Len(Without(k)) /\ Without(k)[a] = waiters[i]
      <3>1. Len(waiters) \in Nat
        BY <1>1
      <3>2. CASE i < k
        <4>1. i \in 1..Len(Without(k))
          BY <2>2, <3>1, <3>2
        <4> QED
          BY <2>2, <3>2, <4>1
      <3>3. CASE i > k
        <4>1. i - 1 \in 1..Len(Without(k)) /\ ~(i - 1 < k) /\ (i - 1) + 1 = i /\ ~(i < k)
          BY <2>2, <3>1, <3>3
        <4> QED
          BY <2>2, <4>1
      <3> QED
        BY <2>4, <3>1, <3>2, <3>3
    <2>5. ASSUME NEW i \in 1..Len(waiters), NEW j \in 1..Len(waiters), i < j, i # k, j # k
          PROVE  \E a, b \in 1..Len(Without(k)) :
                    a < b /\ Without(k)[a] = waiters[i] /\ Without(k)[b] = waiters[j]
      <3>1. PICK a \in 1..Len(Without(k)) :
               a = (IF i < k THEN i ELSE i - 1) /\ Without(k)[a] = waiters[i]
        BY <2>4, <2>5
      <3>2. PICK b \in 1..Len(Without(k)) :
               b = (IF j < k THEN j ELSE j - 1) /\ Without(k)[b] = waiters[j]
        BY <2>4, <2>5
      <3>3. a < b
        BY <2>5, <3>1, <3>2
      <3> QED
        BY <3>1, <3>2, <3>3
    <2>6. \A i, j \in 1..Len(waiters) : i < j =>
             \/ \E a, b \in 1..Len(Without(k)) :
                   a < b /\ Without(k)[a] = waiters[i] /\ Without(k)[b] = waiters[j]
             \/ ~In(waiters[i], Without(k))
             \/ ~In(waiters[j], Without(k))
      BY <2>3, <2>5
    <2> QED
      BY Zenon, <1>1, <1>2, <2>1, <2>2, <2>6, ServedInOrder
  <1>7. ASSUME NEW p \in Callers, NEW more \in {0, 1}, AfterPhysicalClose(p, more)
        PROVE  InOrder
    <2>1. CASE closed
      BY <1>3, <1>7, <2>1 DEF AfterPhysicalClose
    <2>2. CASE ~closed
      <3>1. DispatchCapacityWaiters(waiters, CapacityUsed - 1, creating + more)
        BY Zenon, <1>7, <2>2 DEF AfterPhysicalClose
      <3> QED
        BY <1>2, <3>1, QueueServedInOrder
    <2> QED
      BY <2>1, <2>2
  <1>8. ASSUME NEW p \in Callers, CreateFailed(p) PROVE InOrder
    <2>1. DispatchCapacityWaiters(waiters, CapacityUsed - 1, creating - 1)
      BY <1>8 DEF CreateFailed
    <2> QED
      BY <1>2, <2>1, QueueServedInOrder
  <1>9. ASSUME NEW p \in Callers, PutHandoff(p) PROVE InOrder
    <2>1. waiters # <<>> /\ result' = [result EXCEPT ![Head(waiters)] = "conn"]
      BY <1>9 DEF PutHandoff
    <2>2. Head(waiters) = waiters[1] /\ 1 \in 1..Len(waiters)
      BY <1>1, <2>1
    <2>3. \A j \in 1..Len(waiters) : 1 < j => result'[waiters[j]] = result[waiters[j]]
      BY <1>1, <2>1, <2>2 DEF FieldTypes, Distinct
    <2> QED
      BY <1>1, <2>3 DEF InOrder
  <1>10. ASSUME NEW k \in Closers, PoolClose(k) PROVE InOrder
    <2>1. waiters' = <<>>
      BY <1>10 DEF PoolClose
    <2> QED
      BY <2>1 DEF InOrder
  <1>11. ASSUME NEW p \in Callers, Get(p) PROVE InOrder
    BY <1>3, <1>5, <1>11 DEF Get, GetClosed, GetIdle, GetStale, GetNew, GetQueueFull, vars
  <1>12. ASSUME NEW p \in Callers, Progress(p) PROVE InOrder
    <2>1. CASE ReplaceStale(p) \/ CloseDone(p)
      BY <1>7, <2>1 DEF ReplaceStale, CloseDone
    <2>2. ASSUME NEW c \in Conns, CreateDone(p, c) \/ CreateDoneClosed(p, c) PROVE InOrder
      BY <1>3, <2>2 DEF CreateDone, CreateDoneClosed
    <2>3. CASE CreateFailedClosed(p)
      BY <1>3, <2>3 DEF CreateFailedClosed
    <2>4. CASE ReceiveConn(p) \/ ReceiveClosed(p) \/ ReceiveCreate(p) \/ ReceiveCreateClosed(p)
      BY Zenon, <1>4, <2>4 DEF ReceiveConn, ReceiveClosed, ReceiveCreate, ReceiveCreateClosed
    <2>5. CASE DiscardClose(p) \/ PutClosed(p) \/ PutUnusable(p) \/ PutIdle(p) \/ PutEvict(p)
      BY <1>3, <2>5 DEF DiscardClose, PutClosed, PutUnusable, PutIdle, PutEvict
    <2> QED
      BY <1>6, <1>8, <1>9, <1>12, <2>1, <2>2, <2>3, <2>4, <2>5 DEF Progress
  <1>13. ASSUME NEW p \in Callers, Release(p) \/ StopWaiting(p) PROVE InOrder
    BY Zenon, <1>3, <1>13 DEF Release, Close, Discard, BeginRelease, StopWaiting
  <1>14. ASSUME NEW k \in Closers,
                PoolCloseAgain(k) \/ PoolCloseReturns(k) \/ PoolCloseExpires(k)
         PROVE  InOrder
    BY <1>3, <1>14 DEF PoolCloseAgain, PoolCloseReturns, PoolCloseExpires
  <1>15. ASSUME CloseIdleConnection \/ UNCHANGED vars PROVE InOrder
    BY <1>3, <1>15 DEF CloseIdleConnection, vars
  <1> QED
    BY <1>10, <1>11, <1>12, <1>13, <1>14, <1>15 DEF Next
=============================================================================
