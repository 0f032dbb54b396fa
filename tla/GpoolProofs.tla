---------------------------- MODULE GpoolProofs -----------------------------
(***************************************************************************)
(* Theorems about the connection pool, for every number of callers,        *)
(* closers and connections and every configuration.                        *)
(***************************************************************************)
EXTENDS GpoolOwnership, FiniteSetTheorems

-----------------------------------------------------------------------------
(* Counters *)

Borrowers == {p \in Callers : Borrows(p)}

Reservers == {p \in Callers : Reserves(p)}

Closing == {p \in Callers : Closes(p)}

Bit(b) == IF b THEN 1 ELSE 0

\* Two sets of callers that differ at most in p.
LEMMA CountChange ==
  ASSUME NEW S \in SUBSET Callers, NEW T \in SUBSET Callers, NEW p \in Callers,
         \A r \in Callers \ {p} : r \in S <=> r \in T
  PROVE  /\ Cardinality(S) \in Nat
         /\ Cardinality(T) = Cardinality(S) + Bit(p \in T) - Bit(p \in S)
  <1>1. IsFiniteSet(S) /\ IsFiniteSet(T)
    BY ConfAssumption, FS_Subset
  <1>2. Cardinality(S) \in Nat /\ Cardinality(T) \in Nat
    BY <1>1, FS_CardinalityType
  <1>3. CASE p \in S /\ p \in T
    <2>1. S = T
      BY <1>3
    <2> QED
      BY <1>2, <1>3, <2>1 DEF Bit
  <1>4. CASE p \notin S /\ p \notin T
    <2>1. S = T
      BY <1>4
    <2> QED
      BY <1>2, <1>4, <2>1 DEF Bit
  <1>5. CASE p \in S /\ p \notin T
    <2>1. T = S \ {p}
      BY <1>5
    <2>2. Cardinality(T) = Cardinality(S) - 1
      BY <1>1, <1>5, <2>1, FS_RemoveElement
    <2> QED
      BY <1>2, <1>5, <2>2 DEF Bit
  <1>6. CASE p \notin S /\ p \in T
    <2>1. T = S \cup {p}
      BY <1>6
    <2>2. Cardinality(T) = Cardinality(S) + 1
      BY <1>1, <1>6, <2>1, FS_AddElement
    <2> QED
      BY <1>2, <1>6, <2>2 DEF Bit
  <1> QED
    BY <1>3, <1>4, <1>5, <1>6

\* dispatchCapacityWaitersLocked raises creating by the number of callers it
\* serves.
LEMMA DispatchCounts ==
  ASSUME FieldTypes, NEW q \in Seq(Callers), Distinct(q), NEW used \in Int,
         NEW reserved \in Int, DispatchCapacityWaiters(q, used, reserved),
         NEW S \in SUBSET Callers, NEW T \in SUBSET Callers,
         \A r \in Callers : In(r, q) => r \notin S,
         \A r \in Callers : r \in T <=> r \in S \/ (In(r, q) /\ ~In(r, waiters'))
  PROVE  Cardinality(S) \in Nat /\ Cardinality(T) = Cardinality(S) + (creating' - reserved)
  <1> DEFINE n == DispatchCount(q, used)
             Served == {q[i] : i \in 1..n}
             f == [i \in 1..n |-> q[i]]
  <1>1. closed \in BOOLEAN
    BY DEF FieldTypes
  <1>2. n \in Nat /\ n <= Len(q) /\ Len(q) \in Nat
    BY <1>1, DispatchServes
  <1>3. waiters' = SubSeq(q, n + 1, Len(q)) /\ creating' = reserved + n
    BY DEF DispatchCapacityWaiters
  <1>4. /\ Len(waiters') = Len(q) - n
        /\ \A i \in 1..Len(waiters') : waiters'[i] = q[i + n]
    BY Zenon, <1>1, <1>3, DispatchLeaves
  <1> HIDE DEF n
  <1>5. \A i \in 1..n : i \in 1..Len(q) /\ q[i] \in Callers
    BY <1>2
  <1>6. Cardinality(Served) = n /\ IsFiniteSet(Served)
    <2>1. f \in [1..n -> Served]
      OBVIOUS
    <2>2. \A i, j \in 1..n : f[i] = f[j] => i = j
      BY <1>5 DEF Distinct
    <2>3. \A x \in Served : \E i \in 1..n : f[i] = x
      OBVIOUS
    <2>4. f \in Bijection(1..n, Served)
      BY <2>1, <2>2, <2>3 DEF Bijection, Injection, Surjection, IsInjective
    <2>5. ExistsBijection(1..n, Served)
      BY <2>4 DEF ExistsBijection
    <2> QED
      BY <1>2, <2>5, FS_CountingElements, FS_NatBijection
  <1>7. ASSUME NEW r \in Callers
        PROVE  r \in Served <=> In(r, q) /\ ~In(r, waiters')
    <2>1. ASSUME r \in Served PROVE In(r, q) /\ ~In(r, waiters')
      <3>1. PICK i \in 1..n : q[i] = r
        BY <2>1
      <3>2. In(r, q)
        BY <1>5, <3>1 DEF In
      <3>3. ASSUME NEW k \in 1..Len(waiters'), waiters'[k] = r PROVE FALSE
        <4>1. k + n \in 1..Len(q) /\ k + n # i
          BY <1>2, <1>4
        <4>2. q[k + n] = r
          BY <1>4, <3>3
        <4> QED
          BY <1>5, <3>1, <4>1, <4>2 DEF Distinct
      <3> QED
        BY <3>2, <3>3 DEF In
    <2>2. ASSUME In(r, q), ~In(r, waiters') PROVE r \in Served
      <3>1. PICK j \in 1..Len(q) : q[j] = r
        BY <2>2 DEF In
      <3>2. ASSUME j > n PROVE FALSE
        <4>1. j - n \in 1..Len(waiters') /\ (j - n) + n = j
          BY <1>2, <1>4, <3>2
        <4> QED
          BY <1>4, <2>2, <3>1, <4>1 DEF In
      <3>3. j \in 1..n
        BY <1>2, <3>2
      <3> QED
        BY <3>1, <3>3
    <2> QED
      BY <2>1, <2>2
  <1>8. Served \in SUBSET Callers
    BY <1>5
  <1> HIDE DEF Served
  <1>9. T = S \cup Served /\ S \cap Served = {}
    BY <1>7, <1>8
  <1>10. IsFiniteSet(S)
    BY ConfAssumption, FS_Subset
  <1>11. Cardinality(S) \in Nat
    BY <1>10, FS_CardinalityType
  <1>12. Cardinality(T) = Cardinality(S) + n - 0
    BY <1>6, <1>9, <1>10, FS_Union, FS_EmptySet
  <1> QED
    BY <1>2, <1>3, <1>11, <1>12

\* A step of p alone changes the three counts by what it changes for p.
LEMMA CountStep ==
  ASSUME NEW p \in Callers,
         \A r \in Callers \ {p} : pc'[r] = pc[r] /\ result'[r] = result[r]
  PROVE  /\ Cardinality(Borrowers) \in Nat
         /\ Cardinality(Reservers) \in Nat
         /\ Cardinality(Closing) \in Nat
         /\ Cardinality(Borrowers') = Cardinality(Borrowers) + Bit(Borrows(p)') - Bit(Borrows(p))
         /\ Cardinality(Reservers') = Cardinality(Reservers) + Bit(Reserves(p)') - Bit(Reserves(p))
         /\ Cardinality(Closing') = Cardinality(Closing) + Bit(Closes(p)') - Bit(Closes(p))
  <1>1. \A r \in Callers \ {p} : /\ r \in Borrowers <=> r \in Borrowers'
                                 /\ r \in Reservers <=> r \in Reservers'
                                 /\ r \in Closing <=> r \in Closing'
    BY DEF Borrowers, Reservers, Closing, Borrows, Reserves, Closes
  <1>2. /\ p \in Borrowers <=> Borrows(p)
        /\ p \in Borrowers' <=> Borrows(p)'
        /\ p \in Reservers <=> Reserves(p)
        /\ p \in Reservers' <=> Reserves(p)'
        /\ p \in Closing <=> Closes(p)
        /\ p \in Closing' <=> Closes(p)'
    BY DEF Borrowers, Reservers, Closing
  <1>3. /\ Borrowers \in SUBSET Callers /\ Borrowers' \in SUBSET Callers
        /\ Reservers \in SUBSET Callers /\ Reservers' \in SUBSET Callers
        /\ Closing \in SUBSET Callers /\ Closing' \in SUBSET Callers
    BY DEF Borrowers, Reservers, Closing
  <1>4. /\ Cardinality(Borrowers) \in Nat
        /\ Cardinality(Borrowers') = Cardinality(Borrowers) + Bit(p \in Borrowers') - Bit(p \in Borrowers)
    BY <1>1, <1>3, CountChange
  <1>5. /\ Cardinality(Reservers) \in Nat
        /\ Cardinality(Reservers') = Cardinality(Reservers) + Bit(p \in Reservers') - Bit(p \in Reservers)
    BY <1>1, <1>3, CountChange
  <1>6. /\ Cardinality(Closing) \in Nat
        /\ Cardinality(Closing') = Cardinality(Closing) + Bit(p \in Closing') - Bit(p \in Closing)
    BY <1>1, <1>3, CountChange
  <1> QED
    BY <1>2, <1>4, <1>5, <1>6 DEF Bit

\* Accounting in terms of the three sets.
LEMMA AccountingSets ==
  Accounting <=> /\ inUse = Cardinality(Borrowers)
                 /\ creating = Cardinality(Reservers)
                 /\ closing = Cardinality(Closing) + Len(closeList)
  BY DEF Accounting, Borrowers, Reservers, Closing

\* The same with dispatchCapacityWaitersLocked, where p is the caller that moves.
LEMMA DispatchCountStep ==
  ASSUME FieldTypes, QueueShape, NEW p \in Callers,
         NEW q \in Seq(Callers), Distinct(q), NEW used \in Int, NEW reserved \in Int,
         DispatchCapacityWaiters(q, used, reserved),
         \A r \in Callers \ {p} : pc'[r] = pc[r],
         result[p] = "none",
         \A r \in Callers \ {p} : In(r, q) => In(r, waiters),
         In(p, q) => pc'[p] = "waiting"
  PROVE  /\ Cardinality(Borrowers) \in Nat
         /\ Cardinality(Reservers) \in Nat
         /\ Cardinality(Closing) \in Nat
         /\ Cardinality(Borrowers') = Cardinality(Borrowers)
               + Bit(pc'[p] \in {"using", "returning", "discarding"})
               - Bit(pc[p] \in {"using", "returning", "discarding"})
         /\ Cardinality(Reservers') = Cardinality(Reservers)
               + Bit(pc'[p] = "creating") - Bit(pc[p] = "creating") + (creating' - reserved)
         /\ Cardinality(Closing') = Cardinality(Closing)
               + Bit(pc'[p] \in {"replacing", "closing"}) - Bit(pc[p] \in {"replacing", "closing"})
  <1>1. \A r \in Callers \ {p} : pc'[r] = pc[r]
    OBVIOUS
  <1>2. \A r \in Callers : In(r, q) => result[r] = "none"
    BY DEF QueueShape, Queued, In
  <1>3. \A r \in Callers \ {p} : In(r, q) => pc[r] \in {"waiting", "cancelling"}
    BY DEF QueueShape, Queued, In, Waits
  <1>4. \A r \in Callers :
               \/ ~In(r, q) /\ ~In(r, waiters') /\ result'[r] = result[r]
               \/ In(r, q) /\ In(r, waiters') /\ result'[r] = result[r]
               \/ In(r, q) /\ ~In(r, waiters') /\ result'[r] = "create"
    BY DispatchSplits
  <1> DEFINE R == {r \in Callers : pc'[r] = "creating" \/ result[r] = "create"}
  <1>5. /\ Cardinality(Borrowers) \in Nat
        /\ Cardinality(Borrowers') = Cardinality(Borrowers)
              + Bit(p \in Borrowers') - Bit(p \in Borrowers)
    <2>1. \A r \in Callers \ {p} : r \in Borrowers <=> r \in Borrowers'
      BY <1>1, <1>2, <1>4 DEF Borrowers, Borrows
    <2>2. Borrowers \in SUBSET Callers /\ Borrowers' \in SUBSET Callers
      BY DEF Borrowers
    <2> QED
      BY <2>1, <2>2, CountChange
  <1>6. /\ p \in Borrowers' <=> pc'[p] \in {"using", "returning", "discarding"}
        /\ p \in Borrowers <=> pc[p] \in {"using", "returning", "discarding"}
    BY <1>1, <1>4 DEF Borrowers, Borrows
  <1>7. /\ Cardinality(Closing) \in Nat
        /\ Cardinality(Closing') = Cardinality(Closing)
              + Bit(p \in Closing') - Bit(p \in Closing)
    <2>1. \A r \in Callers \ {p} : r \in Closing <=> r \in Closing'
      BY <1>1 DEF Closing, Closes
    <2>2. Closing \in SUBSET Callers /\ Closing' \in SUBSET Callers
      BY DEF Closing
    <2> QED
      BY <2>1, <2>2, CountChange
  <1>8. /\ p \in Closing' <=> pc'[p] \in {"replacing", "closing"}
        /\ p \in Closing <=> pc[p] \in {"replacing", "closing"}
    BY <1>1 DEF Closing, Closes
  <1>9. /\ Cardinality(Reservers) \in Nat
        /\ Cardinality(R) = Cardinality(Reservers) + Bit(p \in R) - Bit(p \in Reservers)
    <2>1. \A r \in Callers \ {p} : r \in Reservers <=> r \in R
      BY <1>1 DEF Reservers, Reserves
    <2>2. Reservers \in SUBSET Callers /\ R \in SUBSET Callers
      BY DEF Reservers
    <2> HIDE DEF R
    <2> QED
      BY <2>1, <2>2, CountChange
  <1>10. /\ p \in R <=> pc'[p] = "creating"
         /\ p \in Reservers <=> pc[p] = "creating"
    BY <1>1 DEF Reservers, Reserves
  <1>11. Cardinality(R) \in Nat /\ Cardinality(Reservers') = Cardinality(R) + (creating' - reserved)
    <2>1. ASSUME NEW r \in Callers, In(r, q) PROVE r \notin R
      <3>1. result[r] = "none"
        BY <1>2, <2>1
      <3>2. CASE r = p
        BY <1>1, <2>1, <3>1, <3>2
      <3>3. CASE r # p
        BY <1>1, <1>3, <2>1, <3>1, <3>3
      <3> QED
        BY <3>2, <3>3
    <2>2. \A r \in Callers : r \in Reservers' <=> r \in R \/ (In(r, q) /\ ~In(r, waiters'))
      BY <1>4 DEF Reservers, Reserves
    <2>3. R \in SUBSET Callers /\ Reservers' \in SUBSET Callers
      BY DEF Reservers
    <2> DEFINE T == Reservers'
    <2>4. \A r \in Callers : r \in T <=> r \in R \/ (In(r, q) /\ ~In(r, waiters'))
      BY <2>2
    <2>5. R \in SUBSET Callers /\ T \in SUBSET Callers
      BY <2>3
    <2>0. \A r \in Callers : In(r, q) => r \notin R
      BY <2>1
    <2> HIDE DEF R, T
    <2>6. Cardinality(R) \in Nat /\ Cardinality(T) = Cardinality(R) + (creating' - reserved)
      BY <2>0, <2>4, <2>5, DispatchCounts, ZenonT(30)
    <2> QED
      BY <2>6 DEF T
  <1>12. creating' - reserved \in Int
    BY DispatchTypes
  <1> HIDE DEF R
  <1>13. Cardinality(Borrowers') = Cardinality(Borrowers)
               + Bit(pc'[p] \in {"using", "returning", "discarding"})
               - Bit(pc[p] \in {"using", "returning", "discarding"})
    BY <1>5, <1>6 DEF Bit
  <1>14. Cardinality(Closing') = Cardinality(Closing)
               + Bit(pc'[p] \in {"replacing", "closing"}) - Bit(pc[p] \in {"replacing", "closing"})
    BY <1>7, <1>8 DEF Bit
  <1>15. Cardinality(Reservers') = Cardinality(Reservers)
               + Bit(pc'[p] = "creating") - Bit(pc[p] = "creating") + (creating' - reserved)
    BY <1>9, <1>10, <1>11, <1>12 DEF Bit
  <1> QED
    BY <1>5, <1>7, <1>9, <1>13, <1>14, <1>15

\* A Bit is an integer.
LEMMA BitType == \A b : Bit(b) \in {0, 1}
  BY DEF Bit

\* Every critical section keeps inUse, creating and closing exact.
LEMMA AccountingStep == IInv /\ [Next]_vars => Accounting'
  <1> SUFFICES ASSUME IInv, [Next]_vars PROVE Accounting'
    OBVIOUS
  <1>0. FieldTypes /\ QueueShape /\ Ownership /\ Shutdown /\ Distinct(waiters)
    BY DEF IInv, QueueShape
  <1>00. /\ inUse = Cardinality(Borrowers)
         /\ creating = Cardinality(Reservers)
         /\ closing = Cardinality(Closing) + Len(closeList)
    BY AccountingSets DEF IInv
  <1>000. /\ waiters \in Seq(Callers)
          /\ CapacityUsed \in Int /\ CapacityUsed - 1 \in Int
          /\ creating \in Int /\ inUse \in Int /\ closing \in Int
          /\ Len(closeList) \in Nat
    BY <1>0, UsedType DEF FieldTypes
  <1> SUFFICES /\ inUse' = Cardinality(Borrowers')
               /\ creating' = Cardinality(Reservers')
               /\ closing' = Cardinality(Closing') + Len(closeList')
    BY DEF Accounting, Borrowers, Reservers, Closing
  <1> DEFINE Goal == /\ inUse' = Cardinality(Borrowers')
                     /\ creating' = Cardinality(Reservers')
                     /\ closing' = Cardinality(Closing') + Len(closeList')
  <1>1. ASSUME NEW p \in Callers, Get(p) PROVE Goal
    <2>0. pc[p] = "out"
      BY <1>1 DEF Get, GetClosed, GetIdle, GetStale, GetNew, GetQueueFull, GetWait
    <2>1. result[p] = "none" /\ ~In(p, waiters)
      BY <1>0, <2>0, OutsideQueue DEF Waits
    <2>2. CASE GetClosed(p) \/ GetQueueFull(p)
      BY Zenon, <1>00, <2>2 DEF GetClosed, GetQueueFull, vars, Borrowers, Reservers, Closing, Borrows,
                         Reserves, Closes
    <2>3. CASE GetIdle(p) \/ GetStale(p) \/ GetNew(p)
      <3>1. /\ UNCHANGED <<closeList, result>>
            /\ \/ /\ pc' = [pc EXCEPT ![p] = "using"]
                  /\ inUse' = inUse + 1 /\ creating' = creating /\ closing' = closing
               \/ /\ pc' = [pc EXCEPT ![p] = "replacing"]
                  /\ inUse' = inUse /\ creating' = creating /\ closing' = closing + 1
               \/ /\ pc' = [pc EXCEPT ![p] = "creating"]
                  /\ inUse' = inUse /\ creating' = creating + 1 /\ closing' = closing
        BY <2>3 DEF GetIdle, GetStale, GetNew, BeginPhysicalClose
      <3>2. \A r \in Callers \ {p} : pc'[r] = pc[r] /\ result'[r] = result[r]
        BY <1>0, <3>1 DEF FieldTypes
      <3>3. /\ \/ /\ pc'[p] = "using"
                  /\ inUse' = inUse + 1 /\ creating' = creating /\ closing' = closing
               \/ /\ pc'[p] = "replacing"
                  /\ inUse' = inUse /\ creating' = creating /\ closing' = closing + 1
               \/ /\ pc'[p] = "creating"
                  /\ inUse' = inUse /\ creating' = creating + 1 /\ closing' = closing
            /\ result'[p] = "none"
        BY <1>0, <2>1, <3>1 DEF FieldTypes
      <3>4. /\ Bit(Borrows(p)) = 0 /\ Bit(Reserves(p)) = 0 /\ Bit(Closes(p)) = 0
            /\ inUse' = inUse + Bit(Borrows(p)')
            /\ creating' = creating + Bit(Reserves(p)')
            /\ closing' = closing + Bit(Closes(p)')
        BY <1>000, <2>0, <2>1, <3>3 DEF Bit, Borrows, Reserves, Closes
      <3>5. /\ Cardinality(Borrowers) \in Nat
            /\ Cardinality(Reservers) \in Nat
            /\ Cardinality(Closing) \in Nat
            /\ Cardinality(Borrowers') = Cardinality(Borrowers) + Bit(Borrows(p)') - Bit(Borrows(p))
            /\ Cardinality(Reservers') = Cardinality(Reservers) + Bit(Reserves(p)') - Bit(Reserves(p))
            /\ Cardinality(Closing') = Cardinality(Closing) + Bit(Closes(p)') - Bit(Closes(p))
        BY <3>2, CountStep
      <3> QED
        BY SMTT(30), <1>00, <1>000, <3>1, <3>4, <3>5, BitType
    <2>4. CASE GetWait(p)
      <3>1. /\ Append(waiters, p) \in Seq(Callers)
            /\ Distinct(Append(waiters, p))
            /\ \A r \in Callers : In(r, Append(waiters, p)) <=> In(r, waiters) \/ r = p
        BY <1>0, <1>000, <2>1, AppendJoins
      <3> DEFINE loc == "waiting"
                 q == Append(waiters, p)
                 used == CapacityUsed
                 reserved == creating
      <3>2. /\ UNCHANGED <<inUse, closing, closeList>>
            /\ pc[p] = "out"
        BY <2>4 DEF GetWait
      <3>3. DispatchCapacityWaiters(q, used, reserved)
        BY <2>4 DEF GetWait
      <3>4. pc'[p] = loc /\ \A r \in Callers \ {p} : pc'[r] = pc[r]
        BY <1>0, <2>4 DEF GetWait, FieldTypes
      <3>5. result[p] = "none"
        BY <2>1
      <3>6. q \in Seq(Callers) /\ Distinct(q) /\ used \in Int /\ reserved \in Int
        BY <1>000, <3>1
      <3>7. /\ \A r \in Callers \ {p} : In(r, q) => In(r, waiters)
            /\ In(p, q) => pc'[p] = "waiting"
        BY <3>1, <3>4
      <3> HIDE DEF loc, q, used, reserved
      <3>8. creating' \in Int
        BY Zenon, <1>0, <3>3, <3>6, DispatchTypes
      <3>9. /\ Cardinality(Borrowers) \in Nat
             /\ Cardinality(Reservers) \in Nat
             /\ Cardinality(Closing) \in Nat
             /\ Cardinality(Borrowers') = Cardinality(Borrowers)
                   + Bit(pc'[p] \in {"using", "returning", "discarding"})
                   - Bit(pc[p] \in {"using", "returning", "discarding"})
             /\ Cardinality(Reservers') = Cardinality(Reservers)
                   + Bit(pc'[p] = "creating") - Bit(pc[p] = "creating") + (creating' - reserved)
             /\ Cardinality(Closing') = Cardinality(Closing)
                   + Bit(pc'[p] \in {"replacing", "closing"}) - Bit(pc[p] \in {"replacing", "closing"})
        BY Zenon, <1>0, <3>3, <3>4, <3>5, <3>6, <3>7, DispatchCountStep
      <3> QED
        BY <1>00, <1>000, <3>2, <3>4, <3>8, <3>9 DEF Bit, loc, reserved
    <2> QED
      BY <1>1, <2>2, <2>3, <2>4 DEF Get
  <1>2. ASSUME NEW p \in Callers, Release(p) \/ StopWaiting(p) PROVE Goal
    <2>1. /\ UNCHANGED <<inUse, creating, closing, closeList, result>>
          /\ \/ pc[p] = "using" /\ \E loc \in {"returning", "discarding"} : pc' = [pc EXCEPT ![p] = loc]
             \/ pc[p] = "waiting" /\ pc' = [pc EXCEPT ![p] = "cancelling"]
      BY <1>2 DEF Release, Close, Discard, BeginRelease, StopWaiting
    <2>2. /\ \A r \in Callers \ {p} : pc'[r] = pc[r] /\ result'[r] = result[r]
          /\ \/ pc[p] = "using" /\ pc'[p] \in {"returning", "discarding"}
             \/ pc[p] = "waiting" /\ pc'[p] = "cancelling"
          /\ result'[p] = result[p]
      BY <1>0, <2>1 DEF FieldTypes
    <2>3. /\ Bit(Borrows(p)') = Bit(Borrows(p))
          /\ Bit(Reserves(p)') = Bit(Reserves(p))
          /\ Bit(Closes(p)') = Bit(Closes(p))
      BY <2>2 DEF Bit, Borrows, Reserves, Closes
    <2>4. /\ Cardinality(Borrowers) \in Nat
          /\ Cardinality(Reservers) \in Nat
          /\ Cardinality(Closing) \in Nat
          /\ Cardinality(Borrowers') = Cardinality(Borrowers) + Bit(Borrows(p)') - Bit(Borrows(p))
          /\ Cardinality(Reservers') = Cardinality(Reservers) + Bit(Reserves(p)') - Bit(Reserves(p))
          /\ Cardinality(Closing') = Cardinality(Closing) + Bit(Closes(p)') - Bit(Closes(p))
      BY <2>2, CountStep, Zenon
    <2>5. /\ Cardinality(Borrowers') = Cardinality(Borrowers)
          /\ Cardinality(Reservers') = Cardinality(Reservers)
          /\ Cardinality(Closing') = Cardinality(Closing)
      BY <2>3, <2>4, BitType
    <2> QED
      BY <1>00, <2>1, <2>5
  <1>3. ASSUME NEW p \in Callers, ReplaceStale(p) \/ CloseDone(p) PROVE Goal
    <2>1. PICK loc \in {"out", "creating"}, more \in {0, 1} :
             /\ AfterPhysicalClose(p, more)
             /\ pc' = [pc EXCEPT ![p] = loc]
             /\ UNCHANGED <<inUse, closeList>>
             /\ loc = "creating" <=> more = 1
      BY <1>3 DEF ReplaceStale, CloseDone, Leave
    <2>2. Closes(p) /\ pc[p] \in {"replacing", "closing"}
      BY <1>3 DEF ReplaceStale, CloseDone, Closes
    <2>3. result[p] = "none" /\ ~In(p, waiters)
      BY <1>0, <2>2, OutsideQueue DEF Waits
    <2>4. closing' = closing - 1
      BY <2>1 DEF AfterPhysicalClose
    <2>5. CASE closed
      <3>1. creating' = creating + more /\ UNCHANGED result
        BY <2>1, <2>5 DEF AfterPhysicalClose
      <3>2. /\ \A r \in Callers \ {p} : pc'[r] = pc[r] /\ result'[r] = result[r]
            /\ pc'[p] = loc /\ result'[p] = "none"
        BY <1>0, <2>1, <2>3, <3>1 DEF FieldTypes
      <3>3. /\ Bit(Borrows(p)) = 0 /\ Bit(Reserves(p)) = 0 /\ Bit(Closes(p)) = 1
            /\ Bit(Borrows(p)') = 0 /\ Bit(Reserves(p)') = more /\ Bit(Closes(p)') = 0
        BY <2>1, <2>2, <2>3, <3>2 DEF Bit, Borrows, Reserves, Closes
      <3>4. /\ Cardinality(Borrowers) \in Nat
            /\ Cardinality(Reservers) \in Nat
            /\ Cardinality(Closing) \in Nat
            /\ Cardinality(Borrowers') = Cardinality(Borrowers) + Bit(Borrows(p)') - Bit(Borrows(p))
            /\ Cardinality(Reservers') = Cardinality(Reservers) + Bit(Reserves(p)') - Bit(Reserves(p))
            /\ Cardinality(Closing') = Cardinality(Closing) + Bit(Closes(p)') - Bit(Closes(p))
        BY <3>2, CountStep
      <3> QED
        BY SMTT(30), <1>00, <1>000, <2>1, <2>4, <3>1, <3>3, <3>4
    <2>6. CASE ~closed
      <3>1. DispatchCapacityWaiters(waiters, CapacityUsed - 1, creating + more)
        BY Zenon, <2>1, <2>6 DEF AfterPhysicalClose
      <3>2. creating + more \in Int
        BY <1>000
      <3>3. creating' \in Int
        BY Zenon, <1>0, <1>000, <3>1, <3>2, DispatchTypes
      <3>4. /\ Cardinality(Borrowers) \in Nat
            /\ Cardinality(Reservers) \in Nat
            /\ Cardinality(Closing) \in Nat
            /\ Cardinality(Borrowers') = Cardinality(Borrowers)
                  + Bit(pc'[p] \in {"using", "returning", "discarding"})
                  - Bit(pc[p] \in {"using", "returning", "discarding"})
            /\ Cardinality(Reservers') = Cardinality(Reservers)
                  + Bit(pc'[p] = "creating") - Bit(pc[p] = "creating")
                  + (creating' - (creating + more))
            /\ Cardinality(Closing') = Cardinality(Closing)
                  + Bit(pc'[p] \in {"replacing", "closing"})
                  - Bit(pc[p] \in {"replacing", "closing"})
        <4>1. \A r \in Callers \ {p} : pc'[r] = pc[r]
          BY <1>0, <2>1 DEF FieldTypes
        <4> QED
          BY Zenon, <1>0, <1>000, <2>3, <3>1, <3>2, <4>1, DispatchCountStep
      <3>5. /\ Bit(pc'[p] \in {"using", "returning", "discarding"}) = 0
            /\ Bit(pc[p] \in {"using", "returning", "discarding"}) = 0
            /\ Bit(pc'[p] = "creating") = more /\ Bit(pc[p] = "creating") = 0
            /\ Bit(pc'[p] \in {"replacing", "closing"}) = 0
            /\ Bit(pc[p] \in {"replacing", "closing"}) = 1
        <4>1. pc'[p] = loc
          BY <1>0, <2>1 DEF FieldTypes
        <4> QED
          BY <2>1, <2>2, <4>1 DEF Bit
      <3>6. /\ Cardinality(Borrowers') = Cardinality(Borrowers) + 0 - 0
            /\ Cardinality(Reservers') = Cardinality(Reservers) + more - 0
                  + (creating' - (creating + more))
            /\ Cardinality(Closing') = Cardinality(Closing) + 0 - 1
        BY <3>4, <3>5
      <3>7. inUse' = inUse /\ closeList' = closeList /\ more \in Int
        BY <2>1
      <3>8. Cardinality(Reservers) \in Nat /\ Cardinality(Closing) \in Nat
        BY <3>4
      <3>9. creating' = Cardinality(Reservers')
        BY SMTT(30), <1>00, <1>000, <3>3, <3>6, <3>7, <3>8
      <3>10. closing' = Cardinality(Closing') + Len(closeList')
        BY SMTT(30), <1>00, <1>000, <2>4, <3>6, <3>7, <3>8
      <3>11. inUse' = Cardinality(Borrowers')
        BY <1>00, <1>000, <3>6, <3>7
      <3> QED
        BY <3>9, <3>10, <3>11
    <2> QED
      BY <2>5, <2>6
  <1>4. ASSUME NEW p \in Callers, CreateFailed(p) PROVE Goal
    <2>1. result[p] = "none" /\ ~In(p, waiters)
      BY <1>0, <1>4, OutsideQueue DEF Waits, CreateFailed
    <2> DEFINE loc == "out"
               q == waiters
               used == CapacityUsed - 1
               reserved == creating - 1
    <2>2. /\ UNCHANGED <<inUse, closing, closeList>>
          /\ pc[p] = "creating"
      BY <1>4 DEF CreateFailed, Leave
    <2>3. DispatchCapacityWaiters(q, used, reserved)
      BY <1>4 DEF CreateFailed
    <2>4. pc'[p] = loc /\ \A r \in Callers \ {p} : pc'[r] = pc[r]
      BY <1>0, <1>4 DEF CreateFailed, Leave, FieldTypes
    <2>5. result[p] = "none"
      BY <2>1
    <2>6. q \in Seq(Callers) /\ Distinct(q) /\ used \in Int /\ reserved \in Int
      BY <1>0, <1>000
    <2>7. /\ \A r \in Callers \ {p} : In(r, q) => In(r, waiters)
          /\ In(p, q) => pc'[p] = "waiting"
      BY Zenon, <2>1
    <2> HIDE DEF loc, q, used, reserved
    <2>8. creating' \in Int
      BY <1>0, <2>3, <2>6, DispatchTypes
    <2>9. /\ Cardinality(Borrowers) \in Nat
           /\ Cardinality(Reservers) \in Nat
           /\ Cardinality(Closing) \in Nat
           /\ Cardinality(Borrowers') = Cardinality(Borrowers)
                 + Bit(pc'[p] \in {"using", "returning", "discarding"})
                 - Bit(pc[p] \in {"using", "returning", "discarding"})
           /\ Cardinality(Reservers') = Cardinality(Reservers)
                 + Bit(pc'[p] = "creating") - Bit(pc[p] = "creating") + (creating' - reserved)
           /\ Cardinality(Closing') = Cardinality(Closing)
                 + Bit(pc'[p] \in {"replacing", "closing"}) - Bit(pc[p] \in {"replacing", "closing"})
      BY <1>0, <2>3, <2>4, <2>5, <2>6, <2>7, DispatchCountStep
    <2> QED
      BY SMTT(30), <1>00, <1>000, <2>2, <2>4, <2>8, <2>9 DEF Bit, loc, reserved
  <1>5. ASSUME NEW p \in Callers, CancelWaiter(p) PROVE Goal
    <2>1. PICK i \in 1..Len(waiters) :
             waiters[i] = p /\ DispatchCapacityWaiters(Without(i), CapacityUsed, creating)
      BY <1>5 DEF CancelWaiter
    <2>2. /\ Without(i) \in Seq(Callers)
          /\ Distinct(Without(i))
          /\ \A r \in Callers : In(r, Without(i)) <=> In(r, waiters) /\ r # p
      BY <1>0, <2>1, WithoutTypes, WithoutLeaves
    <2> DEFINE loc == "out"
               q == Without(i)
               used == CapacityUsed
               reserved == creating
    <2>3. /\ UNCHANGED <<inUse, closing, closeList>>
          /\ pc[p] = "cancelling"
      BY <1>5 DEF CancelWaiter, Leave
    <2>4. DispatchCapacityWaiters(q, used, reserved)
      BY <2>1
    <2>5. pc'[p] = loc /\ \A r \in Callers \ {p} : pc'[r] = pc[r]
      BY <1>0, <1>5 DEF CancelWaiter, Leave, FieldTypes
    <2>6. result[p] = "none"
      BY <1>0, <2>1 DEF QueueShape, Queued
    <2>7. q \in Seq(Callers) /\ Distinct(q) /\ used \in Int /\ reserved \in Int
      BY <1>000, <2>2
    <2>8. /\ \A r \in Callers \ {p} : In(r, q) => In(r, waiters)
          /\ In(p, q) => pc'[p] = "waiting"
      BY <2>2
    <2> HIDE DEF loc, q, used, reserved
    <2>9. creating' \in Int
      BY Zenon, <1>0, <2>4, <2>7, DispatchTypes
    <2>10. /\ Cardinality(Borrowers) \in Nat
           /\ Cardinality(Reservers) \in Nat
           /\ Cardinality(Closing) \in Nat
           /\ Cardinality(Borrowers') = Cardinality(Borrowers)
                 + Bit(pc'[p] \in {"using", "returning", "discarding"})
                 - Bit(pc[p] \in {"using", "returning", "discarding"})
           /\ Cardinality(Reservers') = Cardinality(Reservers)
                 + Bit(pc'[p] = "creating") - Bit(pc[p] = "creating") + (creating' - reserved)
           /\ Cardinality(Closing') = Cardinality(Closing)
                 + Bit(pc'[p] \in {"replacing", "closing"}) - Bit(pc[p] \in {"replacing", "closing"})
      BY <1>0, <2>4, <2>5, <2>6, <2>7, <2>8, DispatchCountStep
    <2> QED
      BY SMTT(30), <1>00, <1>000, <2>3, <2>5, <2>9, <2>10 DEF Bit, loc, reserved
  <1>6. ASSUME NEW p \in Callers,
               \/ \E c \in Conns : CreateDone(p, c) \/ CreateDoneClosed(p, c)
               \/ CreateFailedClosed(p)
        PROVE  Goal
    <2>1. /\ pc[p] = "creating" /\ creating' = creating - 1
          /\ UNCHANGED <<closeList, result>>
          /\ \/ pc' = [pc EXCEPT ![p] = "using"] /\ inUse' = inUse + 1 /\ closing' = closing
             \/ pc' = [pc EXCEPT ![p] = "closing"] /\ inUse' = inUse /\ closing' = closing + 1
             \/ pc' = [pc EXCEPT ![p] = "out"] /\ inUse' = inUse /\ closing' = closing
      BY Zenon, <1>6 DEF CreateDone, CreateDoneClosed, CreateFailedClosed, BeginPhysicalClose, Leave
    <2>2. result[p] = "none"
      BY <1>0, <2>1, OutsideQueue DEF Waits
    <2>3. /\ \A r \in Callers \ {p} : pc'[r] = pc[r] /\ result'[r] = result[r]
          /\ \/ pc'[p] = "using" /\ inUse' = inUse + 1 /\ closing' = closing
             \/ pc'[p] = "closing" /\ inUse' = inUse /\ closing' = closing + 1
             \/ pc'[p] = "out" /\ inUse' = inUse /\ closing' = closing
          /\ result'[p] = "none"
      BY <1>0, <2>1, <2>2 DEF FieldTypes
    <2>4. /\ Bit(Borrows(p)) = 0 /\ Bit(Reserves(p)) = 1 /\ Bit(Closes(p)) = 0
          /\ Bit(Reserves(p)') = 0
          /\ inUse' = inUse + Bit(Borrows(p)')
          /\ closing' = closing + Bit(Closes(p)')
      BY <1>000, <2>1, <2>2, <2>3 DEF Bit, Borrows, Reserves, Closes
    <2>5. /\ Cardinality(Borrowers) \in Nat
          /\ Cardinality(Reservers) \in Nat
          /\ Cardinality(Closing) \in Nat
          /\ Cardinality(Borrowers') = Cardinality(Borrowers) + Bit(Borrows(p)') - Bit(Borrows(p))
          /\ Cardinality(Reservers') = Cardinality(Reservers) + Bit(Reserves(p)') - Bit(Reserves(p))
          /\ Cardinality(Closing') = Cardinality(Closing) + Bit(Closes(p)') - Bit(Closes(p))
      BY <2>3, CountStep
    <2>6. Bit(Borrows(p)') \in Int /\ Bit(Closes(p)') \in Int
      BY BitType
    <2>7. inUse' = Cardinality(Borrowers')
      BY <1>00, <2>4, <2>5, <2>6
    <2>8. creating' = Cardinality(Reservers')
      BY <1>00, <2>1, <2>4, <2>5
    <2>9. closing' = Cardinality(Closing') + Len(closeList')
      <3>1. Len(closeList') = Len(closeList)
        BY <2>1
      <3>2. closing' = Cardinality(Closing) + Len(closeList) + Bit(Closes(p)')
        BY <1>00, <2>4
      <3>3. Cardinality(Closing') = Cardinality(Closing) + Bit(Closes(p)')
        BY <2>4, <2>5, <2>6
      <3> QED
        BY <1>000, <2>5, <2>6, <3>1, <3>2, <3>3
    <2> QED
      BY <2>7, <2>8, <2>9
  <1>7. ASSUME NEW p \in Callers,
               ReceiveConn(p) \/ ReceiveClosed(p) \/ ReceiveCreate(p) \/ ReceiveCreateClosed(p)
        PROVE  Goal
    <2>1. /\ UNCHANGED <<inUse, closing, closeList>>
          /\ Waits(p)
          /\ result' = [result EXCEPT ![p] = "none"]
          /\ \/ pc' = [pc EXCEPT ![p] = "using"] /\ result[p] = "conn" /\ creating' = creating
             \/ pc' = [pc EXCEPT ![p] = "out"] /\ result[p] = "closed" /\ creating' = creating
             \/ pc' = [pc EXCEPT ![p] = "creating"] /\ result[p] = "create" /\ creating' = creating
             \/ pc' = [pc EXCEPT ![p] = "out"] /\ result[p] = "create" /\ creating' = creating - 1
      BY Zenon, <1>7 DEF ReceiveConn, ReceiveClosed, ReceiveCreate, ReceiveCreateClosed, Received, Waits,
                  Leave
    <2>2. /\ \A r \in Callers \ {p} : pc'[r] = pc[r] /\ result'[r] = result[r]
          /\ result'[p] = "none"
          /\ \/ pc'[p] = "using" /\ result[p] = "conn" /\ creating' = creating
             \/ pc'[p] = "out" /\ result[p] = "closed" /\ creating' = creating
             \/ pc'[p] = "creating" /\ result[p] = "create" /\ creating' = creating
             \/ pc'[p] = "out" /\ result[p] = "create" /\ creating' = creating - 1
      BY <1>0, <2>1 DEF FieldTypes
    <2>3. /\ Bit(Borrows(p)') = Bit(Borrows(p))
          /\ creating' = creating + Bit(Reserves(p)') - Bit(Reserves(p))
          /\ Bit(Closes(p)') = Bit(Closes(p))
      BY <1>000, <2>1, <2>2 DEF Bit, Borrows, Reserves, Closes, Waits
    <2>4. /\ Cardinality(Borrowers) \in Nat
          /\ Cardinality(Reservers) \in Nat
          /\ Cardinality(Closing) \in Nat
          /\ Cardinality(Borrowers') = Cardinality(Borrowers) + Bit(Borrows(p)') - Bit(Borrows(p))
          /\ Cardinality(Reservers') = Cardinality(Reservers) + Bit(Reserves(p)') - Bit(Reserves(p))
          /\ Cardinality(Closing') = Cardinality(Closing) + Bit(Closes(p)') - Bit(Closes(p))
      BY <2>2, CountStep
    <2> QED
      BY <1>00, <1>000, <2>1, <2>3, <2>4, BitType
  <1>8. ASSUME NEW p \in Callers,
               \/ DiscardClose(p) \/ PutClosed(p) \/ PutUnusable(p)
               \/ PutIdle(p) \/ PutEvict(p)
        PROVE  Goal
    <2>1. /\ pc[p] \in {"discarding", "returning"} /\ inUse' = inUse - 1
          /\ UNCHANGED <<creating, closeList, result>>
          /\ \/ pc' = [pc EXCEPT ![p] = "closing"] /\ closing' = closing + 1
             \/ pc' = [pc EXCEPT ![p] = "out"] /\ closing' = closing
      BY <1>8 DEF DiscardClose, PutClosed, PutUnusable, PutIdle, PutEvict,
                  BeginPhysicalClose, Leave
    <2>2. result[p] = "none"
      BY <1>0, <2>1, OutsideQueue DEF Waits
    <2>3. /\ \A r \in Callers \ {p} : pc'[r] = pc[r] /\ result'[r] = result[r]
          /\ \/ pc'[p] = "closing" /\ closing' = closing + 1
             \/ pc'[p] = "out" /\ closing' = closing
          /\ result'[p] = "none"
      BY <1>0, <2>1, <2>2 DEF FieldTypes
    <2>4. /\ Bit(Borrows(p)) = 1 /\ Bit(Reserves(p)) = 0 /\ Bit(Closes(p)) = 0
          /\ Bit(Borrows(p)') = 0 /\ Bit(Reserves(p)') = 0
          /\ closing' = closing + Bit(Closes(p)')
      <3>1. /\ Borrows(p) /\ ~Reserves(p) /\ ~Closes(p)
            /\ ~Borrows(p)' /\ ~Reserves(p)'
            /\ Closes(p)' <=> pc'[p] = "closing"
        BY Zenon, <2>1, <2>2, <2>3 DEF Borrows, Reserves, Closes
      <3>2. closing' = closing + Bit(Closes(p)')
        <4>1. CASE pc'[p] = "closing" /\ closing' = closing + 1
          BY <3>1, <4>1 DEF Bit
        <4>2. CASE pc'[p] = "out" /\ closing' = closing
          <5>1. ~Closes(p)'
            BY Zenon, <3>1, <4>2
          <5> QED
            BY <1>000, <4>2, <5>1 DEF Bit
        <4> QED
          BY Zenon, <2>3, <4>1, <4>2
      <3> QED
        BY <3>1, <3>2 DEF Bit
    <2>5. /\ Cardinality(Borrowers) \in Nat
          /\ Cardinality(Reservers) \in Nat
          /\ Cardinality(Closing) \in Nat
          /\ Cardinality(Borrowers') = Cardinality(Borrowers) + Bit(Borrows(p)') - Bit(Borrows(p))
          /\ Cardinality(Reservers') = Cardinality(Reservers) + Bit(Reserves(p)') - Bit(Reserves(p))
          /\ Cardinality(Closing') = Cardinality(Closing) + Bit(Closes(p)') - Bit(Closes(p))
      BY <2>3, CountStep
    <2> QED
      BY SMTT(30), <1>00, <1>000, <2>1, <2>4, <2>5, BitType
  <1>9. ASSUME NEW p \in Callers, PutHandoff(p) PROVE Goal
    <2> DEFINE w == Head(waiters)
               rest == Borrowers \ {p}
    <2>1. /\ pc[p] = "returning" /\ waiters # <<>>
          /\ result' = [result EXCEPT ![w] = "conn"]
          /\ pc' = [pc EXCEPT ![p] = "out"]
          /\ UNCHANGED <<inUse, creating, closing, closeList>>
      BY <1>9 DEF PutHandoff
    <2>2. w \in Callers /\ In(w, waiters)
      BY <1>0, <1>000, <2>1, TailSplits
    <2>3. Waits(w) /\ result[w] = "none" /\ w # p /\ result[p] = "none"
      BY <1>0, <2>1, <2>2, OutsideQueue DEF QueueShape, Queued, In, Waits
    <2> HIDE DEF w
    <2>4. /\ pc'[p] = "out" /\ result'[p] = "none" /\ pc'[w] = pc[w] /\ result'[w] = "conn"
          /\ \A r \in Callers \ {p, w} : pc'[r] = pc[r] /\ result'[r] = result[r]
      BY <1>0, <2>1, <2>2, <2>3 DEF FieldTypes
    <2>5. Reservers' = Reservers /\ Closing' = Closing
      BY <2>1, <2>3, <2>4 DEF Reservers, Reserves, Closing, Closes, Waits
    <2>6. /\ p \in Borrowers /\ w \notin Borrowers
          /\ Borrowers' = rest \cup {w}
      BY <2>1, <2>2, <2>3, <2>4 DEF Borrowers, Borrows, Waits
    <2>7. IsFiniteSet(Borrowers) /\ Cardinality(Borrowers) \in Nat
      BY ConfAssumption, FS_Subset, FS_CardinalityType DEF Borrowers
    <2>8. IsFiniteSet(rest) /\ Cardinality(rest) = Cardinality(Borrowers) - 1
      BY <2>6, <2>7, FS_RemoveElement
    <2>9. w \notin rest
      BY <2>6
    <2> HIDE DEF rest
    <2>10. Cardinality(Borrowers') = Cardinality(rest) + 1
      BY Zenon, <2>6, <2>8, <2>9, FS_AddElement
    <2> QED
      BY <1>00, <2>1, <2>5, <2>7, <2>8, <2>10
  <1>10. ASSUME NEW k \in Closers, PoolClose(k) PROVE Goal
    <2>1. /\ ~closed
          /\ result' = [p \in Callers |-> IF Queued(p) THEN "closed" ELSE result[p]]
          /\ closing' = closing + Len(idle)
          /\ closeList' = idle
          /\ UNCHANGED <<inUse, creating, pc>>
      BY <1>10 DEF PoolClose
    <2>2. Len(closeList) = 0
      BY <1>0, <2>1 DEF Shutdown
    <2>3. Borrowers' = Borrowers /\ Reservers' = Reservers /\ Closing' = Closing
      BY <1>0, <2>1 DEF Borrowers, Borrows, Reservers, Reserves, Closing, Closes, QueueShape
    <2>4. Len(idle) \in Nat
      BY <1>0 DEF FieldTypes
    <2>5. IsFiniteSet(Closing) /\ Cardinality(Closing) \in Nat
      BY ConfAssumption, FS_Subset, FS_CardinalityType DEF Closing
    <2>6. closing = Cardinality(Closing)
      BY <1>00, <2>2, <2>5
    <2> QED
      BY Zenon, <1>00, <2>1, <2>3, <2>4, <2>5, <2>6
  <1>11. CASE CloseIdleConnection
    <2>1. /\ closeList # <<>>
          /\ closing' = closing - 1
          /\ closeList' = Tail(closeList)
          /\ UNCHANGED <<inUse, creating, pc, result>>
      BY <1>11 DEF CloseIdleConnection
    <2>2. Len(closeList') = Len(closeList) - 1
      BY <1>0, <2>1 DEF FieldTypes
    <2>3. Borrowers' = Borrowers /\ Reservers' = Reservers /\ Closing' = Closing
      BY <2>1 DEF Borrowers, Borrows, Reservers, Reserves, Closing, Closes
    <2>4. IsFiniteSet(Closing) /\ Cardinality(Closing) \in Nat
      BY ConfAssumption, FS_Subset, FS_CardinalityType DEF Closing
    <2> QED
      BY <1>00, <1>000, <2>1, <2>2, <2>3, <2>4
  <1>12. CASE \/ \E k \in Closers : PoolCloseAgain(k) \/ PoolCloseReturns(k) \/ PoolCloseExpires(k)
              \/ UNCHANGED vars
    <2>1. UNCHANGED <<inUse, creating, closing, closeList, result, pc>>
      BY <1>12 DEF PoolCloseAgain, PoolCloseReturns, PoolCloseExpires, vars
    <2>2. Borrowers' = Borrowers /\ Reservers' = Reservers /\ Closing' = Closing
      BY <2>1 DEF Borrowers, Borrows, Reservers, Reserves, Closing, Closes
    <2> QED
      BY <1>00, <2>1, <2>2
  <1> QED
    BY <1>1, <1>2, <1>3, <1>4, <1>5, <1>6, <1>7, <1>8, <1>9, <1>10, <1>11, <1>12
    DEF Next, Progress

-----------------------------------------------------------------------------
(* The shutdown *)

NaturalCounters ==
    /\ inUse \in Nat /\ creating \in Nat /\ closing \in Nat
    /\ inUse = 0 => \A p \in Callers : ~Borrows(p)

\* The counters are natural numbers, because each counts a finite set.
LEMMA CountersNat == FieldTypes /\ Accounting => NaturalCounters
  <1> SUFFICES ASSUME FieldTypes, Accounting PROVE NaturalCounters
    OBVIOUS
  <1>1. /\ inUse = Cardinality(Borrowers)
        /\ creating = Cardinality(Reservers)
        /\ closing = Cardinality(Closing) + Len(closeList)
    BY AccountingSets
  <1>2. /\ IsFiniteSet(Borrowers) /\ Cardinality(Borrowers) \in Nat
        /\ Cardinality(Reservers) \in Nat
        /\ Cardinality(Closing) \in Nat
    BY ConfAssumption, FS_Subset, FS_CardinalityType DEF Borrowers, Reservers, Closing
  <1>3. Len(closeList) \in Nat
    BY DEF FieldTypes
  <1>4. Cardinality(Borrowers) = 0 => Borrowers = {}
    BY <1>2, FS_EmptySet
  <1> QED
    BY <1>1, <1>2, <1>3, <1>4 DEF Borrowers, NaturalCounters

\* The same after a step.
LEMMA CountersNatNext == FieldTypes' /\ Accounting' => NaturalCounters'
  BY CountersNat, PTL

\* A closed pool stays closed, keeps nothing idle and nobody queued, and gives
\* no connection to anybody any more.
LEMMA ClosedStep ==
  ASSUME IInv, [Next]_vars, closed
  PROVE  /\ closed' /\ idle' = idle /\ waiters' = waiters
         /\ \A p \in Callers : Borrows(p)' => Borrows(p)
  <1>0. FieldTypes /\ waiters = <<>> /\ Len(waiters) = 0
    BY DEF IInv, Shutdown, ShutdownIsFinal
  <1>1. ASSUME NEW p \in Callers,
               UNCHANGED <<closed, idle, waiters>>,
               \E loc \in Locations : pc' = [pc EXCEPT ![p] = loc] /\ (loc \in {"using", "returning", "discarding"} => Borrows(p)),
               \A r \in Callers : result'[r] = "conn" => result[r] = "conn"
        PROVE  /\ closed' /\ idle' = idle /\ waiters' = waiters
               /\ \A r \in Callers : Borrows(r)' => Borrows(r)
    BY <1>0, <1>1 DEF FieldTypes, Borrows
  <1>2. ASSUME NEW p \in Callers, Get(p) PROVE UNCHANGED vars
    BY <1>2 DEF Get, GetClosed, GetIdle, GetStale, GetNew, GetQueueFull, GetWait
  <1>3. ASSUME NEW p \in Callers, Release(p) \/ StopWaiting(p)
        PROVE  /\ UNCHANGED <<closed, idle, waiters, result>>
               /\ \E loc \in Locations : pc' = [pc EXCEPT ![p] = loc] /\ (loc \in {"using", "returning", "discarding"} => Borrows(p))
    BY Zenon, <1>3 DEF Release, Close, Discard, BeginRelease, StopWaiting, Locations, Borrows
  <1>4. ASSUME NEW p \in Callers, Progress(p)
        PROVE  /\ UNCHANGED <<closed, idle, waiters>>
               /\ \E loc \in Locations : pc' = [pc EXCEPT ![p] = loc] /\ (loc \in {"using", "returning", "discarding"} => Borrows(p))
               /\ result' = result \/ result' = [result EXCEPT ![p] = "none"]
    <2>1. CASE ReplaceStale(p) \/ CloseDone(p)
      BY Zenon, <2>1 DEF ReplaceStale, CloseDone, AfterPhysicalClose, Leave, Locations
    <2>2. CASE \E c \in Conns : CreateDone(p, c) \/ CreateDoneClosed(p, c)
      BY <2>2 DEF CreateDone, CreateDoneClosed, BeginPhysicalClose, Locations
    <2>3. CASE CreateFailed(p) \/ CreateFailedClosed(p)
      BY <2>3 DEF CreateFailed, CreateFailedClosed, Leave, Locations
    <2>4. CASE ReceiveConn(p)
      BY <2>4 DEF ReceiveConn, Received, Locations, Borrows
    <2>5. CASE ReceiveClosed(p) \/ ReceiveCreate(p) \/ ReceiveCreateClosed(p)
      BY Zenon, <2>5 DEF ReceiveClosed, ReceiveCreate, ReceiveCreateClosed, Leave, Locations
    <2>6. CASE CancelWaiter(p)
      <3>1. PICK i \in 1..Len(waiters) : waiters[i] = p
        BY <2>6 DEF CancelWaiter
      <3>2. Len(waiters) = 0
        BY <1>0
      <3> QED
        BY <3>1, <3>2
    <2>7. CASE DiscardClose(p) \/ PutClosed(p)
      BY Zenon, <2>7 DEF DiscardClose, PutClosed, BeginPhysicalClose, Locations
    <2>8. CASE PutHandoff(p) \/ PutUnusable(p) \/ PutIdle(p) \/ PutEvict(p)
      BY <2>8 DEF PutHandoff, PutUnusable, PutIdle, PutEvict
    <2> QED
      BY Zenon, <1>4, <2>1, <2>2, <2>3, <2>4, <2>5, <2>6, <2>7, <2>8 DEF Progress
  <1>5. ASSUME NEW p \in Callers, Release(p) \/ StopWaiting(p) \/ Progress(p)
        PROVE  \A r \in Callers : result'[r] = "conn" => result[r] = "conn"
    BY Zenon, <1>0, <1>3, <1>4, <1>5 DEF FieldTypes
  <1>6. CASE \/ \E k \in Closers : \/ PoolClose(k) \/ PoolCloseAgain(k)
                                   \/ PoolCloseReturns(k) \/ PoolCloseExpires(k)
             \/ CloseIdleConnection
             \/ UNCHANGED vars
    <2>1. UNCHANGED <<closed, idle, waiters, pc, result>>
      BY Zenon, <1>6 DEF PoolClose, PoolCloseAgain, PoolCloseReturns, PoolCloseExpires,
                  CloseIdleConnection, vars
    <2> QED
      BY <2>1 DEF Borrows
  <1>7. UNCHANGED vars => /\ closed' /\ idle' = idle /\ waiters' = waiters
                          /\ \A r \in Callers : Borrows(r)' => Borrows(r)
    BY DEF vars, Borrows
  <1> QED
    BY Zenon, <1>1, <1>2, <1>3, <1>4, <1>5, <1>6, <1>7 DEF Next

\* The step that closes closeDone finds the pool closed and nothing borrowed.
LEMMA FinishStep ==
  ASSUME IInv, [Next]_vars, FieldTypes', Accounting', ~closeEnded, closeEnded'
  PROVE  closed' /\ inUse' = 0
  <1>0. /\ inUse \in Nat /\ creating \in Nat /\ closing \in Nat
        /\ inUse' \in Nat /\ creating' \in Nat /\ closing' \in Nat
        /\ Len(idle) \in Nat
    BY CountersNat, CountersNatNext DEF IInv, FieldTypes, NaturalCounters
  <1>1. ASSUME NEW p \in Callers, ReplaceStale(p) \/ CloseDone(p) PROVE closed' /\ inUse' = 0
    <2>1. /\ closed' = closed /\ inUse' = inUse /\ closing' = closing - 1
          /\ closed /\ CapacityUsed - 1 = 0
      BY Zenon, <1>1 DEF ReplaceStale, CloseDone, AfterPhysicalClose, FinishClose
    <2> QED
      BY <1>0, <2>1 DEF CapacityUsed
  <1>2. ASSUME NEW p \in Callers, CreateFailedClosed(p) \/ ReceiveCreateClosed(p)
        PROVE  closed' /\ inUse' = 0
    <2>1. /\ closed' = closed /\ inUse' = inUse /\ creating' = creating - 1
          /\ closed /\ CapacityUsed - 1 = 0
      BY Zenon, <1>2 DEF CreateFailedClosed, ReceiveCreateClosed, FinishClose
    <2> QED
      BY <1>0, <2>1 DEF CapacityUsed
  <1>3. ASSUME NEW k \in Closers, PoolClose(k) PROVE closed' /\ inUse' = 0
    <2>1. closed' /\ inUse' = inUse /\ CapacityUsed = 0
      BY Zenon, <1>3 DEF PoolClose, FinishClose
    <2> QED
      BY <1>0, <2>1 DEF CapacityUsed
  <1>4. CASE CloseIdleConnection
    <2>1. /\ closed' = closed /\ inUse' = inUse /\ closing' = closing - 1
          /\ closed /\ CapacityUsed - 1 = 0
      BY Zenon, <1>4 DEF CloseIdleConnection, FinishClose
    <2> QED
      BY <1>0, <2>1 DEF CapacityUsed
  <1>5. \/ \E p \in Callers : \/ ReplaceStale(p) \/ CloseDone(p)
                              \/ CreateFailedClosed(p) \/ ReceiveCreateClosed(p)
        \/ \E k \in Closers : PoolClose(k)
        \/ CloseIdleConnection
    <2>1. ASSUME NEW p \in Callers, Get(p) \/ Release(p) \/ StopWaiting(p) PROVE FALSE
      BY Zenon, <2>1 DEF Get, GetClosed, GetIdle, GetStale, GetNew, GetQueueFull, GetWait, Release, Close,
                  Discard, BeginRelease, StopWaiting, vars
    <2>2. ASSUME NEW p \in Callers,
                 \/ \E c \in Conns : CreateDone(p, c) \/ CreateDoneClosed(p, c)
                 \/ CreateFailed(p) \/ ReceiveConn(p) \/ ReceiveClosed(p) \/ ReceiveCreate(p)
                 \/ CancelWaiter(p)
          PROVE  FALSE
      BY Zenon, <2>2 DEF CreateDone, CreateDoneClosed, CreateFailed, ReceiveConn, ReceiveClosed,
                  ReceiveCreate, CancelWaiter
    <2>3. ASSUME NEW p \in Callers,
                 \/ DiscardClose(p) \/ PutClosed(p) \/ PutHandoff(p) \/ PutUnusable(p)
                 \/ PutIdle(p) \/ PutEvict(p)
          PROVE  FALSE
      BY Zenon, <2>3 DEF DiscardClose, PutClosed, PutHandoff, PutUnusable, PutIdle, PutEvict
    <2>4. ASSUME \/ \E k \in Closers : \/ PoolCloseAgain(k) \/ PoolCloseReturns(k)
                                       \/ PoolCloseExpires(k)
                 \/ UNCHANGED vars
          PROVE  FALSE
      BY Zenon, <2>4 DEF PoolCloseAgain, PoolCloseReturns, PoolCloseExpires, vars
    <2> QED
      BY <2>1, <2>2, <2>3, <2>4 DEF Next, Progress
  <1> QED
    BY <1>1, <1>2, <1>3, <1>4, <1>5

\* An open pool is closed only by Gpool.Close, which empties the ring and the
\* queue; only Gpool.Close fills the list of connections to close.
LEMMA OpenStep ==
  ASSUME IInv, [Next]_vars, ~closed
  PROVE  /\ closed' => idle' = <<>> /\ waiters' = <<>>
         /\ ~closed' => closeList' = <<>>
  <1>0. closeList = <<>>
    BY DEF IInv, Shutdown
  <1>1. ASSUME NEW k \in Closers, PoolClose(k) PROVE closed' /\ idle' = <<>> /\ waiters' = <<>>
    BY Zenon, <1>1 DEF PoolClose
  <1>2. ASSUME NEW p \in Callers, Get(p) \/ Release(p) \/ StopWaiting(p)
        PROVE  UNCHANGED <<closed, closeList>>
    BY <1>2 DEF Get, GetClosed, GetIdle, GetStale, GetNew, GetQueueFull, GetWait, Release, Close,
                Discard, BeginRelease, StopWaiting, vars
  <1>3. ASSUME NEW p \in Callers, Progress(p) PROVE UNCHANGED <<closed, closeList>>
    BY Zenon, <1>3 DEF Progress, ReplaceStale, CreateDone, CreateDoneClosed, CreateFailed,
                CreateFailedClosed, ReceiveConn, ReceiveClosed, ReceiveCreate,
                ReceiveCreateClosed, CancelWaiter, DiscardClose, PutClosed, PutHandoff,
                PutUnusable, PutIdle, PutEvict, CloseDone
  <1>4. ~CloseIdleConnection
    BY <1>0 DEF CloseIdleConnection
  <1>5. ASSUME \/ \E k \in Closers : \/ PoolCloseAgain(k) \/ PoolCloseReturns(k)
                                     \/ PoolCloseExpires(k)
               \/ UNCHANGED vars
        PROVE  UNCHANGED <<closed, closeList>>
    BY <1>5 DEF PoolCloseAgain, PoolCloseReturns, PoolCloseExpires, vars
  <1> QED
    BY <1>0, <1>1, <1>2, <1>3, <1>4, <1>5 DEF Next

\* ShutdownIsFinal is preserved, given that the counters stay exact.
LEMMA ShutdownStep == IInv /\ [Next]_vars /\ FieldTypes' /\ Accounting' => Shutdown'
  <1> SUFFICES ASSUME IInv, [Next]_vars, FieldTypes', Accounting' PROVE Shutdown'
    OBVIOUS
  <1>0. Shutdown
    BY DEF IInv
  <1>1. closed' => idle' = <<>> /\ waiters' = <<>>
    BY <1>0, ClosedStep, OpenStep DEF Shutdown, ShutdownIsFinal
  <1>2. ~closed' => closeList' = <<>>
    BY <1>0, ClosedStep, OpenStep
  <1>3. closeEnded' => closed' /\ \A p \in Callers : ~Borrows(p)'
    <2>1. CASE closeEnded
      BY <1>0, <2>1, ClosedStep DEF Shutdown, ShutdownIsFinal
    <2>2. CASE ~closeEnded
      <3>1. inUse' = 0 => \A p \in Callers : ~Borrows(p)'
        BY CountersNatNext DEF NaturalCounters
      <3> QED
        BY <2>2, <3>1, FinishStep
    <2> QED
      BY <2>1, <2>2
  <1> QED
    BY <1>1, <1>2, <1>3 DEF Shutdown, ShutdownIsFinal

-----------------------------------------------------------------------------
(* The invariant *)

\* GpoolInit2 establishes the invariant, however many initial connections failed.
LEMMA InitInv == Init => IInv
  <1> SUFFICES ASSUME Init PROVE IInv
    OBVIOUS
  <1>1. PICK n \in 0..MaxIdleConns : idle \in [1..n -> Conns]
    BY DEF Init
  <1>2. n \in Nat /\ n <= MaxConns
    BY <1>1, Limits, ConfAssumption
  <1>3. idle \in Seq(Conns) /\ Len(idle) = n
    <2>1. DOMAIN idle = 1..n /\ \A i \in 1..n : idle[i] \in Conns
      BY <1>1
    <2>2. idle \in Seq(Conns)
      BY <1>1, <1>2
    <2>3. DOMAIN idle = 1..Len(idle) /\ Len(idle) \in Nat
      BY <2>2
    <2> QED
      BY <1>2, <2>1, <2>2, <2>3
  <1>4. FieldTypes
    <2>1. waiters \in Seq(Callers) /\ closeList \in Seq(Conns)
      <3>1. waiters = <<>> /\ closeList = <<>>
        BY DEF Init
      <3> QED
        BY <3>1
    <2>2. /\ result \in [Callers -> Results] /\ pc \in [Callers -> Locations]
          /\ connState \in [Conns -> ConnStates]
          /\ conn \in [Callers -> Conns \cup {NoConn}]
          /\ closer \in [Closers -> CloserLocations]
      BY DEF Init, Results, ConnStates, Locations, CloserLocations
    <2>3. /\ inUse \in Int /\ creating \in Int /\ closing \in Int
      BY DEF Init
    <2>4. closed = FALSE /\ closeEnded = FALSE
      BY DEF Init
    <2> QED
      BY Zenon, <1>3, <2>1, <2>2, <2>3, <2>4 DEF FieldTypes
  <1>5. Len(waiters) = 0 /\ Len(closeList) = 0
    BY DEF Init
  <1>6. QueueShape
    BY <1>5 DEF Init, QueueShape, Distinct, Queued, Waits
  <1>7. \A p \in Callers : ~Borrows(p) /\ ~Reserves(p) /\ ~Closes(p) /\ conn[p] = NoConn
    BY DEF Init, Borrows, Reserves, Closes
  <1>8. Ownership
    <2>1. \A i \in 1..Len(idle) : idle[i] \in Conns /\ connState[idle[i]] = "idle"
      BY <1>3 DEF Init
    <2>2. SoleOwner
      <3>1. Distinct(idle)
        BY DEF Init
      <3>2. Distinct(closeList)
        BY <1>5 DEF Distinct
      <3>3. \A p \in Callers, i \in 1..Len(idle) : idle[i] # conn[p]
        BY <1>7, <2>1, ConfAssumption
      <3>4. \A i \in 1..Len(closeList) : FALSE
        BY <1>5
      <3> QED
        BY Zenon, <1>7, <3>1, <3>2, <3>3, <3>4 DEF SoleOwner
    <2>3. \A p \in Callers : pc[p] = "out" /\ result[p] = "none"
      BY DEF Init
    <2>4. \A p \in Callers :
             /\ conn[p] # NoConn <=> Borrows(p) \/ Closes(p)
             /\ result[p] = "conn" \/ pc[p] = "using" => connState[conn[p]] = "borrowed"
             /\ pc[p] \in {"returning", "discarding"} => connState[conn[p]] = "returning"
             /\ Closes(p) => connState[conn[p]] = "closing"
      BY <1>7, <2>3
    <2>5. \A i \in 1..Len(closeList) : connState[closeList[i]] = "closing"
      BY <1>5
    <2> QED
      BY <2>1, <2>2, <2>4, <2>5 DEF Ownership
  <1>9. Shutdown
    BY DEF Init, Shutdown, ShutdownIsFinal
  <1>10. NoLostWakeup /\ CapacityBound
    BY <1>2, <1>3, ConfAssumption DEF Init, NoLostWakeup, CapacityBound, CapacityUsed
  <1>11. Borrowers = {} /\ Reservers = {} /\ Closing = {}
    BY <1>7 DEF Borrowers, Reservers, Closing
  <1>12. Accounting
    BY <1>5, <1>11, FS_EmptySet, AccountingSets DEF Init
  <1> QED
    BY <1>4, <1>6, <1>8, <1>9, <1>10, <1>12 DEF IInv

\* Every critical section preserves the invariant.
LEMMA StepInv == IInv /\ [Next]_vars => IInv'
  <1> SUFFICES ASSUME IInv, [Next]_vars PROVE IInv'
    OBVIOUS
  <1>1. FieldTypes' /\ QueueShape' /\ Ownership' /\ NoLostWakeup' /\ CapacityBound' /\ Accounting'
    BY TypesStep, QueueStep, OwnershipStep, CapacityStep, AccountingStep
  <1>2. Shutdown'
    BY <1>1, ShutdownStep
  <1> QED
    BY <1>1, <1>2 DEF IInv

-----------------------------------------------------------------------------
(* The steps of the pool are steps of the lending service, LeasePool.tla *)

\* What is lent, caller by caller.
LEMMA LeaseAt ==
  \A p \in Callers : Lease[p] = IF Borrows(p) THEN conn[p] ELSE NoConn
  BY DEF Lease

\* A step that lends and takes back nothing: nobody notices, unless it is the
\* one that completes the shutdown.
LEMMA LeaseKept ==
  ASSUME IInv, IInv', closed' = closed, closeEnded => closeEnded',
         \A p \in Callers : Borrows(p)' <=> Borrows(p),
         \A p \in Callers : Borrows(p) => conn'[p] = conn[p]
  PROVE  [LP!LNext]_<<Lease, closed, closeEnded>>
  <1>1. Lease' = Lease
    BY DEF Lease
  <1>2. closeEnded \in BOOLEAN /\ closeEnded' \in BOOLEAN
    BY DEF IInv, FieldTypes
  <1>3. CASE closeEnded' = closeEnded
    BY <1>1, <1>3
  <1>4. CASE closeEnded' # closeEnded
    <2>1. closeEnded' = TRUE
      BY <1>2, <1>4
    <2>2. closed' /\ \A p \in Callers : ~Borrows(p)'
      BY <2>1 DEF IInv, Shutdown, ShutdownIsFinal
    <2>3. \A p \in Callers : Lease[p] = NoConn
      BY <2>2 DEF Lease
    <2>4. LP!Drain
      BY <1>1, <2>1, <2>2, <2>3 DEF LP!Drain
    <2> QED
      BY <2>4 DEF LP!LNext
  <1> QED
    BY <1>3, <1>4

\* p is lent a connection that nobody has.
LEMMA LeaseGranted ==
  ASSUME IInv, NEW p \in Callers, NEW c \in Conns, ~closed,
         UNCHANGED <<closed, closeEnded, result>>,
         ~Borrows(p), pc' = [pc EXCEPT ![p] = "using"], conn' = [conn EXCEPT ![p] = c],
         \A q \in Callers : conn[q] # c
  PROVE  LP!Grant(p, c)
  <1>1. /\ pc \in [Callers -> Locations] /\ conn \in [Callers -> Conns \cup {NoConn}]
        /\ c # NoConn
    BY ConfAssumption DEF IInv, FieldTypes
  <1>2. \A q \in Callers : Borrows(q)' <=> Borrows(q) \/ q = p
    BY <1>1 DEF Borrows
  <1>3. \A q \in Callers : conn'[q] = IF q = p THEN c ELSE conn[q]
    BY <1>1
  <1>4. Lease' = [Lease EXCEPT ![p] = c]
    BY Zenon, <1>2, <1>3 DEF Lease
  <1>5. Lease[p] = NoConn /\ \A q \in Callers : Lease[q] # c
    BY <1>1 DEF Lease
  <1> QED
    BY <1>4, <1>5 DEF LP!Grant, LP!Free

\* p gives its connection back.
LEMMA LeaseReverted ==
  ASSUME IInv, NEW p \in Callers, pc[p] \in {"returning", "discarding"},
         UNCHANGED <<closed, closeEnded, result>>,
         NEW loc \in {"out", "closing"}, pc' = [pc EXCEPT ![p] = loc],
         \A q \in Callers \ {p} : conn'[q] = conn[q]
  PROVE  LP!Revert(p)
  <1>1. pc \in [Callers -> Locations]
    BY DEF IInv, FieldTypes
  <1>2. result[p] = "none"
    BY OutsideQueue DEF IInv, Waits
  <1>3. \A q \in Callers : Borrows(q)' <=> Borrows(q) /\ q # p
    BY <1>1, <1>2 DEF Borrows
  <1>4. Borrows(p) /\ conn[p] # NoConn
    BY DEF IInv, Ownership, Borrows
  <1>5. Lease' = [Lease EXCEPT ![p] = NoConn]
    BY Zenon, <1>3 DEF Lease
  <1>6. Lease[p] # NoConn
    BY <1>4 DEF Lease
  <1> QED
    BY <1>5, <1>6 DEF LP!Revert

\* put's direct handoff: the loan passes to the oldest waiter.
LEMMA LeaseHandedOver ==
  ASSUME IInv, NEW p \in Callers, PutHandoff(p)
  PROVE  LP!HandOver(p, Head(waiters))
  <1>1. PICK w \in Callers : w = Head(waiters) /\ In(w, waiters)
    BY TailSplits DEF IInv, FieldTypes, QueueShape, PutHandoff
  <1>2. Waits(w) /\ result[w] = "none" /\ w # p /\ pc[p] = "returning"
    BY <1>1 DEF IInv, QueueShape, Queued, In, Waits, PutHandoff
  <1>3. conn[w] = NoConn /\ ~Borrows(w)
    BY <1>2, HoldsNothing DEF IInv
  <1>4. result[p] = "none" /\ Borrows(p) /\ conn[p] # NoConn
    BY <1>2, OutsideQueue DEF IInv, Ownership, Borrows, Waits
  <1>5. /\ pc' = [pc EXCEPT ![p] = "out"] /\ result' = [result EXCEPT ![w] = "conn"]
        /\ conn' = [conn EXCEPT ![p] = NoConn, ![w] = conn[p]]
        /\ ~closed /\ closed' = closed /\ closeEnded' = closeEnded
    BY <1>1 DEF PutHandoff
  <1>6. /\ pc \in [Callers -> Locations] /\ result \in [Callers -> Results]
        /\ conn \in [Callers -> Conns \cup {NoConn}]
    BY DEF IInv, FieldTypes
  <1>7. \A q \in Callers : Borrows(q)' <=> (Borrows(q) /\ q # p) \/ q = w
    BY <1>2, <1>4, <1>5, <1>6 DEF Borrows, Waits
  <1>8. \A q \in Callers : q # p => conn'[q] = IF q = w THEN conn[p] ELSE conn[q]
    BY <1>2, <1>5, <1>6
  <1>9. Lease[p] = conn[p] /\ Lease[w] = NoConn
    BY <1>3, <1>4 DEF Lease
  <1>10. Lease' = [Lease EXCEPT ![p] = NoConn, ![w] = Lease[p]]
    BY Zenon, <1>2, <1>7, <1>8, <1>9 DEF Lease
  <1> QED
    BY Zenon, <1>1, <1>4, <1>5, <1>9, <1>10 DEF LP!HandOver

\* The first Close: nothing that is lent changes.
LEMMA LeaseShut ==
  ASSUME IInv, IInv', NEW k \in Closers, PoolClose(k)
  PROVE  LP!Shut
  <1>1. ~closed /\ closed' = TRUE /\ pc' = pc /\ conn' = conn
    BY DEF PoolClose
  <1>2. \A p \in Callers : result'[p] = "conn" <=> result[p] = "conn"
    BY DEF PoolClose, IInv, QueueShape
  <1>3. \A p \in Callers : Borrows(p)' <=> Borrows(p)
    BY <1>1, <1>2 DEF Borrows
  <1>4. Lease' = Lease
    BY <1>1, <1>3 DEF Lease
  <1>5. closeEnded' \in BOOLEAN /\ (closeEnded' => \A p \in Callers : ~Borrows(p)')
    BY DEF IInv, FieldTypes, Shutdown, ShutdownIsFinal
  <1>6. closeEnded' => \A p \in Callers : Lease[p] = NoConn
    BY <1>3, <1>5 DEF Lease
  <1>7. closeEnded' \in {FALSE, \A p \in Callers : Lease[p] = NoConn}
    BY Zenon, <1>5, <1>6
  <1> QED
    BY Zenon, <1>1, <1>4, <1>7 DEF LP!Shut


\* A caller without a loan goes on without one.
LEMMA LeaseUnmoved ==
  ASSUME IInv, IInv', NEW p \in Callers, ~Borrows(p),
         NEW loc \in Locations \ {"using", "returning", "discarding"},
         pc' = [pc EXCEPT ![p] = loc],
         \A r \in Callers : result'[r] = "conn" <=> result[r] = "conn",
         \A r \in Callers \ {p} : conn'[r] = conn[r],
         closed' = closed, closeEnded => closeEnded'
  PROVE  [LP!LNext]_<<Lease, closed, closeEnded>>
  <1>1. \A r \in Callers : Borrows(r)' <=> Borrows(r)
    BY DEF IInv, FieldTypes, Borrows
  <1>2. \A r \in Callers : Borrows(r) => conn'[r] = conn[r]
    OBVIOUS
  <1> QED
    BY <1>1, <1>2, LeaseKept

\* Slots are handed out to callers that have nothing yet.
LEMMA SlotsAreNoLoans ==
  ASSUME IInv, NEW q \in Seq(Callers), Distinct(q), NEW used \in Int, NEW reserved \in Int,
         DispatchCapacityWaiters(q, used, reserved),
         \A r \in Callers : In(r, q) => result[r] = "none"
  PROVE  \A r \in Callers : result'[r] = "conn" <=> result[r] = "conn"
  BY DispatchKeepsLoans DEF IInv

LEMMA GetLends ==
  ASSUME IInv, IInv', NEW p \in Callers, Get(p)
  PROVE  [LP!LNext]_<<Lease, closed, closeEnded>>
  <1>1. pc[p] = "out" /\ conn[p] = NoConn /\ ~Borrows(p) /\ result[p] = "none"
    <2>1. pc[p] = "out"
      BY Zenon DEF Get, GetClosed, GetIdle, GetStale, GetNew, GetQueueFull, GetWait
    <2> QED
      BY <2>1, HoldsNothing, OutsideQueue DEF IInv, Waits
  <1>2. CASE GetClosed(p) \/ GetQueueFull(p)
    BY <1>2, LeaseKept DEF GetClosed, GetQueueFull, vars, Borrows
  <1>3. CASE GetIdle(p)
    <2>1. PICK c \in Conns : c = idle[PopIndex] /\ \A q \in Callers : conn[q] # c
      BY <1>3, PopTypes, Apart DEF GetIdle, IInv
    <2>2. LP!Grant(p, c)
      BY Zenon, <1>1, <1>3, <2>1, LeaseGranted DEF GetIdle
    <2> QED
      BY <2>2 DEF LP!LNext
  <1>4. CASE GetStale(p)
    <2>1. /\ pc' = [pc EXCEPT ![p] = "replacing"] /\ result' = result
          /\ closed' = closed /\ closeEnded' = closeEnded
          /\ \A r \in Callers \ {p} : conn'[r] = conn[r]
      BY <1>4 DEF GetStale, BeginPhysicalClose, IInv, FieldTypes
    <2> QED
      BY Zenon, <1>1, <2>1, LeaseUnmoved DEF Locations
  <1>5. CASE GetNew(p)
    <2>1. /\ pc' = [pc EXCEPT ![p] = "creating"] /\ result' = result
          /\ closed' = closed /\ closeEnded' = closeEnded /\ conn' = conn
      BY <1>5 DEF GetNew
    <2> QED
      BY Zenon, <1>1, <2>1, LeaseUnmoved DEF Locations
  <1>6. CASE GetWait(p)
    <2>1. /\ pc' = [pc EXCEPT ![p] = "waiting"] /\ conn' = conn
          /\ closed' = closed /\ closeEnded' = closeEnded
          /\ DispatchCapacityWaiters(Append(waiters, p), CapacityUsed, creating)
      BY <1>6 DEF GetWait
    <2>2. ~In(p, waiters) /\ waiters \in Seq(Callers) /\ Distinct(waiters)
      BY Zenon, <1>1, OutsideQueue DEF IInv, FieldTypes, QueueShape, Waits
    <2>3. /\ Append(waiters, p) \in Seq(Callers)
          /\ Distinct(Append(waiters, p))
          /\ \A r \in Callers : In(r, Append(waiters, p)) <=> In(r, waiters) \/ r = p
      BY <2>2, AppendJoins
    <2>4. CapacityUsed \in Int /\ creating \in Int
      BY UsedType DEF IInv, FieldTypes
    <2>5. \A r \in Callers : In(r, Append(waiters, p)) => result[r] = "none"
      BY <1>1, <2>3 DEF IInv, QueueShape, Queued, In
    <2>6. \A r \in Callers : result'[r] = "conn" <=> result[r] = "conn"
      BY Zenon, <2>1, <2>3, <2>4, <2>5, SlotsAreNoLoans
    <2> QED
      BY Zenon, <1>1, <2>1, <2>6, LeaseUnmoved DEF Locations
  <1> QED
    BY Zenon, <1>2, <1>3, <1>4, <1>5, <1>6 DEF Get

\* A physical close ends: its slot may go to a waiter.
LEMMA PhysicalCloseLends ==
  ASSUME IInv, NEW p \in Callers, NEW more \in {0, 1}, AfterPhysicalClose(p, more)
  PROVE  /\ \A r \in Callers : result'[r] = "conn" <=> result[r] = "conn"
         /\ closeEnded => closeEnded'
  <1>1. CASE closed
    BY Zenon, <1>1 DEF AfterPhysicalClose, FinishClose
  <1>2. CASE ~closed
    <2>1. /\ DispatchCapacityWaiters(waiters, CapacityUsed - 1, creating + more)
          /\ closeEnded' = closeEnded
      BY Zenon, <1>2 DEF AfterPhysicalClose
    <2>2. CapacityUsed - 1 \in Int /\ creating + more \in Int /\ waiters \in Seq(Callers)
          /\ Distinct(waiters)
      BY UsedType DEF IInv, FieldTypes, QueueShape
    <2>3. \A r \in Callers : In(r, waiters) => result[r] = "none"
      BY DEF IInv, QueueShape, Queued, In
    <2> QED
      BY <2>1, <2>2, <2>3, SlotsAreNoLoans
  <1> QED
    BY <1>1, <1>2

LEMMA ProgressLends ==
  ASSUME IInv, IInv', NEW p \in Callers, Progress(p)
  PROVE  [LP!LNext]_<<Lease, closed, closeEnded>>
  <1>1. CASE ReplaceStale(p) \/ CloseDone(p)
    <2>1. PICK more \in {0, 1}, loc \in {"creating", "out"} :
             /\ AfterPhysicalClose(p, more) /\ pc' = [pc EXCEPT ![p] = loc]
             /\ pc[p] \in {"replacing", "closing"}
             /\ conn' = [conn EXCEPT ![p] = NoConn] /\ closed' = closed
      BY <1>1 DEF ReplaceStale, CloseDone, Leave
    <2>2. ~Borrows(p)
      BY Zenon, <2>1, OutsideQueue DEF IInv, Borrows, Waits
    <2>3. \A r \in Callers \ {p} : conn'[r] = conn[r]
      BY <2>1 DEF IInv, FieldTypes
    <2> QED
      BY Zenon, <2>1, <2>2, <2>3, PhysicalCloseLends, LeaseUnmoved DEF Locations
  <1>2. ASSUME NEW c \in Conns, CreateDone(p, c) PROVE LP!Grant(p, c)
    <2>1. pc[p] = "creating" /\ connState[c] = "closed" /\ ~closed
          /\ pc' = [pc EXCEPT ![p] = "using"] /\ conn' = [conn EXCEPT ![p] = c]
          /\ UNCHANGED <<closed, closeEnded, result>>
      BY <1>2 DEF CreateDone
    <2>2. ~Borrows(p)
      BY <2>1, HoldsNothing DEF IInv
    <2>3. ASSUME NEW q \in Callers, conn[q] = c PROVE FALSE
      <3>1. conn[q] # NoConn
        BY <2>3, ConfAssumption
      <3>2. Borrows(q) \/ Closes(q)
        BY Zenon, <3>1 DEF IInv, Ownership
      <3>3. connState[conn[q]] \in {"borrowed", "returning", "closing"}
        BY Zenon, <3>2 DEF IInv, Ownership, Borrows
      <3> QED
        BY <2>1, <2>3, <3>3
    <2> QED
      BY Zenon, <2>1, <2>2, <2>3, LeaseGranted
  <1>3. ASSUME NEW c \in Conns, CreateDoneClosed(p, c)
        PROVE  [LP!LNext]_<<Lease, closed, closeEnded>>
    <2>1. /\ pc[p] = "creating" /\ pc' = [pc EXCEPT ![p] = "closing"]
          /\ UNCHANGED <<closed, closeEnded, result>>
          /\ conn' = [conn EXCEPT ![p] = c]
      BY <1>3 DEF CreateDoneClosed, BeginPhysicalClose
    <2>2. ~Borrows(p) /\ \A r \in Callers \ {p} : conn'[r] = conn[r]
      BY Zenon, <2>1, HoldsNothing DEF IInv, FieldTypes
    <2> QED
      BY Zenon, <2>1, <2>2, LeaseUnmoved DEF Locations
  <1>4. CASE CreateFailed(p) \/ CreateFailedClosed(p)
    <2>1. /\ pc[p] = "creating" /\ pc' = [pc EXCEPT ![p] = "out"]
          /\ conn' = [conn EXCEPT ![p] = NoConn] /\ closed' = closed
      BY Zenon, <1>4 DEF CreateFailed, CreateFailedClosed, Leave
    <2>2. ~Borrows(p) /\ \A r \in Callers \ {p} : conn'[r] = conn[r]
      BY Zenon, <2>1, HoldsNothing DEF IInv, FieldTypes
    <2>3. /\ \A r \in Callers : result'[r] = "conn" <=> result[r] = "conn"
          /\ closeEnded => closeEnded'
      <3>1. CASE CreateFailed(p)
        <4>1. /\ DispatchCapacityWaiters(waiters, CapacityUsed - 1, creating - 1)
              /\ closeEnded' = closeEnded
          BY <3>1 DEF CreateFailed
        <4>2. CapacityUsed - 1 \in Int /\ creating - 1 \in Int /\ waiters \in Seq(Callers)
              /\ Distinct(waiters)
          BY UsedType DEF IInv, FieldTypes, QueueShape
        <4>3. \A r \in Callers : In(r, waiters) => result[r] = "none"
          BY DEF IInv, QueueShape, Queued, In
        <4> QED
          BY <4>1, <4>2, <4>3, SlotsAreNoLoans
      <3>2. CASE CreateFailedClosed(p)
        BY Zenon, <3>2 DEF CreateFailedClosed, FinishClose
      <3> QED
        BY Zenon, <1>4, <3>1, <3>2
    <2> QED
      BY Zenon, <2>1, <2>2, <2>3, LeaseUnmoved DEF Locations
  <1>5. CASE ReceiveConn(p)
    <2>1. /\ result[p] = "conn" /\ result' = [result EXCEPT ![p] = "none"]
          /\ pc' = [pc EXCEPT ![p] = "using"] /\ UNCHANGED <<conn, closed, closeEnded>>
      BY <1>5 DEF ReceiveConn, Received
    <2>2. \A r \in Callers : Borrows(r)' <=> Borrows(r)
      BY Zenon, <2>1 DEF Borrows, IInv, FieldTypes
    <2> QED
      BY <2>1, <2>2, LeaseKept
  <1>6. CASE ReceiveClosed(p) \/ ReceiveCreateClosed(p)
    <2>1. /\ Waits(p) /\ result[p] # "conn" /\ result' = [result EXCEPT ![p] = "none"]
          /\ closed' = closed
      BY Zenon, <1>6 DEF ReceiveClosed, ReceiveCreateClosed, Received, Waits
    <2>2. pc' = [pc EXCEPT ![p] = "out"] /\ conn' = [conn EXCEPT ![p] = NoConn]
      BY Zenon, <1>6 DEF ReceiveClosed, ReceiveCreateClosed, Leave
    <2>3. closeEnded => closeEnded'
      BY Zenon, <1>6 DEF ReceiveClosed, ReceiveCreateClosed, FinishClose
    <2>4. /\ ~Borrows(p) /\ \A r \in Callers \ {p} : conn'[r] = conn[r]
          /\ \A r \in Callers : result'[r] = "conn" <=> result[r] = "conn"
      BY Zenon, <2>1, <2>2, HoldsNothing DEF IInv, FieldTypes
    <2> QED
      BY Zenon, <2>1, <2>2, <2>3, <2>4, LeaseUnmoved DEF Locations
  <1>10. CASE ReceiveCreate(p)
    <2>1. /\ Waits(p) /\ result[p] # "conn" /\ result' = [result EXCEPT ![p] = "none"]
          /\ pc' = [pc EXCEPT ![p] = "creating"]
          /\ UNCHANGED <<conn, closed, closeEnded>>
      BY <1>10 DEF ReceiveCreate, Received, Waits
    <2>2. /\ ~Borrows(p)
          /\ \A r \in Callers : result'[r] = "conn" <=> result[r] = "conn"
      BY Zenon, <2>1, HoldsNothing DEF IInv, FieldTypes
    <2> QED
      BY Zenon, <2>1, <2>2, LeaseUnmoved DEF Locations
  <1>7. CASE CancelWaiter(p)
    <2>1. PICK i \in 1..Len(waiters) :
             /\ waiters[i] = p
             /\ DispatchCapacityWaiters(Without(i), CapacityUsed, creating)
      BY <1>7 DEF CancelWaiter
    <2>2. /\ pc[p] = "cancelling" /\ pc' = [pc EXCEPT ![p] = "out"]
          /\ conn' = [conn EXCEPT ![p] = NoConn] /\ UNCHANGED <<closed, closeEnded>>
      BY <1>7 DEF CancelWaiter, Leave
    <2>3. result[p] = "none"
      BY Zenon, <2>1 DEF IInv, QueueShape, Queued
    <2>4. ~Borrows(p) /\ \A r \in Callers \ {p} : conn'[r] = conn[r]
      BY <2>2, <2>3 DEF IInv, FieldTypes, Borrows
    <2>5. /\ Without(i) \in Seq(Callers) /\ Distinct(Without(i))
          /\ \A r \in Callers : In(r, Without(i)) => In(r, waiters)
      BY Zenon, WithoutTypes, WithoutLeaves DEF IInv, QueueShape
    <2>6. \A r \in Callers : In(r, Without(i)) => result[r] = "none"
      BY Zenon, <2>5 DEF IInv, QueueShape, Queued, In
    <2>7. CapacityUsed \in Int /\ creating \in Int
      BY Zenon, UsedType DEF IInv, FieldTypes
    <2>8. \A r \in Callers : result'[r] = "conn" <=> result[r] = "conn"
      BY Zenon, <2>1, <2>5, <2>6, <2>7, SlotsAreNoLoans
    <2> QED
      BY Zenon, <2>2, <2>4, <2>8, LeaseUnmoved DEF Locations
  <1>8. CASE DiscardClose(p) \/ PutClosed(p) \/ PutUnusable(p) \/ PutIdle(p) \/ PutEvict(p)
    <2>1. PICK loc \in {"out", "closing"} :
             /\ pc[p] \in {"returning", "discarding"} /\ pc' = [pc EXCEPT ![p] = loc]
             /\ UNCHANGED <<closed, closeEnded, result>>
      BY <1>8 DEF DiscardClose, PutClosed, PutUnusable, PutIdle, PutEvict,
                  BeginPhysicalClose, Leave
    <2>2. \A r \in Callers \ {p} : conn'[r] = conn[r]
      BY Zenon, <1>8 DEF DiscardClose, PutClosed, PutUnusable, PutIdle, PutEvict,
                  BeginPhysicalClose, Leave, IInv, FieldTypes
    <2>3. LP!Revert(p)
      BY Zenon, <2>1, <2>2, LeaseReverted
    <2> QED
      BY Zenon, <2>3 DEF LP!LNext
  <1>9. CASE PutHandoff(p)
    <2>1. PICK w \in Callers : w = Head(waiters)
      BY Zenon, <1>9, TailSplits DEF IInv, FieldTypes, QueueShape, PutHandoff
    <2> QED
      BY <1>9, <2>1, LeaseHandedOver DEF LP!LNext
  <1> QED
    BY Zenon, <1>1, <1>2, <1>3, <1>4, <1>5, <1>6, <1>7, <1>8, <1>9, <1>10 DEF Progress, LP!LNext

\* Every critical section of the pool is a step of the lending service or none.
LEMMA LeaseStep == IInv /\ IInv' /\ [Next]_vars => [LP!LNext]_<<Lease, closed, closeEnded>>
  <1> SUFFICES ASSUME IInv, IInv', [Next]_vars
               PROVE  [LP!LNext]_<<Lease, closed, closeEnded>>
    OBVIOUS
  <1>1. ASSUME NEW p \in Callers, Release(p)
        PROVE  [LP!LNext]_<<Lease, closed, closeEnded>>
    <2>1. PICK loc \in {"returning", "discarding"} :
             /\ pc[p] = "using" /\ pc' = [pc EXCEPT ![p] = loc]
             /\ UNCHANGED <<result, conn, closed, closeEnded>>
      BY <1>1 DEF Release, Close, Discard, BeginRelease
    <2>2. \A r \in Callers : Borrows(r)' <=> Borrows(r)
      BY Zenon, <2>1 DEF Borrows, IInv, FieldTypes
    <2> QED
      BY Zenon, <2>1, <2>2, LeaseKept
  <1>2. ASSUME NEW p \in Callers, StopWaiting(p)
        PROVE  [LP!LNext]_<<Lease, closed, closeEnded>>
    <2>1. /\ pc[p] = "waiting" /\ pc' = [pc EXCEPT ![p] = "cancelling"]
          /\ UNCHANGED <<result, conn, closed, closeEnded>>
      BY Zenon, <1>2 DEF StopWaiting
    <2>2. \A r \in Callers : Borrows(r)' <=> Borrows(r)
      BY <2>1 DEF Borrows, IInv, FieldTypes
    <2> QED
      BY Zenon, <2>1, <2>2, LeaseKept
  <1>3. ASSUME NEW k \in Closers, PoolClose(k) PROVE LP!Shut
    BY Zenon, <1>3, LeaseShut
  <1>4. ASSUME NEW k \in Closers,
               PoolCloseAgain(k) \/ PoolCloseReturns(k) \/ PoolCloseExpires(k)
        PROVE  [LP!LNext]_<<Lease, closed, closeEnded>>
    BY <1>4, LeaseKept DEF PoolCloseAgain, PoolCloseReturns, PoolCloseExpires, Borrows
  <1>5. ASSUME CloseIdleConnection
        PROVE  [LP!LNext]_<<Lease, closed, closeEnded>>
    BY Zenon, <1>5, LeaseKept DEF CloseIdleConnection, FinishClose, Borrows
  <1>6. ASSUME UNCHANGED vars
        PROVE  [LP!LNext]_<<Lease, closed, closeEnded>>
    BY Zenon, <1>6, LeaseKept DEF vars, Borrows
  <1> QED
    BY Zenon, <1>1, <1>2, <1>3, <1>4, <1>5, <1>6, GetLends, ProgressLends DEF Next, LP!LNext


\* The pool starts open with nothing lent.
LEMMA LeaseStart == Init => LP!LInit
  BY DEF Init, LP!LInit, Lease, Borrows

-----------------------------------------------------------------------------
(* The theorems *)

\* The inductive invariant holds in every reachable state of the pool, for any
\* number of goroutines and connections and any limits.
THEOREM Invariance == Spec => []IInv
  BY InitInv, StepInv, PTL DEF Spec

\* The pool's fields keep their types, and none of the counters inUse, creating
\* and closing that Get, put, Discard and Close maintain ever goes negative.
THEOREM TypeCorrect == Spec => []TypeOK
  <1>1. IInv => TypeOK
    BY Zenon, CountersNat DEF IInv, FieldTypes, TypeOK, NaturalCounters
  <1> QED
    BY <1>1, Invariance, PTL

\* The counters capacityUsedLocked adds up are exact in every interleaving.
THEOREM CountersExact == Spec => []Accounting
  <1>1. IInv => Accounting
    BY Zenon DEF IInv
  <1> QED
    BY <1>1, Invariance, PTL

\* No connection is in two places: two callers never hold the same connection.
THEOREM ConnectionsUnshared == Spec => []SoleOwner
  <1>1. IInv => SoleOwner
    BY DEF IInv, Ownership
  <1> QED
    BY <1>1, Invariance, PTL

\* While a caller is queued, every slot is taken and nothing is idle.
THEOREM WakeupsKept == Spec => []NoLostWakeup
  <1>1. IInv => NoLostWakeup
    BY DEF IInv
  <1> QED
    BY <1>1, Invariance, PTL

\* At most one slot beyond MaxConns is ever taken, whatever the number of
\* callers that replace stale connections at the same time.
THEOREM CapacityBounded == Spec => []CapacityBound
  <1>1. IInv => CapacityBound
    BY DEF IInv
  <1> QED
    BY <1>1, Invariance, PTL

\* After Gpool.Close nothing is idle or queued, and once closeDone is closed no
\* connection is on loan.
THEOREM ShutdownFinal == Spec => []ShutdownIsFinal
  <1>1. IInv => ShutdownIsFinal
    BY DEF IInv, Shutdown
  <1> QED
    BY <1>1, Invariance, PTL

\* What Get hands out and what is given back or discarded is what the
\* lending service of LeasePool.tla allows, step by step: a connection is lent
\* only when nobody has it and the pool is open, and none after the shutdown.
THEOREM PoolImplementsLeasePool == Spec => LendsLikeLeasePool
  <1>1. LP!LInit /\ [][LP!LNext]_<<Lease, closed, closeEnded>> => LendsLikeLeasePool
    BY DEF LendsLikeLeasePool, LP!LSpec, LP!leaseVars
  <1> QED
    BY <1>1, LeaseStart, LeaseStep, Invariance, PTL DEF Spec

\* dispatchCapacityWaitersLocked and put serve the queue from the front: nobody
\* is given a connection or a slot while one who came earlier stays queued.
THEOREM QueueIsFair == Spec => WaitersServedInOrder
  BY OrderStep, Invariance, PTL DEF Spec, WaitersServedInOrder, InOrder
=============================================================================
