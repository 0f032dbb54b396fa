-------------------------- MODULE GpoolOwnership ----------------------------
(***************************************************************************)
(* No connection of the pool has two owners: every step keeps each one in  *)
(* one place.                                                              *)
(***************************************************************************)
EXTENDS GpoolInvariant

-----------------------------------------------------------------------------
(* Connections *)

\* What SoleOwner says, conjunct by conjunct.
LEMMA Apart ==
  ASSUME Ownership
  PROVE  /\ Distinct(idle) /\ Distinct(closeList)
         /\ \A r, s \in Callers : r # s /\ conn[r] # NoConn => conn[r] # conn[s]
         /\ \A r \in Callers, i \in 1..Len(idle) : idle[i] # conn[r]
         /\ \A r \in Callers, i \in 1..Len(closeList) : closeList[i] # conn[r]
         /\ \A i \in 1..Len(idle), j \in 1..Len(closeList) : idle[i] # closeList[j]
  BY DEF Ownership, SoleOwner

\* Nothing has moved.
LEMMA SoleOwnerKept ==
  ASSUME Ownership, UNCHANGED <<idle, closeList, conn>>
  PROVE  SoleOwner'
  <1>1. idle' = idle /\ closeList' = closeList /\ conn' = conn
    OBVIOUS
  <1> QED
    BY <1>1, Apart DEF SoleOwner, Distinct

\* A caller that the step does not touch keeps its connection.
LEMMA StillHolds ==
  ASSUME Ownership, NEW r \in Callers,
         Borrows(r)' <=> Borrows(r), Closes(r)' <=> Closes(r),
         conn'[r] = conn[r], pc'[r] = pc[r], result'[r] = "conn" <=> result[r] = "conn",
         Borrows(r) \/ Closes(r) => connState'[conn[r]] = connState[conn[r]]
  PROVE  /\ (conn[r] # NoConn)' <=> (Borrows(r) \/ Closes(r))'
         /\ (result[r] = "conn" \/ pc[r] = "using")' => (connState[conn[r]] = "borrowed")'
         /\ (pc[r] \in {"returning", "discarding"})' => (connState[conn[r]] = "returning")'
         /\ Closes(r)' => (connState[conn[r]] = "closing")'
  <1>1. /\ conn[r] # NoConn <=> Borrows(r) \/ Closes(r)
        /\ result[r] = "conn" \/ pc[r] = "using" => connState[conn[r]] = "borrowed"
        /\ pc[r] \in {"returning", "discarding"} => connState[conn[r]] = "returning"
        /\ Closes(r) => connState[conn[r]] = "closing"
    BY DEF Ownership
  <1>2. /\ result[r] = "conn" \/ pc[r] = "using" => Borrows(r)
        /\ pc[r] \in {"returning", "discarding"} => Borrows(r)
    BY DEF Borrows
  <1> QED
    BY <1>1, <1>2

\* Steps that move no connection.
LEMMA OwnershipKept ==
  ASSUME FieldTypes, Ownership, NEW p \in Callers,
         UNCHANGED <<idle, closeList, conn, connState>>,
         \A r \in Callers : result'[r] = "conn" <=> result[r] = "conn",
         \A r \in Callers \ {p} : pc'[r] = pc[r],
         \/ pc'[p] = pc[p]
         \/ /\ pc[p] \in {"out", "creating", "waiting", "cancelling"}
            /\ pc'[p] \in {"out", "creating", "waiting", "cancelling"}
  PROVE  Ownership'
  <1>1. \A r \in Callers : (Borrows(r)' <=> Borrows(r)) /\ (Closes(r)' <=> Closes(r))
    BY DEF Borrows, Closes
  <1>2. \A r \in Callers : (pc[r] = "using")' <=> pc[r] = "using"
    OBVIOUS
  <1>3. \A r \in Callers : (pc[r] \in {"returning", "discarding"})' <=> pc[r] \in {"returning", "discarding"}
    OBVIOUS
  <1>4. SoleOwner'
    BY SoleOwnerKept
  <1> QED
    BY <1>1, <1>2, <1>3, <1>4 DEF Ownership

\* A slot handed out by dispatchCapacityWaitersLocked is not a loan.
LEMMA DispatchKeepsLoans ==
  ASSUME FieldTypes, NEW q \in Seq(Callers), Distinct(q), NEW used \in Int,
         NEW reserved \in Int, DispatchCapacityWaiters(q, used, reserved),
         \A r \in Callers : In(r, q) => result[r] = "none"
  PROVE  \A r \in Callers : result'[r] = "conn" <=> result[r] = "conn"
  BY DispatchSplits

\* A caller outside the pool, creating or waiting without a result holds nothing.
LEMMA HoldsNothing ==
  ASSUME QueueShape, Ownership, NEW p \in Callers,
         \/ pc[p] \in {"out", "creating"}
         \/ Waits(p) /\ result[p] # "conn"
  PROVE  conn[p] = NoConn /\ ~Borrows(p) /\ ~Closes(p)
  <1>1. result[p] # "conn"
    BY DEF QueueShape, Waits
  <1> QED
    BY <1>1 DEF Ownership, Borrows, Closes, Waits

\* p's connection is with nobody else.
LEMMA Unshared ==
  ASSUME FieldTypes, Ownership, NEW p \in Callers, Borrows(p) \/ Closes(p)
  PROVE  /\ conn[p] \in Conns
         /\ \A r \in Callers \ {p} : conn[r] # conn[p]
         /\ \A i \in 1..Len(idle) : idle[i] # conn[p]
         /\ \A i \in 1..Len(closeList) : closeList[i] # conn[p]
  BY DEF FieldTypes, Ownership, SoleOwner

\* p starts to use or to close a connection c that no caller holds and that is
\* not on the close list; it leaves the ring if it was there.
LEMMA OwnershipTaken ==
  ASSUME FieldTypes, Ownership, FieldTypes', NEW p \in Callers, NEW c \in Conns,
         conn[p] = NoConn, connState[c] \in {"idle", "closed"},
         UNCHANGED <<closeList, result>>,
         Distinct(idle)',
         \A i \in 1..Len(idle') : \E j \in 1..Len(idle) : idle'[i] = idle[j] /\ idle[j] # c,
         NEW loc, NEW st,
         \/ loc = "using" /\ st = "borrowed"
         \/ loc \in {"replacing", "closing"} /\ st = "closing",
         pc' = [pc EXCEPT ![p] = loc],
         conn' = [conn EXCEPT ![p] = c],
         connState' = [connState EXCEPT ![c] = st]
  PROVE  Ownership'
  <1>1. /\ pc'[p] = loc /\ conn'[p] = c /\ connState'[c] = st
        /\ \A r \in Callers \ {p} : pc'[r] = pc[r] /\ conn'[r] = conn[r]
        /\ \A d \in Conns \ {c} : connState'[d] = connState[d]
    BY DEF FieldTypes
  <1>2. \A r \in Callers \ {p} : conn[r] # c
    BY ConfAssumption DEF Ownership, Borrows, Closes
  <1>3. \A i \in 1..Len(closeList) : closeList[i] # c
    BY DEF Ownership
  <1>4. \A i \in 1..Len(idle') : idle'[i] # c /\ idle'[i] \in Conns
    BY DEF FieldTypes
  <1>5. result[p] # "conn" /\ c # NoConn
    BY ConfAssumption DEF Ownership, Borrows
  <1>6. ASSUME NEW r \in Callers
        PROVE  /\ (conn[r] # NoConn)' <=> (Borrows(r) \/ Closes(r))'
               /\ (result[r] = "conn" \/ pc[r] = "using")' => (connState[conn[r]] = "borrowed")'
               /\ (pc[r] \in {"returning", "discarding"})' => (connState[conn[r]] = "returning")'
               /\ Closes(r)' => (connState[conn[r]] = "closing")'
    <2>1. CASE r = p
      BY <1>1, <1>5, <2>1 DEF Borrows, Closes
    <2>2. CASE r # p
      <3>1. /\ Borrows(r)' <=> Borrows(r)
            /\ Closes(r)' <=> Closes(r)
            /\ conn'[r] = conn[r] /\ pc'[r] = pc[r] /\ result'[r] = result[r]
        BY <1>1, <2>2 DEF Borrows, Closes
      <3>2. Borrows(r) \/ Closes(r) => connState'[conn[r]] = connState[conn[r]]
        BY <1>1, <1>2, <2>2, HolderTypes
      <3> QED
        BY <3>1, <3>2, StillHolds
    <2> QED
      BY <2>1, <2>2
  <1>7. \A i \in 1..Len(idle') : connState'[idle'[i]] = "idle"
    BY <1>1, <1>4 DEF Ownership
  <1>8. \A i \in 1..Len(closeList') : connState'[closeList'[i]] = "closing"
    BY <1>1, <1>3 DEF Ownership, FieldTypes
  <1>9. SoleOwner'
    <2>1. Distinct(closeList)'
      BY DEF Ownership, SoleOwner, Distinct
    <2>2. \A r, s \in Callers : (r # s /\ conn[r] # NoConn => conn[r] # conn[s])'
      BY <1>1, <1>2, <1>5 DEF Ownership, SoleOwner
    <2>3. \A r \in Callers : \A i \in 1..Len(idle') : idle'[i] # conn'[r]
      BY <1>1, <1>4 DEF Ownership, SoleOwner
    <2>4. \A r \in Callers : \A i \in 1..Len(closeList') : closeList'[i] # conn'[r]
      BY <1>1, <1>3 DEF Ownership, SoleOwner
    <2>5. \A i \in 1..Len(idle'), j \in 1..Len(closeList') : idle'[i] # closeList'[j]
      BY DEF Ownership, SoleOwner
    <2> QED
      BY <2>1, <2>2, <2>3, <2>4, <2>5 DEF SoleOwner, Distinct
  <1> QED
    BY <1>6, <1>7, <1>8, <1>9 DEF Ownership

\* The connection in p's hands changes its state only.
LEMMA OwnershipAdvances ==
  ASSUME FieldTypes, Ownership, NEW p \in Callers, Borrows(p), result[p] # "conn",
         UNCHANGED <<idle, closeList, result, conn>>,
         NEW loc, NEW st,
         \/ loc \in {"returning", "discarding"} /\ st = "returning"
         \/ loc = "closing" /\ st = "closing",
         pc' = [pc EXCEPT ![p] = loc],
         connState' = [connState EXCEPT ![conn[p]] = st]
  PROVE  Ownership'
  <1>0. /\ conn[p] \in Conns
        /\ \A r \in Callers \ {p} : conn[r] # conn[p]
        /\ \A i \in 1..Len(idle) : idle[i] # conn[p]
        /\ \A i \in 1..Len(closeList) : closeList[i] # conn[p]
    BY Unshared
  <1>1. /\ pc'[p] = loc /\ connState'[conn[p]] = st
        /\ \A r \in Callers \ {p} : pc'[r] = pc[r]
        /\ \A d \in Conns \ {conn[p]} : connState'[d] = connState[d]
    BY <1>0 DEF FieldTypes
  <1>2. ASSUME NEW r \in Callers
        PROVE  /\ (conn[r] # NoConn)' <=> (Borrows(r) \/ Closes(r))'
               /\ (result[r] = "conn" \/ pc[r] = "using")' => (connState[conn[r]] = "borrowed")'
               /\ (pc[r] \in {"returning", "discarding"})' => (connState[conn[r]] = "returning")'
               /\ Closes(r)' => (connState[conn[r]] = "closing")'
    <2>1. CASE r = p
      BY <1>0, <1>1, <2>1, ConfAssumption DEF Borrows, Closes
    <2>2. CASE r # p
      <3>1. /\ Borrows(r)' <=> Borrows(r)
            /\ Closes(r)' <=> Closes(r)
            /\ conn'[r] = conn[r] /\ pc'[r] = pc[r] /\ result'[r] = result[r]
        BY <1>1, <2>2 DEF Borrows, Closes
      <3>2. Borrows(r) \/ Closes(r) => connState'[conn[r]] = connState[conn[r]]
        BY <1>0, <1>1, <2>2, HolderTypes
      <3> QED
        BY <3>1, <3>2, StillHolds
    <2> QED
      BY <2>1, <2>2
  <1>3. \A i \in 1..Len(idle') : connState'[idle'[i]] = "idle"
    BY <1>0, <1>1 DEF Ownership, FieldTypes
  <1>4. \A i \in 1..Len(closeList') : connState'[closeList'[i]] = "closing"
    BY <1>0, <1>1 DEF Ownership, FieldTypes
  <1>5. SoleOwner'
    BY SoleOwnerKept
  <1> QED
    BY <1>2, <1>3, <1>4, <1>5 DEF Ownership

\* p has closed its connection.
LEMMA OwnershipEnds ==
  ASSUME FieldTypes, Ownership, NEW p \in Callers, Closes(p), result[p] # "conn",
         UNCHANGED <<idle, closeList>>,
         \A r \in Callers : result'[r] = "conn" <=> result[r] = "conn",
         NEW loc \in {"out", "creating"},
         pc' = [pc EXCEPT ![p] = loc],
         conn' = [conn EXCEPT ![p] = NoConn],
         connState' = [connState EXCEPT ![conn[p]] = "closed"]
  PROVE  Ownership'
  <1>0. /\ conn[p] \in Conns
        /\ \A r \in Callers \ {p} : conn[r] # conn[p]
        /\ \A i \in 1..Len(idle) : idle[i] # conn[p]
        /\ \A i \in 1..Len(closeList) : closeList[i] # conn[p]
    BY Unshared
  <1>1. /\ pc'[p] = loc /\ conn'[p] = NoConn
        /\ \A r \in Callers \ {p} : pc'[r] = pc[r] /\ conn'[r] = conn[r]
        /\ \A d \in Conns \ {conn[p]} : connState'[d] = connState[d]
    BY <1>0 DEF FieldTypes
  <1>2. ASSUME NEW r \in Callers
        PROVE  /\ (conn[r] # NoConn)' <=> (Borrows(r) \/ Closes(r))'
               /\ (result[r] = "conn" \/ pc[r] = "using")' => (connState[conn[r]] = "borrowed")'
               /\ (pc[r] \in {"returning", "discarding"})' => (connState[conn[r]] = "returning")'
               /\ Closes(r)' => (connState[conn[r]] = "closing")'
    <2>1. CASE r = p
      BY <1>1, <2>1 DEF Borrows, Closes
    <2>2. CASE r # p
      <3>1. /\ Borrows(r)' <=> Borrows(r)
            /\ Closes(r)' <=> Closes(r)
            /\ conn'[r] = conn[r] /\ pc'[r] = pc[r]
        BY <1>1, <2>2 DEF Borrows, Closes
      <3>2. Borrows(r) \/ Closes(r) => connState'[conn[r]] = connState[conn[r]]
        BY <1>0, <1>1, <2>2, HolderTypes
      <3> QED
        BY <3>1, <3>2, StillHolds
    <2> QED
      BY <2>1, <2>2
  <1>3. \A i \in 1..Len(idle') : connState'[idle'[i]] = "idle"
    BY <1>0, <1>1 DEF Ownership, FieldTypes
  <1>4. \A i \in 1..Len(closeList') : connState'[closeList'[i]] = "closing"
    BY <1>0, <1>1 DEF Ownership, FieldTypes
  <1>5. SoleOwner'
    <2>1. \A i \in 1..Len(idle) : idle[i] # NoConn
      BY ConfAssumption DEF FieldTypes
    <2>2. \A i \in 1..Len(closeList) : closeList[i] # NoConn
      BY ConfAssumption DEF FieldTypes
    <2> QED
      BY <1>1, <2>1, <2>2 DEF Ownership, SoleOwner, Distinct
  <1> QED
    BY <1>2, <1>3, <1>4, <1>5 DEF Ownership

\* put's direct handoff to the oldest waiter w.
LEMMA OwnershipHandedOver ==
  ASSUME IInv, NEW p \in Callers, PutHandoff(p)
  PROVE  Ownership'
  <1> DEFINE w == Head(waiters)
  <1>0. FieldTypes /\ Ownership /\ QueueShape
    BY DEF IInv
  <1>1. /\ pc[p] = "returning"
        /\ waiters # <<>>
        /\ result' = [result EXCEPT ![w] = "conn"]
        /\ conn' = [conn EXCEPT ![p] = NoConn, ![w] = conn[p]]
        /\ connState' = [connState EXCEPT ![conn[p]] = "borrowed"]
        /\ pc' = [pc EXCEPT ![p] = "out"]
        /\ UNCHANGED <<idle, closeList>>
    BY DEF PutHandoff
  <1>2. w \in Callers /\ In(w, waiters)
    BY <1>0, <1>1, TailSplits DEF QueueShape, FieldTypes
  <1>3. Waits(w) /\ result[w] = "none"
    BY <1>0, <1>2 DEF QueueShape, Queued, In
  <1>4. w # p /\ result[p] = "none"
    BY <1>0, <1>1, <1>3, OutsideQueue DEF Waits
  <1>5. conn[w] = NoConn
    BY <1>0, <1>2, <1>3, HoldsNothing
  <1>6. /\ conn[p] \in Conns
        /\ \A r \in Callers \ {p} : conn[r] # conn[p]
        /\ \A i \in 1..Len(idle) : idle[i] # conn[p]
        /\ \A i \in 1..Len(closeList) : closeList[i] # conn[p]
    BY <1>0, <1>1, Unshared DEF Borrows
  <1> HIDE DEF w
  <1>7. /\ conn'[p] = NoConn /\ conn'[w] = conn[p] /\ result'[w] = "conn"
        /\ pc'[p] = "out" /\ pc'[w] = pc[w] /\ result'[p] = "none"
        /\ connState'[conn[p]] = "borrowed"
        /\ \A r \in Callers \ {p, w} : /\ pc'[r] = pc[r]
                                       /\ conn'[r] = conn[r]
                                       /\ result'[r] = result[r]
        /\ \A d \in Conns \ {conn[p]} : connState'[d] = connState[d]
    BY <1>0, <1>1, <1>2, <1>4, <1>6 DEF FieldTypes
  <1>8. ASSUME NEW r \in Callers
        PROVE  /\ (conn[r] # NoConn)' <=> (Borrows(r) \/ Closes(r))'
               /\ (result[r] = "conn" \/ pc[r] = "using")' => (connState[conn[r]] = "borrowed")'
               /\ (pc[r] \in {"returning", "discarding"})' => (connState[conn[r]] = "returning")'
               /\ Closes(r)' => (connState[conn[r]] = "closing")'
    <2>1. CASE r = p
      BY <1>7, <2>1 DEF Borrows, Closes
    <2>2. CASE r = w
      BY <1>3, <1>6, <1>7, <2>2, ConfAssumption DEF Borrows, Closes, Waits
    <2>3. CASE r # p /\ r # w
      <3>1. /\ Borrows(r)' <=> Borrows(r)
            /\ Closes(r)' <=> Closes(r)
            /\ conn'[r] = conn[r] /\ pc'[r] = pc[r] /\ result'[r] = result[r]
        BY <1>7, <2>3 DEF Borrows, Closes
      <3>2. Borrows(r) \/ Closes(r) => connState'[conn[r]] = connState[conn[r]]
        BY <1>0, <1>6, <1>7, <2>3, HolderTypes
      <3> QED
        BY <1>0, <3>1, <3>2, StillHolds
    <2> QED
      BY <2>1, <2>2, <2>3
  <1>9. \A i \in 1..Len(idle') : connState'[idle'[i]] = "idle"
    BY SMTT(30), <1>0, <1>1, <1>6, <1>7 DEF Ownership, FieldTypes
  <1>10. \A i \in 1..Len(closeList') : connState'[closeList'[i]] = "closing"
    BY SMTT(30), <1>0, <1>1, <1>6, <1>7 DEF Ownership, FieldTypes
  <1>11. SoleOwner'
    <2>1. \A r, s \in Callers : (r # s /\ conn[r] # NoConn => conn[r] # conn[s])'
      <3>1. ASSUME NEW r \in Callers, NEW s \in Callers, r # s, conn'[r] # NoConn
            PROVE  conn'[r] # conn'[s]
        <4>1. r # s /\ conn[r] # NoConn => conn[r] # conn[s]
          BY <1>0, Apart
        <4>2. CASE r = w
          BY <1>6, <1>7, <3>1, <4>2, ConfAssumption
        <4>3. CASE s = w
          BY <1>6, <1>7, <3>1, <4>3, ConfAssumption
        <4> QED
          BY <1>7, <3>1, <4>1, <4>2, <4>3
      <3> QED
        BY <3>1
    <2>2. \A i \in 1..Len(idle) : idle[i] # NoConn
      BY <1>0, ConfAssumption DEF FieldTypes
    <2>3. \A i \in 1..Len(closeList) : closeList[i] # NoConn
      BY <1>0, ConfAssumption DEF FieldTypes
    <2>4. \A r \in Callers : \A i \in 1..Len(idle) : idle[i] # conn'[r]
      BY SMTT(30), <1>0, <1>6, <1>7, <2>2, Apart
    <2>5. \A r \in Callers : \A i \in 1..Len(closeList) : closeList[i] # conn'[r]
      BY SMTT(30), <1>0, <1>6, <1>7, <2>3, Apart
    <2>6. idle' = idle /\ closeList' = closeList
      BY <1>1
    <2>7. /\ Distinct(idle) /\ Distinct(closeList)
          /\ \A i \in 1..Len(idle), j \in 1..Len(closeList) : idle[i] # closeList[j]
      BY <1>0 DEF Ownership, SoleOwner
    <2> QED
      BY <2>1, <2>4, <2>5, <2>6, <2>7 DEF SoleOwner, Distinct
  <1> QED
    BY <1>8, <1>9, <1>10, <1>11 DEF Ownership

\* put keeps the connection in the ring.
LEMMA OwnershipReturned ==
  ASSUME IInv, NEW p \in Callers, PutIdle(p)
  PROVE  Ownership'
  <1>0. FieldTypes /\ Ownership /\ QueueShape
    BY DEF IInv
  <1>1. /\ pc[p] = "returning"
        /\ idle' = Append(idle, conn[p])
        /\ conn' = [conn EXCEPT ![p] = NoConn]
        /\ connState' = [connState EXCEPT ![conn[p]] = "idle"]
        /\ pc' = [pc EXCEPT ![p] = "out"]
        /\ UNCHANGED <<closeList, result>>
    BY DEF PutIdle, Leave
  <1>2. result[p] = "none"
    BY <1>0, <1>1, OutsideQueue DEF Waits
  <1>3. /\ conn[p] \in Conns
        /\ \A r \in Callers \ {p} : conn[r] # conn[p]
        /\ \A i \in 1..Len(idle) : idle[i] # conn[p]
        /\ \A i \in 1..Len(closeList) : closeList[i] # conn[p]
    BY <1>0, <1>1, Unshared DEF Borrows
  <1>4. /\ conn'[p] = NoConn /\ pc'[p] = "out"
        /\ connState'[conn[p]] = "idle"
        /\ \A r \in Callers \ {p} : pc'[r] = pc[r] /\ conn'[r] = conn[r]
        /\ \A d \in Conns \ {conn[p]} : connState'[d] = connState[d]
    BY <1>0, <1>1, <1>3 DEF FieldTypes
  <1>5. /\ Len(idle') = Len(idle) + 1 /\ Len(idle) \in Nat
        /\ \A i \in 1..Len(idle) : idle'[i] = idle[i] /\ idle[i] \in Conns
        /\ idle'[Len(idle) + 1] = conn[p]
    BY <1>0, <1>1, <1>3 DEF FieldTypes
  <1>6. \A i \in 1..Len(idle') : i \in 1..Len(idle) \/ i = Len(idle) + 1
    BY <1>5
  <1>7. ASSUME NEW r \in Callers
        PROVE  /\ (conn[r] # NoConn)' <=> (Borrows(r) \/ Closes(r))'
               /\ (result[r] = "conn" \/ pc[r] = "using")' => (connState[conn[r]] = "borrowed")'
               /\ (pc[r] \in {"returning", "discarding"})' => (connState[conn[r]] = "returning")'
               /\ Closes(r)' => (connState[conn[r]] = "closing")'
    <2>1. CASE r = p
      BY <1>1, <1>2, <1>4, <2>1 DEF Borrows, Closes
    <2>2. CASE r # p
      <3>1. /\ Borrows(r)' <=> Borrows(r)
            /\ Closes(r)' <=> Closes(r)
            /\ conn'[r] = conn[r] /\ pc'[r] = pc[r] /\ result'[r] = result[r]
        BY <1>1, <1>4, <2>2 DEF Borrows, Closes
      <3>2. Borrows(r) \/ Closes(r) => connState'[conn[r]] = connState[conn[r]]
        BY <1>0, <1>3, <1>4, <2>2, HolderTypes
      <3> QED
        BY <1>0, <3>1, <3>2, StillHolds
    <2> QED
      BY <2>1, <2>2
  <1>8. \A i \in 1..Len(idle') : connState'[idle'[i]] = "idle"
    <2>1. \A i \in 1..Len(idle) : connState[idle[i]] = "idle"
      BY <1>0 DEF Ownership
    <2> QED
      BY <1>3, <1>4, <1>5, <1>6, <2>1
  <1>9. \A i \in 1..Len(closeList') : connState'[closeList'[i]] = "closing"
    <2>1. closeList' = closeList /\ \A i \in 1..Len(closeList) : closeList[i] \in Conns
      BY <1>0, <1>1 DEF FieldTypes
    <2>2. \A i \in 1..Len(closeList) : connState[closeList[i]] = "closing"
      BY <1>0 DEF Ownership
    <2> QED
      BY <1>3, <1>4, <2>1, <2>2
  <1>10. SoleOwner'
    <2>1. Distinct(idle)'
      <3>1. ASSUME NEW i \in 1..Len(idle'), NEW j \in 1..Len(idle'), idle'[i] = idle'[j]
            PROVE  i = j
        <4>1. Distinct(idle)
          BY <1>0, Apart
        <4>2. CASE i \in 1..Len(idle) /\ j \in 1..Len(idle)
          BY <1>5, <3>1, <4>1, <4>2 DEF Distinct
        <4>3. CASE i = Len(idle) + 1
          BY <1>3, <1>5, <1>6, <3>1, <4>3
        <4>4. CASE j = Len(idle) + 1
          BY <1>3, <1>5, <1>6, <3>1, <4>4
        <4> QED
          BY <1>6, <4>2, <4>3, <4>4
      <3> QED
        BY <3>1 DEF Distinct
    <2>2. \A r, s \in Callers : (r # s /\ conn[r] # NoConn => conn[r] # conn[s])'
      BY <1>0, <1>4 DEF Ownership, SoleOwner
    <2>3. \A i \in 1..Len(closeList) : closeList[i] # NoConn
      BY <1>0, ConfAssumption DEF FieldTypes
    <2>4. \A r \in Callers : \A i \in 1..Len(idle') : idle'[i] # conn'[r]
      <3>1. ASSUME NEW r \in Callers, NEW i \in 1..Len(idle') PROVE idle'[i] # conn'[r]
        <4>1. CASE i = Len(idle) + 1
          BY <1>3, <1>4, <1>5, <4>1, ConfAssumption
        <4>2. CASE i \in 1..Len(idle)
          <5>1. idle'[i] = idle[i] /\ idle[i] \in Conns /\ idle[i] # conn[r]
            BY <1>0, <1>5, <4>2, Apart
          <5> QED
            BY <1>4, <5>1, ConfAssumption
        <4> QED
          BY <1>6, <4>1, <4>2
      <3> QED
        BY <3>1
    <2>5. \A r \in Callers : \A i \in 1..Len(closeList) : closeList[i] # conn'[r]
      <3>1. \A r \in Callers, i \in 1..Len(closeList) : closeList[i] # conn[r]
        BY <1>0, Apart
      <3> QED
        BY <1>4, <2>3, <3>1
    <2>6. \A i \in 1..Len(idle'), j \in 1..Len(closeList) : idle'[i] # closeList[j]
      <3>1. \A i \in 1..Len(idle), j \in 1..Len(closeList) : idle[i] # closeList[j]
        BY <1>0, Apart
      <3> QED
        BY <1>3, <1>5, <1>6, <3>1
    <2>7. Distinct(closeList)
      BY <1>0 DEF Ownership, SoleOwner
    <2> QED
      BY <1>1, <2>1, <2>2, <2>4, <2>5, <2>6, <2>7 DEF SoleOwner, Distinct
  <1> QED
    BY <1>7, <1>8, <1>9, <1>10 DEF Ownership

\* put with a full ring: the new connection goes in, p closes the oldest one.
LEMMA OwnershipSwapped ==
  ASSUME IInv, NEW p \in Callers, PutEvict(p)
  PROVE  Ownership'
  <1> DEFINE old == Head(idle)
  <1>0. FieldTypes /\ Ownership /\ QueueShape
    BY DEF IInv
  <1>1. /\ pc[p] = "returning"
        /\ idle' = Append(Tail(idle), conn[p])
        /\ conn' = [conn EXCEPT ![p] = old]
        /\ connState' = [connState EXCEPT ![conn[p]] = "idle", ![old] = "closing"]
        /\ pc' = [pc EXCEPT ![p] = "closing"]
        /\ UNCHANGED <<closeList, result>>
    BY DEF PutEvict
  <1>2. result[p] = "none"
    BY <1>0, <1>1, OutsideQueue DEF Waits
  <1>3. /\ conn[p] \in Conns
        /\ \A r \in Callers \ {p} : conn[r] # conn[p]
        /\ \A i \in 1..Len(idle) : idle[i] # conn[p]
        /\ \A i \in 1..Len(closeList) : closeList[i] # conn[p]
    BY <1>0, <1>1, Unshared DEF Borrows
  <1>4. idle # <<>>
    BY Limits DEF PutEvict
  <1>5. /\ Len(idle) \in Nat \ {0}
        /\ old = idle[1] /\ old \in Conns
        /\ Tail(idle) \in Seq(Conns)
        /\ Len(Tail(idle)) = Len(idle) - 1
        /\ \A i \in 1..Len(Tail(idle)) : Tail(idle)[i] = idle[i + 1]
    BY <1>0, <1>4 DEF FieldTypes
  <1> HIDE DEF old
  <1>6. old # conn[p]
    <2>1. 1 \in 1..Len(idle)
      <3>1. Len(idle) \in Nat \ {0}
        BY <1>5
      <3> QED
        BY <3>1
    <2> QED
      BY <1>3, <1>5, <2>1
  <1>7. /\ \A r \in Callers \ {p} : conn[r] # old
        /\ \A i \in 1..Len(closeList) : closeList[i] # old
    BY <1>0, <1>5 DEF Ownership, SoleOwner
  <1>8. /\ Len(idle') = Len(idle)
        /\ \A i \in 1..(Len(idle) - 1) : idle'[i] = idle[i + 1]
        /\ idle'[Len(idle)] = conn[p]
    <2>1. /\ Len(Append(Tail(idle), conn[p])) = Len(Tail(idle)) + 1
          /\ \A i \in 1..Len(Tail(idle)) : Append(Tail(idle), conn[p])[i] = Tail(idle)[i]
          /\ Append(Tail(idle), conn[p])[Len(Tail(idle)) + 1] = conn[p]
      BY <1>3, <1>5
    <2>2. Len(Tail(idle)) + 1 = Len(idle)
      BY <1>5
    <2> QED
      BY <1>1, <1>5, <2>1, <2>2
  <1>9. \A i \in 1..Len(idle') :
           \/ i = Len(idle) /\ idle'[i] = conn[p]
           \/ /\ i \in 1..(Len(idle) - 1) /\ i + 1 \in 1..Len(idle)
              /\ idle'[i] = idle[i + 1] /\ idle'[i] # old /\ idle'[i] \in Conns
    <2>1. ASSUME NEW i \in 1..(Len(idle) - 1) PROVE idle[i + 1] # old /\ idle[i + 1] \in Conns
      <3>1. i + 1 \in 1..Len(idle) /\ i + 1 # 1 /\ 1 \in 1..Len(idle)
        BY <1>5
      <3> QED
        BY <1>0, <1>5, <3>1 DEF Ownership, SoleOwner, Distinct, FieldTypes
    <2>2. ASSUME NEW i \in 1..Len(idle), i # Len(idle)
          PROVE  i \in 1..(Len(idle) - 1) /\ i + 1 \in 1..Len(idle)
      <3>1. Len(idle) \in Nat
        BY <1>5
      <3> QED
        BY <2>2, <3>1
    <2>3. \A i \in 1..Len(idle') : i \in 1..Len(idle)
      BY <1>8
    <2>4. ASSUME NEW i \in 1..Len(idle'), i # Len(idle)
          PROVE  /\ i \in 1..(Len(idle) - 1) /\ i + 1 \in 1..Len(idle)
                 /\ idle'[i] = idle[i + 1] /\ idle'[i] # old /\ idle'[i] \in Conns
      BY <1>8, <2>1, <2>2, <2>3, <2>4
    <2> QED
      BY <1>8, <2>4
  <1>10. /\ conn'[p] = old /\ pc'[p] = "closing"
         /\ connState'[conn[p]] = "idle" /\ connState'[old] = "closing"
         /\ \A r \in Callers \ {p} : pc'[r] = pc[r] /\ conn'[r] = conn[r]
         /\ \A d \in Conns \ {conn[p], old} : connState'[d] = connState[d]
    BY <1>0, <1>1, <1>3, <1>5, <1>6 DEF FieldTypes
  <1>11. ASSUME NEW r \in Callers
         PROVE  /\ (conn[r] # NoConn)' <=> (Borrows(r) \/ Closes(r))'
                /\ (result[r] = "conn" \/ pc[r] = "using")' => (connState[conn[r]] = "borrowed")'
                /\ (pc[r] \in {"returning", "discarding"})' => (connState[conn[r]] = "returning")'
                /\ Closes(r)' => (connState[conn[r]] = "closing")'
    <2>1. CASE r = p
      BY SMTT(30), <1>1, <1>2, <1>5, <1>10, <2>1, ConfAssumption DEF Borrows, Closes
    <2>2. CASE r # p
      <3>1. /\ Borrows(r)' <=> Borrows(r)
            /\ Closes(r)' <=> Closes(r)
            /\ conn'[r] = conn[r] /\ pc'[r] = pc[r] /\ result'[r] = result[r]
        BY <1>1, <1>10, <2>2 DEF Borrows, Closes
      <3>2. Borrows(r) \/ Closes(r) => connState'[conn[r]] = connState[conn[r]]
        BY <1>0, <1>3, <1>7, <1>10, <2>2, HolderTypes
      <3> QED
        BY <1>0, <3>1, <3>2, StillHolds
    <2> QED
      BY <2>1, <2>2
  <1>12. ASSUME NEW i \in 1..Len(idle') PROVE connState'[idle'[i]] = "idle"
    <2>1. CASE idle'[i] = conn[p]
      BY <1>10, <2>1
    <2>2. CASE idle'[i] # conn[p]
      BY <1>0, <1>9, <1>10, <2>2 DEF Ownership
    <2> QED
      BY <2>1, <2>2
  <1>13. \A i \in 1..Len(closeList') : connState'[closeList'[i]] = "closing"
    <2>1. closeList' = closeList /\ \A i \in 1..Len(closeList) : closeList[i] \in Conns
      BY <1>0, <1>1 DEF FieldTypes
    <2>2. \A i \in 1..Len(closeList) : connState[closeList[i]] = "closing"
      BY <1>0 DEF Ownership
    <2> QED
      BY <1>3, <1>7, <1>10, <2>1, <2>2
  <1>14. SoleOwner'
    <2>1. Distinct(idle)'
      <3>1. ASSUME NEW i \in 1..Len(idle'), NEW j \in 1..Len(idle'), idle'[i] = idle'[j]
            PROVE  i = j
        <4>1. Distinct(idle)
          BY <1>0 DEF Ownership, SoleOwner
        <4>2. CASE i = Len(idle) /\ idle'[i] = conn[p]
          BY <1>3, <1>9, <3>1, <4>2
        <4>3. CASE j = Len(idle) /\ idle'[j] = conn[p]
          BY <1>3, <1>9, <3>1, <4>3
        <4>4. CASE /\ i + 1 \in 1..Len(idle) /\ idle'[i] = idle[i + 1]
                   /\ j + 1 \in 1..Len(idle) /\ idle'[j] = idle[j + 1]
          <5>1. i + 1 = j + 1
            BY Zenon, <3>1, <4>1, <4>4 DEF Distinct
          <5> QED
            BY <5>1
        <4> QED
          BY <1>9, <4>2, <4>3, <4>4
      <3> QED
        BY <3>1 DEF Distinct
    <2>2. \A r, s \in Callers : (r # s /\ conn[r] # NoConn => conn[r] # conn[s])'
      <3>1. \A r, s \in Callers : r # s /\ conn[r] # NoConn => conn[r] # conn[s]
        BY <1>0, Apart
      <3> QED
        BY <1>7, <1>10, <3>1
    <2>3. \A r \in Callers : \A i \in 1..Len(idle') : idle'[i] # conn'[r]
      <3>1. ASSUME NEW r \in Callers, NEW i \in 1..Len(idle') PROVE idle'[i] # conn'[r]
        <4>1. CASE i = Len(idle) /\ idle'[i] = conn[p]
          BY <1>3, <1>6, <1>10, <4>1
        <4>2. CASE i + 1 \in 1..Len(idle) /\ idle'[i] = idle[i + 1] /\ idle'[i] # old
          <5>1. idle[i + 1] # conn[r]
            BY <1>0, <4>2, Apart
          <5> QED
            BY <1>10, <4>2, <5>1
        <4> QED
          BY <1>9, <4>1, <4>2
      <3> QED
        BY <3>1
    <2>4. \A r \in Callers : \A i \in 1..Len(closeList) : closeList[i] # conn'[r]
      <3>1. \A r \in Callers, i \in 1..Len(closeList) : closeList[i] # conn[r]
        BY <1>0, Apart
      <3> QED
        BY <1>7, <1>10, <3>1
    <2>5. \A i \in 1..Len(idle'), j \in 1..Len(closeList) : idle'[i] # closeList[j]
      <3>1. \A i \in 1..Len(idle), j \in 1..Len(closeList) : idle[i] # closeList[j]
        BY <1>0, Apart
      <3> QED
        BY <1>3, <1>9, <3>1
    <2>6. Distinct(closeList)
      BY <1>0 DEF Ownership, SoleOwner
    <2> QED
      BY <1>1, <2>1, <2>2, <2>3, <2>4, <2>5, <2>6 DEF SoleOwner, Distinct
  <1> QED
    BY <1>11, <1>12, <1>13, <1>14 DEF Ownership

\* Gpool.Close moves the ring to the close list.
LEMMA OwnershipClosed ==
  ASSUME IInv, NEW k \in Closers, PoolClose(k)
  PROVE  Ownership'
  <1>0. FieldTypes /\ Ownership /\ QueueShape /\ Shutdown
    BY DEF IInv
  <1>1. /\ ~closed
        /\ result' = [p \in Callers |-> IF Queued(p) THEN "closed" ELSE result[p]]
        /\ idle' = <<>>
        /\ connState' = [c \in Conns |->
                           IF \E i \in 1..Len(idle) : idle[i] = c THEN "closing"
                           ELSE connState[c]]
        /\ closeList' = idle
        /\ UNCHANGED <<pc, conn>>
    BY DEF PoolClose
  <1>2. \A r \in Callers : result'[r] = "conn" <=> result[r] = "conn"
    BY <1>0, <1>1 DEF QueueShape
  <1>3. \A r \in Callers : (Borrows(r)' <=> Borrows(r)) /\ (Closes(r)' <=> Closes(r))
    BY <1>1, <1>2 DEF Borrows, Closes
  <1>4. \A r \in Callers : Borrows(r) \/ Closes(r) => connState'[conn[r]] = connState[conn[r]]
    BY <1>0, <1>1, Unshared
  <1>5. \A i \in 1..Len(idle) : connState'[idle[i]] = "closing"
    BY <1>0, <1>1 DEF FieldTypes
  <1>6. ASSUME NEW r \in Callers
        PROVE  /\ (conn[r] # NoConn)' <=> (Borrows(r) \/ Closes(r))'
               /\ (result[r] = "conn" \/ pc[r] = "using")' => (connState[conn[r]] = "borrowed")'
               /\ (pc[r] \in {"returning", "discarding"})' => (connState[conn[r]] = "returning")'
               /\ Closes(r)' => (connState[conn[r]] = "closing")'
    <2>1. conn'[r] = conn[r] /\ pc'[r] = pc[r]
      BY <1>1
    <2> QED
      BY <1>0, <1>2, <1>3, <1>4, <2>1, StillHolds
  <1>7. SoleOwner'
    <2>1. Len(idle') = 0 /\ closeList' = idle /\ conn' = conn
      BY <1>1
    <2>2. \A i \in 1..Len(idle') : FALSE
      BY <2>1
    <2>3. /\ Distinct(idle)
          /\ \A r, s \in Callers : r # s /\ conn[r] # NoConn => conn[r] # conn[s]
          /\ \A r \in Callers, i \in 1..Len(idle) : idle[i] # conn[r]
      BY <1>0, Apart
    <2>4. Distinct(idle')
      BY <2>2 DEF Distinct
    <2> QED
      BY <2>1, <2>2, <2>3, <2>4 DEF SoleOwner
  <1>8. Len(idle') = 0 /\ closeList' = idle
    BY <1>1
  <1>9. /\ \A i \in 1..Len(idle') : connState'[idle'[i]] = "idle"
        /\ \A i \in 1..Len(closeList') : connState'[closeList'[i]] = "closing"
    <2>1. \A i \in 1..Len(idle') : FALSE
      BY <1>8
    <2> QED
      BY <1>5, <1>8, <2>1
  <1> QED
    BY <1>6, <1>7, <1>9 DEF Ownership

\* closeIdleConnections has closed the first connection of the list.
LEMMA OwnershipDrained ==
  ASSUME IInv, CloseIdleConnection
  PROVE  Ownership'
  <1> DEFINE c == Head(closeList)
  <1>0. FieldTypes /\ Ownership
    BY DEF IInv
  <1>1. /\ closeList # <<>>
        /\ connState' = [connState EXCEPT ![c] = "closed"]
        /\ closeList' = Tail(closeList)
        /\ UNCHANGED <<idle, result, pc, conn>>
    BY DEF CloseIdleConnection
  <1>2. /\ Len(closeList) \in Nat \ {0}
        /\ c = closeList[1] /\ c \in Conns
        /\ Len(Tail(closeList)) = Len(closeList) - 1
        /\ \A i \in 1..Len(Tail(closeList)) : Tail(closeList)[i] = closeList[i + 1]
    BY <1>0, <1>1 DEF FieldTypes
  <1> HIDE DEF c
  <1>3. /\ Len(closeList) \in Nat
        /\ 1 \in 1..Len(closeList)
        /\ Len(closeList') = Len(closeList) - 1
        /\ \A i \in 1..Len(closeList') : closeList'[i] = closeList[i + 1]
    BY <1>1, <1>2
  <1>4. ASSUME NEW i \in 1..Len(closeList')
        PROVE  /\ i + 1 \in 1..Len(closeList)
               /\ closeList'[i] = closeList[i + 1]
               /\ closeList'[i] # c
               /\ closeList'[i] \in Conns
    <2>1. i + 1 \in 1..Len(closeList) /\ i + 1 # 1
      BY <1>3
    <2>2. closeList[i + 1] # c
      BY <1>0, <1>2, <1>3, <2>1 DEF Ownership, SoleOwner, Distinct
    <2>3. closeList[i + 1] \in Conns
      BY <1>0, <2>1 DEF FieldTypes
    <2> QED
      BY <1>3, <2>1, <2>2, <2>3
  <1>5. /\ connState'[c] = "closed"
        /\ \A d \in Conns \ {c} : connState'[d] = connState[d]
    BY <1>0, <1>1, <1>2 DEF FieldTypes
  <1>6. \A r \in Callers : conn[r] # c
    BY <1>0, <1>2, <1>3 DEF Ownership, SoleOwner
  <1>7. \A i \in 1..Len(idle) : idle[i] # c
    BY <1>0, <1>2, <1>3 DEF Ownership, SoleOwner
  <1>8. ASSUME NEW r \in Callers
        PROVE  /\ (conn[r] # NoConn)' <=> (Borrows(r) \/ Closes(r))'
               /\ (result[r] = "conn" \/ pc[r] = "using")' => (connState[conn[r]] = "borrowed")'
               /\ (pc[r] \in {"returning", "discarding"})' => (connState[conn[r]] = "returning")'
               /\ Closes(r)' => (connState[conn[r]] = "closing")'
    <2>1. /\ Borrows(r)' <=> Borrows(r)
          /\ Closes(r)' <=> Closes(r)
          /\ conn'[r] = conn[r] /\ pc'[r] = pc[r] /\ result'[r] = result[r]
      BY <1>1 DEF Borrows, Closes
    <2>2. Borrows(r) \/ Closes(r) => connState'[conn[r]] = connState[conn[r]]
      BY <1>0, <1>5, <1>6, HolderTypes
    <2> QED
      BY <1>0, <2>1, <2>2, StillHolds
  <1>9. \A i \in 1..Len(idle') : connState'[idle'[i]] = "idle"
    BY <1>0, <1>1, <1>5, <1>7 DEF Ownership, FieldTypes
  <1>10. \A i \in 1..Len(closeList') : connState'[closeList'[i]] = "closing"
    <2>1. \A i \in 1..Len(closeList) : connState[closeList[i]] = "closing"
      BY <1>0 DEF Ownership
    <2> QED
      BY <1>4, <1>5, <2>1
  <1>11. SoleOwner'
    <2>1. Distinct(closeList')
      <3>1. ASSUME NEW i \in 1..Len(closeList'), NEW j \in 1..Len(closeList'),
                   closeList'[i] = closeList'[j]
            PROVE  i = j
        <4>1. i + 1 = j + 1
          <5>1. Distinct(closeList)
            BY <1>0, Apart
          <5> QED
            BY <1>4, <3>1, <5>1 DEF Distinct
        <4> QED
          BY <4>1
      <3> QED
        BY <3>1 DEF Distinct
    <2>2. \A r \in Callers : \A i \in 1..Len(closeList') : closeList'[i] # conn[r]
      <3>1. \A r \in Callers, i \in 1..Len(closeList) : closeList[i] # conn[r]
        BY <1>0, Apart
      <3> QED
        BY <1>4, <3>1
    <2>3. \A i \in 1..Len(idle), j \in 1..Len(closeList') : idle[i] # closeList'[j]
      <3>1. \A i \in 1..Len(idle), j \in 1..Len(closeList) : idle[i] # closeList[j]
        BY <1>0, Apart
      <3> QED
        BY <1>4, <3>1
    <2>4. idle' = idle /\ conn' = conn
      BY <1>1
    <2>5. /\ Distinct(idle)
          /\ \A r, s \in Callers : r # s /\ conn[r] # NoConn => conn[r] # conn[s]
          /\ \A r \in Callers : \A i \in 1..Len(idle) : idle[i] # conn[r]
      BY <1>0 DEF Ownership, SoleOwner
    <2> QED
      BY <2>1, <2>2, <2>3, <2>4, <2>5 DEF SoleOwner, Distinct
  <1> QED
    BY <1>8, <1>9, <1>10, <1>11 DEF Ownership

\* The ring after getConnFromIdle took a connection from it.
LEMMA PopLeaves ==
  ASSUME FieldTypes, Distinct(idle), idle # <<>>
  PROVE  /\ Distinct(AfterPop)
         /\ \A i \in 1..Len(AfterPop) :
               \E j \in 1..Len(idle) : AfterPop[i] = idle[j] /\ idle[j] # idle[PopIndex]
  <1>1. /\ PopIndex \in 1..Len(idle)
        /\ Len(AfterPop) = Len(idle) - 1
        /\ \A i \in 1..Len(AfterPop) : AfterPop[i] = idle[IF PoolFIFO THEN i + 1 ELSE i]
    BY PopTypes
  <1>2. Len(idle) \in Nat
    BY DEF FieldTypes
  <1>3. CASE PoolFIFO
    <2>1. \A i \in 1..(Len(idle) - 1) : AfterPop[i] = idle[i + 1]
      BY <1>1, <1>3
    <2>2. ASSUME NEW i \in 1..Len(AfterPop)
          PROVE  i + 1 \in 1..Len(idle) /\ i + 1 # 1 /\ i \in 1..(Len(idle) - 1)
      BY <1>1, <1>2
    <2>3. PopIndex = 1 /\ 1 \in 1..Len(idle)
      BY <1>1, <1>3 DEF PopIndex
    <2>4. \A i \in 1..Len(AfterPop) : AfterPop[i] = idle[i + 1] /\ idle[i + 1] # idle[PopIndex]
      BY <2>1, <2>2, <2>3 DEF Distinct
    <2>5. ASSUME NEW i \in 1..Len(AfterPop), NEW j \in 1..Len(AfterPop), AfterPop[i] = AfterPop[j]
          PROVE  i = j
      <3>1. i + 1 = j + 1
        BY <2>2, <2>4, <2>5 DEF Distinct
      <3> QED
        BY <3>1
    <2> QED
      BY <2>2, <2>4, <2>5 DEF Distinct
  <1>4. CASE ~PoolFIFO
    <2>1. \A i \in 1..(Len(idle) - 1) : AfterPop[i] = idle[i]
      BY <1>1, <1>4
    <2>2. ASSUME NEW i \in 1..Len(AfterPop)
          PROVE  i \in 1..Len(idle) /\ i # Len(idle) /\ i \in 1..(Len(idle) - 1)
      BY <1>1, <1>2
    <2>3. PopIndex = Len(idle)
      BY <1>4 DEF PopIndex
    <2>4. \A i \in 1..Len(AfterPop) : AfterPop[i] = idle[i] /\ idle[i] # idle[PopIndex]
      BY <1>1, <2>1, <2>2, <2>3 DEF Distinct
    <2> QED
      BY <2>2, <2>4 DEF Distinct
  <1> QED
    BY <1>3, <1>4

\* Every critical section keeps each connection in one place.
LEMMA OwnershipStep == IInv /\ [Next]_vars => Ownership'
  <1> SUFFICES ASSUME IInv, [Next]_vars PROVE Ownership'
    OBVIOUS
  <1>0. FieldTypes /\ QueueShape /\ Ownership /\ FieldTypes' /\ Distinct(waiters) /\ Distinct(idle)
    BY Zenon, TypesStep DEF IInv, QueueShape, Ownership, SoleOwner
  <1>00. \A r \in Callers : In(r, waiters) => Waits(r) /\ result[r] = "none"
    BY <1>0 DEF QueueShape, Queued, In
  <1>1. ASSUME NEW p \in Callers, Get(p) PROVE Ownership'
    <2>1. CASE GetClosed(p) \/ GetQueueFull(p)
      BY Zenon, <1>0, <2>1, OwnershipKept DEF GetClosed, GetQueueFull, vars
    <2>2. CASE GetIdle(p) \/ GetStale(p)
      <3> DEFINE c == idle[PopIndex]
      <3>1. /\ pc[p] = "out" /\ idle # <<>> /\ idle' = AfterPop
            /\ UNCHANGED <<closeList, result>>
        BY <2>2 DEF GetIdle, GetStale
      <3>2. conn[p] = NoConn
        BY <1>0, <3>1, HoldsNothing
      <3>3. c \in Conns /\ PopIndex \in 1..Len(idle)
        BY <1>0, <3>1, PopTypes
      <3>4. connState[c] = "idle"
        BY <1>0, <3>3 DEF Ownership
      <3>5. /\ Distinct(idle')
            /\ \A i \in 1..Len(idle') : \E j \in 1..Len(idle) : idle'[i] = idle[j] /\ idle[j] # c
        BY <1>0, <3>1, PopLeaves
      <3>6. Distinct(idle)'
        BY <3>5 DEF Distinct
      <3>7. CASE GetIdle(p)
        <4>1. /\ connState' = [connState EXCEPT ![c] = "borrowed"]
              /\ pc' = [pc EXCEPT ![p] = "using"]
              /\ conn' = [conn EXCEPT ![p] = c]
          BY <3>7 DEF GetIdle
        <4> HIDE DEF c
        <4> QED
          BY Zenon, <1>0, <3>1, <3>2, <3>3, <3>4, <3>5, <3>6, <4>1, OwnershipTaken
      <3>8. CASE GetStale(p)
        <4>1. /\ connState' = [connState EXCEPT ![c] = "closing"]
              /\ pc' = [pc EXCEPT ![p] = "replacing"]
              /\ conn' = [conn EXCEPT ![p] = c]
          BY <3>8 DEF GetStale, BeginPhysicalClose
        <4> HIDE DEF c
        <4> QED
          BY Zenon, <1>0, <3>1, <3>2, <3>3, <3>4, <3>5, <3>6, <4>1, OwnershipTaken
      <3> QED
        BY <2>2, <3>7, <3>8
    <2>3. CASE GetNew(p)
      BY <1>0, <2>3, OwnershipKept DEF GetNew, FieldTypes
    <2>4. CASE GetWait(p)
      <3>1. pc[p] = "out" /\ DispatchCapacityWaiters(Append(waiters, p), CapacityUsed, creating)
        BY <2>4 DEF GetWait
      <3>2. ~In(p, waiters) /\ result[p] = "none"
        BY <1>0, <3>1, OutsideQueue DEF Waits
      <3>3. /\ Append(waiters, p) \in Seq(Callers)
            /\ Distinct(Append(waiters, p))
            /\ \A r \in Callers : In(r, Append(waiters, p)) <=> In(r, waiters) \/ r = p
        BY <1>0, <3>2, AppendJoins DEF FieldTypes
      <3>4. CapacityUsed \in Int /\ creating \in Int
        BY <1>0, UsedType DEF FieldTypes
      <3>5. \A r \in Callers : In(r, Append(waiters, p)) => result[r] = "none"
        BY <1>00, <3>2, <3>3
      <3>6. \A r \in Callers : result'[r] = "conn" <=> result[r] = "conn"
        BY Zenon, <1>0, <3>1, <3>3, <3>4, <3>5, DispatchKeepsLoans
      <3>7. /\ UNCHANGED <<idle, closeList, conn, connState>>
            /\ pc'[p] = "waiting"
            /\ \A r \in Callers \ {p} : pc'[r] = pc[r]
        BY <1>0, <2>4 DEF GetWait, FieldTypes
      <3> QED
        BY <1>0, <3>1, <3>6, <3>7, OwnershipKept
    <2> QED
      BY <1>1, <2>1, <2>2, <2>3, <2>4 DEF Get
  <1>2. ASSUME NEW p \in Callers, Release(p) PROVE Ownership'
    <2>1. pc[p] = "using" /\ Borrows(p) /\ result[p] # "conn"
      BY <1>0, <1>2, OutsideQueue DEF Release, Close, Discard, BeginRelease, Borrows, Waits
    <2> QED
      BY <1>0, <1>2, <2>1, OwnershipAdvances DEF Release, Close, Discard, BeginRelease
  <1>3. ASSUME NEW p \in Callers, StopWaiting(p) PROVE Ownership'
    BY <1>0, <1>3, OwnershipKept DEF StopWaiting, FieldTypes
  <1>4. ASSUME NEW p \in Callers, Progress(p) PROVE Ownership'
    <2>1. CASE ReplaceStale(p) \/ CloseDone(p)
      <3>1. Closes(p) /\ result[p] # "conn"
        BY Zenon, <1>0, <2>1, OutsideQueue DEF ReplaceStale, CloseDone, Closes, Waits
      <3>2. PICK more \in {0, 1} : AfterPhysicalClose(p, more)
        BY <2>1 DEF ReplaceStale, CloseDone
      <3>3. \A r \in Callers : result'[r] = "conn" <=> result[r] = "conn"
        <4>1. CASE closed
          BY Zenon, <3>2, <4>1 DEF AfterPhysicalClose
        <4>2. CASE ~closed
          <5>1. DispatchCapacityWaiters(waiters, CapacityUsed - 1, creating + more)
            BY Zenon, <3>2, <4>2 DEF AfterPhysicalClose
          <5>2. waiters \in Seq(Callers) /\ CapacityUsed - 1 \in Int /\ creating + more \in Int
            BY <1>0, UsedType DEF FieldTypes
          <5> QED
            BY <1>0, <1>00, <5>1, <5>2, DispatchKeepsLoans
        <4> QED
          BY <4>1, <4>2
      <3>4. connState' = [connState EXCEPT ![conn[p]] = "closed"]
        BY <3>2 DEF AfterPhysicalClose
      <3>5. /\ UNCHANGED <<idle, closeList>>
            /\ conn' = [conn EXCEPT ![p] = NoConn]
            /\ \E loc \in {"out", "creating"} : pc' = [pc EXCEPT ![p] = loc]
        BY <2>1 DEF ReplaceStale, CloseDone, Leave
      <3> QED
        BY Zenon, <1>0, <3>1, <3>3, <3>4, <3>5, OwnershipEnds
    <2>2. ASSUME NEW c \in Conns, CreateDone(p, c) \/ CreateDoneClosed(p, c)
          PROVE  Ownership'
      <3>1. pc[p] = "creating" /\ connState[c] = "closed" /\ UNCHANGED <<idle, closeList, result>>
        BY <2>2 DEF CreateDone, CreateDoneClosed
      <3>2. conn[p] = NoConn
        BY <1>0, <3>1, HoldsNothing
      <3>3. \A i \in 1..Len(idle') : \E j \in 1..Len(idle) : idle'[i] = idle[j] /\ idle[j] # c
        BY <1>0, <3>1 DEF Ownership
      <3>4. Distinct(idle)'
        BY <1>0, <3>1 DEF Distinct
      <3>5. CASE CreateDone(p, c)
        <4>1. /\ connState' = [connState EXCEPT ![c] = "borrowed"]
              /\ pc' = [pc EXCEPT ![p] = "using"]
              /\ conn' = [conn EXCEPT ![p] = c]
          BY <3>5 DEF CreateDone
        <4> QED
          BY Zenon, <1>0, <3>1, <3>2, <3>3, <3>4, <4>1, OwnershipTaken
      <3>6. CASE CreateDoneClosed(p, c)
        <4>1. /\ connState' = [connState EXCEPT ![c] = "closing"]
              /\ pc' = [pc EXCEPT ![p] = "closing"]
              /\ conn' = [conn EXCEPT ![p] = c]
          BY <3>6 DEF CreateDoneClosed, BeginPhysicalClose
        <4> QED
          BY Zenon, <1>0, <3>1, <3>2, <3>3, <3>4, <4>1, OwnershipTaken
      <3> QED
        BY <2>2, <3>5, <3>6
    <2>3. CASE CreateFailed(p) \/ CreateFailedClosed(p)
      <3>1. pc[p] = "creating" /\ UNCHANGED <<idle, closeList, connState>> /\ Leave(p)
        BY Zenon, <2>3 DEF CreateFailed, CreateFailedClosed
      <3>2. conn[p] = NoConn
        BY <1>0, <3>1, HoldsNothing
      <3>3. conn' = conn /\ pc'[p] = "out" /\ \A r \in Callers \ {p} : pc'[r] = pc[r]
        BY <1>0, <3>1, <3>2 DEF Leave, FieldTypes
      <3>4. \A r \in Callers : result'[r] = "conn" <=> result[r] = "conn"
        <4>1. CASE CreateFailed(p)
          <5>1. DispatchCapacityWaiters(waiters, CapacityUsed - 1, creating - 1)
            BY <4>1 DEF CreateFailed
          <5>2. waiters \in Seq(Callers) /\ CapacityUsed - 1 \in Int /\ creating - 1 \in Int
            BY <1>0, UsedType DEF FieldTypes
          <5> QED
            BY <1>0, <1>00, <5>1, <5>2, DispatchKeepsLoans
        <4>2. CASE CreateFailedClosed(p)
          BY <4>2 DEF CreateFailedClosed
        <4> QED
          BY <2>3, <4>1, <4>2
      <3> QED
        BY <1>0, <3>1, <3>3, <3>4, OwnershipKept
    <2>4. CASE ReceiveConn(p)
      <3>1. /\ Waits(p) /\ result[p] = "conn"
            /\ result' = [result EXCEPT ![p] = "none"]
            /\ pc' = [pc EXCEPT ![p] = "using"]
            /\ UNCHANGED <<idle, closeList, conn, connState>>
        BY <2>4 DEF ReceiveConn, Received, Waits
      <3>2. /\ result'[p] = "none" /\ pc'[p] = "using"
            /\ \A r \in Callers \ {p} : result'[r] = result[r] /\ pc'[r] = pc[r]
        BY Zenon, <1>0, <3>1 DEF FieldTypes
      <3>3. \A r \in Callers : (Borrows(r)' <=> Borrows(r)) /\ (Closes(r)' <=> Closes(r))
        BY <3>1, <3>2 DEF Borrows, Closes, Waits
      <3>4. ASSUME NEW r \in Callers
            PROVE  /\ (result[r] = "conn" \/ pc[r] = "using")' <=> (result[r] = "conn" \/ pc[r] = "using")
                   /\ (pc[r] \in {"returning", "discarding"})' <=> pc[r] \in {"returning", "discarding"}
        BY <3>1, <3>2 DEF Waits
      <3>5. SoleOwner'
        BY <1>0, <3>1, SoleOwnerKept
      <3> QED
        BY <1>0, <3>1, <3>3, <3>4, <3>5 DEF Ownership
    <2>5. CASE ReceiveClosed(p) \/ ReceiveCreate(p) \/ ReceiveCreateClosed(p)
      <3>1. /\ Waits(p) /\ result[p] # "conn"
            /\ result' = [result EXCEPT ![p] = "none"]
            /\ \E loc \in {"out", "creating"} : pc' = [pc EXCEPT ![p] = loc]
            /\ conn' = conn \/ conn' = [conn EXCEPT ![p] = NoConn]
            /\ UNCHANGED <<idle, closeList, connState>>
        BY Zenon, <2>5 DEF ReceiveClosed, ReceiveCreate, ReceiveCreateClosed, Received, Waits, Leave
      <3>2. conn[p] = NoConn
        BY <1>0, <3>1, HoldsNothing
      <3>3. /\ conn' = conn
            /\ pc'[p] \in {"out", "creating"}
            /\ \A r \in Callers \ {p} : pc'[r] = pc[r]
            /\ \A r \in Callers : result'[r] = "conn" <=> result[r] = "conn"
        BY <1>0, <3>1, <3>2 DEF FieldTypes
      <3>4. pc[p] \in {"out", "creating", "waiting", "cancelling"}
        BY <3>1 DEF Waits
      <3> QED
        BY <1>0, <3>1, <3>3, <3>4, OwnershipKept
    <2>6. CASE CancelWaiter(p)
      <3>1. PICK i \in 1..Len(waiters) :
                   waiters[i] = p /\ DispatchCapacityWaiters(Without(i), CapacityUsed, creating)
        BY <2>6 DEF CancelWaiter
      <3>2. In(p, waiters)
        BY <3>1 DEF In
      <3>3. conn[p] = NoConn
        BY <1>0, <1>00, <3>2, HoldsNothing
      <3>4. /\ Without(i) \in Seq(Callers)
            /\ Distinct(Without(i))
            /\ \A r \in Callers : In(r, Without(i)) <=> In(r, waiters) /\ r # p
        BY <1>0, <3>1, WithoutTypes, WithoutLeaves
      <3>5. CapacityUsed \in Int /\ creating \in Int
        BY <1>0, UsedType DEF FieldTypes
      <3>6. \A r \in Callers : In(r, Without(i)) => result[r] = "none"
        BY <1>00, <3>4
      <3>7. \A r \in Callers : result'[r] = "conn" <=> result[r] = "conn"
        BY <1>0, <3>1, <3>4, <3>5, <3>6, DispatchKeepsLoans
      <3>8. /\ pc[p] = "cancelling" /\ UNCHANGED <<idle, closeList, connState>>
            /\ conn' = conn /\ pc'[p] = "out" /\ \A r \in Callers \ {p} : pc'[r] = pc[r]
        BY <1>0, <2>6, <3>3 DEF CancelWaiter, Leave, FieldTypes
      <3> QED
        BY <1>0, <3>7, <3>8, OwnershipKept
    <2>7. CASE DiscardClose(p) \/ PutClosed(p) \/ PutUnusable(p)
      <3>1. /\ pc[p] \in {"discarding", "returning"}
            /\ UNCHANGED <<idle, closeList, result>>
            /\ connState' = [connState EXCEPT ![conn[p]] = "closing"]
            /\ conn' = [conn EXCEPT ![p] = conn[p]]
            /\ pc' = [pc EXCEPT ![p] = "closing"]
        BY <2>7 DEF DiscardClose, PutClosed, PutUnusable, BeginPhysicalClose
      <3>2. Borrows(p) /\ result[p] # "conn"
        BY <1>0, <3>1, OutsideQueue DEF Borrows, Waits
      <3>3. conn' = conn
        BY <1>0, <3>1 DEF FieldTypes
      <3> QED
        BY Zenon, <1>0, <3>1, <3>2, <3>3, OwnershipAdvances
    <2>8. CASE PutHandoff(p) \/ PutIdle(p) \/ PutEvict(p)
      BY <2>8, OwnershipHandedOver, OwnershipReturned, OwnershipSwapped
    <2> QED
      BY <1>4, <2>1, <2>2, <2>3, <2>4, <2>5, <2>6, <2>7, <2>8 DEF Progress
  <1>5. ASSUME NEW k \in Closers, PoolClose(k) PROVE Ownership'
    BY <1>5, OwnershipClosed
  <1>6. CASE CloseIdleConnection
    BY <1>6, OwnershipDrained
  <1>7. CASE \/ \E k \in Closers : PoolCloseAgain(k) \/ PoolCloseReturns(k) \/ PoolCloseExpires(k)
             \/ UNCHANGED vars
    <2>1. UNCHANGED <<idle, closeList, conn, connState, result, pc>>
      BY <1>7 DEF PoolCloseAgain, PoolCloseReturns, PoolCloseExpires, vars
    <2>2. SoleOwner'
      BY <1>0, <2>1, SoleOwnerKept
    <2> QED
      BY <1>0, <2>1, <2>2 DEF Ownership, Borrows, Closes
  <1> QED
    BY <1>1, <1>2, <1>3, <1>4, <1>5, <1>6, <1>7 DEF Next
=============================================================================
