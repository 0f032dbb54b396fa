------------------------------ MODULE IdleDeque ------------------------------
(***************************************************************************)
(* What the pool needs from its collection of idle connections: a bounded  *)
(* sequence, filled at one end and emptied at either end.  Gpool.tla uses  *)
(* idle connections this way; IdleRing.tla is how the code stores them.    *)
(***************************************************************************)
EXTENDS Integers, Sequences

CONSTANTS Items, Nil, Capacity

VARIABLES deque,  \* the stored items, oldest first
          ret     \* what the last operation returned

dequeVars == <<deque, ret>>

DInit == deque = <<>> /\ ret = Nil

DPush(c) ==
    /\ Len(deque) < Capacity
    /\ deque' = Append(deque, c)
    /\ ret' = TRUE

\* Nothing is stored: no item, or no room.
DRefuse(c) ==
    /\ c = Nil \/ Len(deque) = Capacity
    /\ ret' = FALSE
    /\ UNCHANGED deque

DPop ==
    /\ deque # <<>>
    /\ ret' = Head(deque)
    /\ deque' = Tail(deque)

DPopNewest ==
    /\ deque # <<>>
    /\ ret' = deque[Len(deque)]
    /\ deque' = SubSeq(deque, 1, Len(deque) - 1)

DEmpty ==
    /\ deque = <<>>
    /\ ret' = Nil
    /\ UNCHANGED deque

DNext ==
    \/ \E c \in Items : DPush(c)
    \/ \E c \in Items \cup {Nil} : DRefuse(c)
    \/ DPop
    \/ DPopNewest
    \/ DEmpty

DSpec == DInit /\ [][DNext]_dequeVars
=============================================================================
