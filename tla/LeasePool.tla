------------------------------ MODULE LeasePool ------------------------------
(***************************************************************************)
(* What a connection pool promises its users, without queues, counters or  *)
(* locks: a connection is lent to one caller at a time, a pool that was    *)
(* shut down lends nothing any more, and the shutdown is reported complete *)
(* only when no connection is lent.                                        *)
(*                                                                         *)
(* gpool/gpool.go is shown to implement this specification (Gpool.tla).    *)
(***************************************************************************)

CONSTANTS Callers,  \* goroutines that borrow connections
          Conns,    \* connections
          NoConn    \* "borrows nothing"

VARIABLES lease,     \* lease[p]: the connection lent to p, or NoConn
          shut,      \* the pool no longer lends
          drained    \* the shutdown has been reported complete

leaseVars == <<lease, shut, drained>>

LInit ==
    /\ lease = [p \in Callers |-> NoConn]
    /\ shut = FALSE
    /\ drained = FALSE

Free(c) == \A p \in Callers : lease[p] # c

\* A free connection is lent to a caller that has none.
Grant(p, c) ==
    /\ ~shut
    /\ lease[p] = NoConn
    /\ Free(c)
    /\ lease' = [lease EXCEPT ![p] = c]
    /\ UNCHANGED <<shut, drained>>

\* p gives its connection back.
Revert(p) ==
    /\ lease[p] # NoConn
    /\ lease' = [lease EXCEPT ![p] = NoConn]
    /\ UNCHANGED <<shut, drained>>

\* p's connection goes straight to q, without becoming free in between.
HandOver(p, q) ==
    /\ ~shut
    /\ lease[p] # NoConn
    /\ lease[q] = NoConn
    /\ lease' = [lease EXCEPT ![p] = NoConn, ![q] = lease[p]]
    /\ UNCHANGED <<shut, drained>>

\* The pool stops lending; it may be drained at once if nothing is lent.
Shut ==
    /\ ~shut
    /\ shut' = TRUE
    /\ drained' \in {FALSE, \A p \in Callers : lease[p] = NoConn}
    /\ UNCHANGED lease

\* The shutdown is reported complete once nothing is lent.
Drain ==
    /\ shut
    /\ \A p \in Callers : lease[p] = NoConn
    /\ drained' = TRUE
    /\ UNCHANGED <<lease, shut>>

LNext ==
    \/ \E p \in Callers : Revert(p)
    \/ \E p \in Callers, c \in Conns : Grant(p, c)
    \/ \E p, q \in Callers : HandOver(p, q)
    \/ Shut
    \/ Drain

LSpec == LInit /\ [][LNext]_leaseVars
=============================================================================
