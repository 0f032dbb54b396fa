-------------------------------- MODULE Fifo ---------------------------------
(***************************************************************************)
(* A linearizable first-in first-out queue: every push and every pop takes *)
(* effect at once, somewhere between its call and its return.  A pop may   *)
(* report an empty queue only if the queue was empty at some moment since  *)
(* it was called.                                                          *)
(*                                                                         *)
(* cas/queue.go is shown to implement this specification (CasQueue.tla).   *)
(***************************************************************************)
EXTENDS Sequences

CONSTANTS Procs,   \* goroutines
          Values,  \* what can be pushed
          Nothing, \* no result yet
          Empty    \* the result of a pop that found nothing

VARIABLES contents,  \* the queue, oldest first
          result,    \* result[p]: what p's last pop returned
          emptySeen  \* the queue was empty since p's pop was called

fifoVars == <<contents, result, emptySeen>>

FInit ==
    /\ contents = <<>>
    /\ result = [p \in Procs |-> Nothing]
    /\ emptySeen = [p \in Procs |-> FALSE]

FPush(v) ==
    /\ contents' = Append(contents, v)
    /\ UNCHANGED <<result, emptySeen>>

FCallPop(p) ==
    /\ result' = [result EXCEPT ![p] = Nothing]
    /\ emptySeen' = [emptySeen EXCEPT ![p] = contents = <<>>]
    /\ UNCHANGED contents

FTake(p) ==
    /\ contents # <<>>
    /\ result' = [result EXCEPT ![p] = Head(contents)]
    /\ contents' = Tail(contents)
    /\ emptySeen' = [r \in Procs |-> emptySeen[r] \/ Tail(contents) = <<>>]

FReportEmpty(p) ==
    /\ emptySeen[p]
    /\ result' = [result EXCEPT ![p] = Empty]
    /\ UNCHANGED <<contents, emptySeen>>

FNext ==
    \/ \E v \in Values : FPush(v)
    \/ \E p \in Procs : FCallPop(p) \/ FTake(p) \/ FReportEmpty(p)

FSpec == FInit /\ [][FNext]_fifoVars
=============================================================================
