------------------------------ MODULE TaskQueues -----------------------------
(***************************************************************************)
(* The worker pool of workpool/pool.go and, step by step, the lock-free    *)
(* queue of cas/queue.go that it keeps its tasks in.  The pool is checked  *)
(* against an atomic queue and the queue against that atomic queue, so a   *)
(* behaviour is one of the two; "running" tells which.                     *)
(***************************************************************************)
EXTENDS WorkPool, CasQueue

VARIABLE running

queuesVars == <<running, vars, casVars>>

QueuesInit ==
    /\ running \in {"pool", "queue"}
    /\ Init /\ (running = "pool" \/ casMode)
    /\ CasInit

OfPool == running = "pool" /\ UNCHANGED <<running, casVars>>
OfQueue == running = "queue" /\ UNCHANGED <<running, vars>>

QueuesNext ==
    \/ OfPool /\ Next
    \/ OfQueue /\ CasNext

\* A goroutine of the pool that can run does, and Process returns.  The Go
\* scheduler also runs every goroutine that calls the queue; the Stalled ones
\* stand for goroutines that are preempted for as long as it takes.
FairSpec ==
    /\ QueuesInit /\ [][QueuesNext]_queuesVars
    /\ \A t \in Tasks : WF_queuesVars(OfPool /\ Adding(t))
    /\ \A w \in Workers : WF_queuesVars(OfPool /\ Work(w))
    /\ WF_queuesVars(OfPool /\ Stopping)
    /\ \A p \in Procs \ Stalled : WF_queuesVars(OfQueue /\ (PushStep(p) \/ PopStep(p)))
=============================================================================
