------------------------------- MODULE WorkPool ------------------------------
(***************************************************************************)
(* The worker pool of workpool/pool.go, in both queue modes.               *)
(*                                                                         *)
(* AddTask and stop work under WorkPool.mu, but workers take tasks off the *)
(* queue without it, so AddTask and stop are broken up where a worker can  *)
(* interleave.  The queue is an atomic FIFO: a Go channel, or the CAS      *)
(* queue (CasQueue.tla).                                                   *)
(***************************************************************************)
EXTENDS Integers, Sequences, FiniteSets

CONSTANTS Workers,    \* the PoolSize goroutines started by Run
          Tasks,      \* tasks that may be submitted (bounds the AddTask calls)
          Free,       \* nobody holds the mutex
          Stopper,    \* the goroutine inside stopOnce.Do
          NoTask,
          ConfQueueSize  \* Options.QueueSize, channel mode only

ASSUME PoolAssumption ==
    /\ IsFiniteSet(Workers) /\ Workers # {}
    /\ ConfQueueSize \in Nat
    /\ NoTask \notin Tasks /\ Free \notin Tasks /\ Stopper \notin Tasks /\ Free # Stopper

VARIABLES casMode,   \* QueueMode: TRUE for QueueModeCAS, FALSE for QueueModeChannel
          queue,     \* TaskQ or tasks
          notify,    \* number of tokens in Notify (CAS mode)
          parallel,  \* the queued-task counter
          mu,        \* who holds WorkPool.mu across several steps
          started,
          stopped,
          cancelled, \* wp.ctx is done
          task,      \* submission: new, adding, pushed, accepted or rejected
          outcome,   \* what complete stored, or "none"
          wpc,       \* where worker w is
          held       \* the task worker w has taken

vars == <<casMode, queue, notify, parallel, mu, started, stopped, cancelled, task,
          outcome, wpc, held>>

PoolSize == Cardinality(Workers)

\* NewWorkPoolWithOptions
QueueSize == IF ConfQueueSize = 0 THEN PoolSize ELSE ConfQueueSize

Outcomes == {"ok", "error", "panic", "cancelled", "closed"}

\* off: not started; fetch: about to take a task; select: found nothing, in the
\* select; took: has a task, parallel not yet decremented; check: before
\* isStopped; start: entered execute; run: in Process; done: returned.
WorkerLocations == {"off", "fetch", "select", "took", "check", "start", "run", "done"}

Init ==
    /\ casMode \in BOOLEAN
    /\ queue = <<>>
    /\ notify = 0
    /\ parallel = 0
    /\ mu = Free
    /\ started = FALSE
    /\ stopped = FALSE
    /\ cancelled = FALSE
    /\ task = [t \in Tasks |-> "new"]
    /\ outcome = [t \in Tasks |-> "none"]
    /\ wpc = [w \in Workers |-> "off"]
    /\ held = [w \in Workers |-> NoTask]

\* Task.complete: the first completion counts.
Complete(t, r) == outcome' = [outcome EXCEPT ![t] = IF @ = "none" THEN r ELSE @]

-----------------------------------------------------------------------------
(* AddTask *)

\* ErrPoolClosed
AddClosed(t) ==
    /\ task[t] = "new"
    /\ mu = Free
    /\ stopped
    /\ task' = [task EXCEPT ![t] = "rejected"]
    /\ UNCHANGED <<casMode, queue, notify, parallel, mu, started, stopped, cancelled,
                   outcome, wpc, held>>

\* The lock is taken and the task counted.
AddBegin(t) ==
    /\ task[t] = "new"
    /\ mu = Free
    /\ ~stopped
    /\ parallel' = parallel + 1
    /\ mu' = t
    /\ task' = [task EXCEPT ![t] = "adding"]
    /\ UNCHANGED <<casMode, queue, notify, started, stopped, cancelled, outcome, wpc,
                   held>>

\* CAS mode: PushBack always succeeds.
AddPush(t) ==
    /\ casMode
    /\ task[t] = "adding"
    /\ queue' = Append(queue, t)
    /\ task' = [task EXCEPT ![t] = "pushed"]
    /\ UNCHANGED <<casMode, notify, parallel, mu, started, stopped, cancelled, outcome,
                   wpc, held>>

\* Mutant: no worker is woken.
AddNotify_Silent(t) ==
    /\ task[t] = "pushed"
    /\ mu' = Free
    /\ task' = [task EXCEPT ![t] = "accepted"]
    /\ UNCHANGED <<casMode, queue, notify, parallel, started, stopped, cancelled,
                   outcome, wpc, held>>

\* CAS mode: a token is put into Notify unless it is full, and the lock released.
AddNotify(t) ==
    /\ task[t] = "pushed"
    /\ notify' = IF notify < PoolSize THEN notify + 1 ELSE notify
    /\ mu' = Free
    /\ task' = [task EXCEPT ![t] = "accepted"]
    /\ UNCHANGED <<casMode, queue, parallel, started, stopped, cancelled, outcome, wpc,
                   held>>

\* Channel mode: the task is sent.
AddSend(t) ==
    /\ ~casMode
    /\ task[t] = "adding"
    /\ Len(queue) < QueueSize
    /\ queue' = Append(queue, t)
    /\ mu' = Free
    /\ task' = [task EXCEPT ![t] = "accepted"]
    /\ UNCHANGED <<casMode, notify, parallel, started, stopped, cancelled, outcome, wpc,
                   held>>

\* Channel mode: ErrPoolFull.
AddFull(t) ==
    /\ ~casMode
    /\ task[t] = "adding"
    /\ Len(queue) >= QueueSize
    /\ parallel' = parallel - 1
    /\ mu' = Free
    /\ task' = [task EXCEPT ![t] = "rejected"]
    /\ UNCHANGED <<casMode, queue, notify, started, stopped, cancelled, outcome, wpc,
                   held>>

-----------------------------------------------------------------------------
(* Run, worker, nextCASTask, execute *)

Run ==
    /\ mu = Free
    /\ ~started /\ ~stopped
    /\ started' = TRUE
    /\ wpc' = [w \in Workers |-> "fetch"]
    /\ UNCHANGED <<casMode, queue, notify, parallel, mu, stopped, cancelled, task,
                   outcome, held>>

Goto(w, loc) == wpc' = [wpc EXCEPT ![w] = loc]

\* The oldest task is taken: PopFront or a receive from tasks.
Take(w) ==
    /\ wpc[w] \in (IF casMode THEN {"fetch"} ELSE {"fetch", "select"})
    /\ queue # <<>>
    /\ queue' = Tail(queue)
    /\ held' = [held EXCEPT ![w] = Head(queue)]
    /\ Goto(w, "took")
    /\ UNCHANGED <<casMode, notify, parallel, mu, started, stopped, cancelled, task,
                   outcome>>

\* PopFront finds nothing, or the select of channel mode has to wait.
FindNothing(w) ==
    /\ wpc[w] = "fetch"
    /\ queue = <<>>
    /\ Goto(w, "select")
    /\ UNCHANGED <<casMode, queue, notify, parallel, mu, started, stopped, cancelled,
                   task, outcome, held>>

\* CAS mode: a token of Notify wakes the worker.
WakeUp(w) ==
    /\ casMode
    /\ wpc[w] = "select"
    /\ notify > 0
    /\ notify' = notify - 1
    /\ Goto(w, "fetch")
    /\ UNCHANGED <<casMode, queue, parallel, mu, started, stopped, cancelled, task,
                   outcome, held>>

\* The worker sees wp.ctx done and returns; in channel mode also when tasks is
\* not empty.
Quit(w) ==
    /\ wpc[w] \in (IF casMode THEN {"select"} ELSE {"fetch", "select"})
    /\ cancelled
    /\ Goto(w, "done")
    /\ UNCHANGED <<casMode, queue, notify, parallel, mu, started, stopped, cancelled,
                   task, outcome, held>>

CountTaken(w) ==
    /\ wpc[w] = "took"
    /\ parallel' = parallel - 1
    /\ Goto(w, "check")
    /\ UNCHANGED <<casMode, queue, notify, mu, started, stopped, cancelled, task,
                   outcome, held>>

\* isStopped is false.
Proceed(w) ==
    /\ wpc[w] = "check"
    /\ mu = Free
    /\ ~stopped
    /\ Goto(w, "start")
    /\ UNCHANGED <<casMode, queue, notify, parallel, mu, started, stopped, cancelled,
                   task, outcome, held>>

\* Mutant: the worker returns without completing the task it took.
TurnAway_Drops(w) ==
    /\ wpc[w] = "check"
    /\ mu = Free
    /\ stopped
    /\ held' = [held EXCEPT ![w] = NoTask]
    /\ Goto(w, "done")
    /\ UNCHANGED <<casMode, queue, notify, parallel, mu, started, stopped, cancelled,
                   task, outcome>>

\* isStopped is true: the task ends with ErrPoolClosed and the worker returns.
TurnAway(w) ==
    /\ wpc[w] = "check"
    /\ mu = Free
    /\ stopped
    /\ Complete(held[w], "closed")
    /\ held' = [held EXCEPT ![w] = NoTask]
    /\ Goto(w, "done")
    /\ UNCHANGED <<casMode, queue, notify, parallel, mu, started, stopped, cancelled,
                   task>>

\* execute finds its context cancelled: the pool was stopped after isStopped.
Abort(w) ==
    /\ wpc[w] = "start"
    /\ cancelled
    /\ Complete(held[w], "cancelled")
    /\ held' = [held EXCEPT ![w] = NoTask]
    /\ Goto(w, "fetch")
    /\ UNCHANGED <<casMode, queue, notify, parallel, mu, started, stopped, cancelled,
                   task>>

\* The cancellation is propagated by context.AfterFunc, so execute may go on
\* although the pool was stopped.
StartProcess(w) ==
    /\ wpc[w] = "start"
    /\ Goto(w, "run")
    /\ UNCHANGED <<casMode, queue, notify, parallel, mu, started, stopped, cancelled,
                   task, outcome, held>>

\* Process returns or panics.
EndProcess(w) ==
    /\ wpc[w] = "run"
    /\ \E r \in {"ok", "error", "panic"} : Complete(held[w], r)
    /\ held' = [held EXCEPT ![w] = NoTask]
    /\ Goto(w, "fetch")
    /\ UNCHANGED <<casMode, queue, notify, parallel, mu, started, stopped, cancelled,
                   task>>

-----------------------------------------------------------------------------
(* stop: Kill, Cancel or the end of Run's context; stopOnce lets one through *)

\* Mutant: wp.ctx is not cancelled.
StopBegin_NoCancel ==
    /\ mu = Free
    /\ ~stopped
    /\ stopped' = TRUE
    /\ mu' = Stopper
    /\ UNCHANGED <<casMode, queue, notify, parallel, started, cancelled, task, outcome,
                   wpc, held>>

StopBegin ==
    /\ mu = Free
    /\ ~stopped
    /\ stopped' = TRUE
    /\ cancelled' = TRUE
    /\ mu' = Stopper
    /\ UNCHANGED <<casMode, queue, notify, parallel, started, task, outcome, wpc, held>>

\* The drain completes one queued task.
StopDrain ==
    /\ mu = Stopper
    /\ queue # <<>>
    /\ queue' = Tail(queue)
    /\ parallel' = parallel - 1
    /\ Complete(Head(queue), "closed")
    /\ UNCHANGED <<casMode, notify, mu, started, stopped, cancelled, task, wpc, held>>

StopEnd ==
    /\ mu = Stopper
    /\ queue = <<>>
    /\ mu' = Free
    /\ UNCHANGED <<casMode, queue, notify, parallel, started, stopped, cancelled, task,
                   outcome, wpc, held>>

-----------------------------------------------------------------------------
Adding(t) == AddPush(t) \/ AddNotify(t) \/ AddSend(t) \/ AddFull(t)

Submit(t) == AddClosed(t) \/ AddBegin(t)

Work(w) ==
    \/ Take(w)
    \/ FindNothing(w)
    \/ WakeUp(w)
    \/ Quit(w)
    \/ CountTaken(w)
    \/ Proceed(w)
    \/ TurnAway(w)
    \/ Abort(w)
    \/ StartProcess(w)
    \/ EndProcess(w)

Stopping == StopDrain \/ StopEnd

Next ==
    \/ \E t \in Tasks : Submit(t) \/ Adding(t)
    \/ \E w \in Workers : Work(w)
    \/ Run
    \/ StopBegin
    \/ Stopping

-----------------------------------------------------------------------------
(* Properties *)

\* The fields of WorkPool and Task have their types.
TypeOK ==
    /\ casMode \in BOOLEAN
    /\ queue \in Seq(Tasks)
    /\ notify \in 0..PoolSize
    /\ parallel \in Nat
    /\ mu \in Tasks \cup {Free, Stopper}
    /\ started \in BOOLEAN
    /\ stopped \in BOOLEAN
    /\ cancelled \in BOOLEAN
    /\ task \in [Tasks -> {"new", "adding", "pushed", "accepted", "rejected"}]
    /\ outcome \in [Tasks -> Outcomes \cup {"none"}]
    /\ wpc \in [Workers -> WorkerLocations]
    /\ held \in [Workers -> Tasks \cup {NoTask}]

Queued(t) == \E i \in 1..Len(queue) : queue[i] = t

\* A published task that is not completed is in the queue or with one worker,
\* never in both and never twice; a completed or rejected one is nowhere.
OnePlace ==
    /\ \A i, j \in 1..Len(queue) : queue[i] = queue[j] => i = j
    /\ \A v, w \in Workers : v # w /\ held[v] # NoTask => held[v] # held[w]
    /\ \A t \in Tasks :
          LET published == task[t] \in {"pushed", "accepted"}
              taken     == \E w \in Workers : held[w] = t
          IN  /\ Queued(t) => ~taken
              /\ Queued(t) \/ taken <=> published /\ outcome[t] = "none"

\* The counter is one per task that AddTask has counted and nobody has taken
\* off the count: it is never behind the queue and never negative.
CountExact ==
    parallel = Len(queue) + Cardinality({t \in Tasks : task[t] = "adding"})
                          + Cardinality({w \in Workers : wpc[w] = "took"})

\* Once stop has released the mutex the queue stays empty: a task is either
\* rejected, or it was accepted early enough to be completed.
StoppedIsDrained == stopped /\ mu # Stopper => queue = <<>>

\* The three together: every task AddTask took on is in exactly one place and
\* counted once, and none is left behind by stop.
TasksAccounted == TypeOK /\ OnePlace /\ CountExact /\ StoppedIsDrained

\* Every task accepted by a pool that runs or is stopped is completed, so that
\* WaitRet returns: no wakeup is lost and no task falls between stop and the
\* workers.
AcceptedIsCompleted ==
    \A t \in Tasks :
        task[t] = "accepted" /\ (started \/ stopped) ~> outcome[t] # "none"

\* After stop every worker returns, so that Join returns.
WorkersReturn ==
    started /\ stopped ~> \A w \in Workers : wpc[w] = "done"
=============================================================================
