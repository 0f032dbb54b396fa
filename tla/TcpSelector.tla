----------------------------- MODULE TcpSelector -----------------------------
(***************************************************************************)
(* network/tcp_selector.go: a selector over TCP endpoint pools with        *)
(* Ping-based recovery.  Process, checkServerHealth and the composition;   *)
(* the rest is in PoolSelector.tla.  Unlike RpcSelector, it ejects a       *)
(* server on any error, stores the new state without comparing, and does   *)
(* not look at closed again after a Ping.                                  *)
(***************************************************************************)
EXTENDS PoolSelector

\* RoundRobin finds the selector closed: ErrTcpPoolClosed.
ProcessClosed(c) ==
    /\ pc[c] = "idle"
    /\ closed
    /\ Return(c, "closed")
    /\ UNCHANGED <<valid, pos, notValid, closed, pool, healthVars, closeVars, history>>

Process(c) ==
    /\ pc[c] = "idle"
    /\ ~closed
    /\ Goto(c, "count")
    /\ res' = [res EXCEPT ![c] = "none"]
    /\ stay' = [stay EXCEPT ![c] = {s \in Servers : valid[s]}]
    /\ ejections' = [ejections EXCEPT ![c] = 0]
    /\ UNCHANGED <<valid, pos, notValid, closed, pool, idx, count, target, retry, sel,
                   healthVars, closeVars, owed>>

RoundRobin(c) ==
    \/ Count(c)
    \/ Ticket(c)
    \/ Found(c)
    \/ Skip(c)
    \/ TryAgain(c)
    \/ /\ FindsNone(c)
       /\ Goto(c, "none")
       /\ UNCHANGED <<valid, pos, notValid, closed, pool, idx, count, target, retry, sel,
                      res, healthVars, closeVars, history>>

\* RoundRobin returned nil; Process asks why.
NoServer(c) ==
    /\ pc[c] = "none"
    /\ Return(c, IF closed THEN "closed" ELSE "noserver")
    /\ UNCHANGED <<valid, pos, notValid, closed, pool, healthVars, closeVars, history>>

\* SetStat(SVR_NOTVALID), whatever the state was
Eject(c) ==
    /\ pc[c] = "failed"
    /\ valid' = [valid EXCEPT ![sel[c]] = FALSE]
    /\ Goto(c, "notify")
    /\ IF valid[sel[c]] THEN Ejected(sel[c]) ELSE UNCHANGED history
    /\ UNCHANGED <<pos, notValid, closed, pool, idx, count, target, retry, sel, res,
                   healthVars, closeVars>>

Pinged ==
    /\ hpc = "ping"
    /\ hpc' = "recover"
    /\ UNCHANGED <<others, notValid, hserver, hscan>>

-----------------------------------------------------------------------------
\* Process, after its first step
Call(c) ==
    \/ RoundRobin(c)
    \/ NoServer(c)
    \/ Borrow(c)
    \/ Succeeded(c)
    \/ Failed(c)
    \/ Eject(c)
    \/ Notify(c)

\* checkServerHealth and the scan
Check == ScanNext \/ CheckEnds \/ Ping \/ Pinged \/ Recover

\* runHealthChecker
RunHealthChecker == TakeNotice \/ Tick \/ HealthDone \/ Check

Close(k) == CloseSelector(k)

Next ==
    \/ \E c \in Callers : ProcessClosed(c) \/ Process(c) \/ Call(c)
    \/ RunHealthChecker
    \/ \E k \in Closers : Close(k)
    \/ \E s \in Servers : PoolClose(s) \/ PoolClosed(s)

Spec == Init /\ [][Next]_vars
=============================================================================
