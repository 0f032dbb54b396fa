----------------------------- MODULE RpcSelector -----------------------------
(***************************************************************************)
(* gpool/gpool_selector.go: a selector over Thrift endpoint pools with     *)
(* Ping-based recovery.  selectedServer, handleCallError, checkServerHealth *)
(* and the composition; the rest is in PoolSelector.tla.                   *)
(***************************************************************************)
EXTENDS PoolSelector

\* selectedServer finds the selector closed: ErrPoolClosed.
SelectClosed(c) ==
    /\ pc[c] = "idle"
    /\ closed
    /\ Return(c, "closed")
    /\ UNCHANGED <<valid, pos, notValid, closed, pool, healthVars, closeVars, history>>

Select(c) ==
    /\ pc[c] = "idle"
    /\ ~closed
    /\ Goto(c, "enter")
    /\ res' = [res EXCEPT ![c] = "none"]
    /\ stay' = [stay EXCEPT ![c] = {s \in Servers : valid[s]}]
    /\ ejections' = [ejections EXCEPT ![c] = 0]
    /\ UNCHANGED <<valid, pos, notValid, closed, pool, idx, count, target, retry, sel,
                   healthVars, closeVars, owed>>

\* RoundRobin looks at closed itself.
Enter(c) ==
    /\ pc[c] = "enter"
    /\ ~closed
    /\ Goto(c, "count")
    /\ UNCHANGED <<valid, pos, notValid, closed, pool, idx, count, target, retry, sel,
                   res, healthVars, closeVars, history>>

\* RoundRobin returns nil: ErrNoValidRPCServer, also when the selector was
\* closed in the meantime.
NoServer(c) ==
    /\ FindsNone(c) \/ (pc[c] = "enter" /\ closed)
    /\ Return(c, "noserver")
    /\ UNCHANGED <<valid, pos, notValid, closed, pool, healthVars, closeVars, history>>

RoundRobin(c) == Count(c) \/ Ticket(c) \/ Found(c) \/ Skip(c) \/ TryAgain(c)

\* shouldEject says no, or the compare-and-swap finds the server ejected already.
KeepServer(c) ==
    /\ pc[c] = "failed"
    /\ Return(c, "error")
    /\ UNCHANGED <<valid, pos, notValid, closed, pool, healthVars, closeVars, history>>

\* Mutant: the state is stored without comparing.
Eject_Stores(c) ==
    /\ pc[c] = "failed"
    /\ valid' = [valid EXCEPT ![sel[c]] = FALSE]
    /\ Goto(c, "notify")
    /\ IF valid[sel[c]] THEN Ejected(sel[c]) ELSE UNCHANGED history
    /\ UNCHANGED <<pos, notValid, closed, pool, idx, count, target, retry, sel, res,
                   healthVars, closeVars>>

\* shouldEject says yes and CompareAndSwapStat succeeds.
Eject(c) ==
    /\ pc[c] = "failed"
    /\ valid[sel[c]]
    /\ valid' = [valid EXCEPT ![sel[c]] = FALSE]
    /\ Goto(c, "notify")
    /\ Ejected(sel[c])
    /\ UNCHANGED <<pos, notValid, closed, pool, idx, count, target, retry, sel, res,
                   healthVars, closeVars>>

\* The Ping succeeded: checkServerHealth looks at closed again.
Pinged ==
    /\ hpc = "ping"
    /\ hpc' = "recheck"
    /\ UNCHANGED <<others, notValid, hserver, hscan>>

Recheck ==
    /\ hpc = "recheck"
    /\ IF closed THEN Resume ELSE hpc' = "recover" /\ UNCHANGED hserver
    /\ UNCHANGED <<others, notValid, hscan>>

-----------------------------------------------------------------------------
\* One of the Thrift calls, after its first step.
Call(c) ==
    \/ Enter(c)
    \/ NoServer(c)
    \/ RoundRobin(c)
    \/ Borrow(c)
    \/ Succeeded(c)
    \/ Failed(c)
    \/ KeepServer(c)
    \/ Eject(c)
    \/ Notify(c)

\* checkServerHealth and the scan
Check == ScanNext \/ CheckEnds \/ Ping \/ Pinged \/ Recheck \/ Recover

\* runHealthChecker
RunHealthChecker == TakeNotice \/ Tick \/ HealthDone \/ Check

Next ==
    \/ \E c \in Callers : SelectClosed(c) \/ Select(c) \/ Call(c)
    \/ RunHealthChecker
    \/ \E k \in Closers : CloseSelector(k)
    \/ \E s \in Servers : PoolClose(s) \/ PoolClosed(s)

Spec == Init /\ [][Next]_vars
=============================================================================
