----------------------------- MODULE PoolSelector ----------------------------
(***************************************************************************)
(* What the two selectors of endpoint pools have in common: RoundRobin,    *)
(* the health checker's loop and Close.  gpool/gpool_selector.go and       *)
(* network/tcp_selector.go contain this code twice, line for line;         *)
(* RpcSelector.tla and TcpSelector.tla add what differs.                   *)
(*                                                                         *)
(* Every atomic load and store of a validity flag is a step.  Of an        *)
(* endpoint's pool only its life is kept: it refuses to lend once Close    *)
(* was called and is closed when nobody uses it (Gpool.tla).               *)
(***************************************************************************)
EXTENDS Integers, Sequences, FiniteSets

CONSTANTS N,        \* number of endpoints
          Callers,  \* goroutines that make calls
          Closers,  \* goroutines that call Close
          PosWrap,  \* number of values of the ticket: 2^32 in the code
          PingsFail \* a Ping that got a connection may fail

ASSUME SelectorAssumption ==
    N \in Nat \ {0} /\ PosWrap \in Nat \ {0} /\ PingsFail \in BOOLEAN

Servers == 1..N  \* Slist

VARIABLES valid,     \* BaseSvr.Valid
          pos,       \* Selector.Pos
          notValid,  \* the channel NotValid
          closed,
          pool,      \* open, closing or closed
          pc,        \* where caller c is
          idx,       \* the server c's loop looks at
          count,     \* validCount
          target,
          retry,
          sel,       \* the server c has selected
          res,       \* how c's last call ended
          hpc,       \* where the health checker is
          hserver,   \* the server it checks
          hscan,     \* servers the periodic scan has still to look at
          healthCancel, \* the cancel function, while no Close has taken it
          cancelled, \* the health checker's context is done
          kpc,       \* where closer k is
          stay,      \* history: servers valid ever since c began to look for one
          ejections, \* history: ejections since then, at most 2
          owed       \* history: ejections of s less the notices given of it; once
                     \* negative it stays so

callerVars == <<pc, idx, count, target, retry, sel, res>>
healthVars == <<hpc, hserver, hscan>>
closeVars == <<healthCancel, cancelled, kpc>>
history == <<stay, ejections, owed>>
vars == <<valid, pos, notValid, closed, pool, callerVars, healthVars, closeVars, history>>

CallerLocations == {"idle", "enter", "count", "ticket", "scan", "borrow", "using",
                    "failed", "notify", "none"}
HealthLocations == {"loop", "scan", "check", "ping", "recheck", "recover", "done"}
Results == {"none", "ok", "error", "closed", "noserver"}

-----------------------------------------------------------------------------
\* RpcPoolInit with a Ping callback.
Init ==
    /\ valid = [s \in Servers |-> TRUE]
    /\ pos = 0
    /\ notValid = <<>>
    /\ closed = FALSE
    /\ pool = [s \in Servers |-> "open"]
    /\ pc = [c \in Callers |-> "idle"]
    /\ idx = [c \in Callers |-> 1]
    /\ count = [c \in Callers |-> 0]
    /\ target = [c \in Callers |-> 0]
    /\ retry = [c \in Callers |-> 0]
    /\ sel = [c \in Callers |-> 1]
    /\ res = [c \in Callers |-> "none"]
    /\ hpc = "loop"
    /\ hserver = 1
    /\ hscan = {}
    /\ healthCancel = TRUE
    /\ cancelled = FALSE
    /\ kpc = [k \in Closers |-> "idle"]
    /\ stay = [c \in Callers |-> {}]
    /\ ejections = [c \in Callers |-> 0]
    /\ owed = [s \in Servers |-> 0]

Goto(c, loc) == pc' = [pc EXCEPT ![c] = loc]

\* The locals are gone and the result is there.
Return(c, r) ==
    /\ res' = [res EXCEPT ![c] = r]
    /\ Goto(c, "idle")
    /\ idx' = [idx EXCEPT ![c] = 1]
    /\ count' = [count EXCEPT ![c] = 0]
    /\ target' = [target EXCEPT ![c] = 0]
    /\ retry' = [retry EXCEPT ![c] = 0]
    /\ sel' = [sel EXCEPT ![c] = 1]

\* uint32(ticket) % uint32(validCount)
Target(ticket, n) == ticket % n

-----------------------------------------------------------------------------
(* RoundRobin *)

\* The first pass counts the valid servers.
Count(c) ==
    /\ pc[c] = "count"
    /\ count' = [count EXCEPT ![c] = @ + (IF valid[idx[c]] THEN 1 ELSE 0)]
    /\ idx' = [idx EXCEPT ![c] = IF @ = N THEN 1 ELSE @ + 1]
    /\ Goto(c, IF idx[c] = N THEN "ticket" ELSE "count")
    /\ UNCHANGED <<valid, pos, notValid, closed, pool, target, retry, sel, res,
                   healthVars, closeVars, history>>

Ticket(c) ==
    /\ pc[c] = "ticket"
    /\ count[c] # 0
    /\ target' = [target EXCEPT ![c] = Target(pos, count[c])]
    /\ pos' = (pos + 1) % PosWrap
    /\ Goto(c, "scan")
    /\ UNCHANGED <<valid, notValid, closed, pool, idx, count, retry, sel, res,
                   healthVars, closeVars, history>>

\* The second pass skips `target' valid servers and takes the next one; the
\* locals of RoundRobin are gone when it returns.
Found(c) ==
    /\ pc[c] = "scan"
    /\ valid[idx[c]] /\ target[c] = 0
    /\ sel' = [sel EXCEPT ![c] = idx[c]]
    /\ Goto(c, "borrow")
    /\ idx' = [idx EXCEPT ![c] = 1]
    /\ count' = [count EXCEPT ![c] = 0]
    /\ retry' = [retry EXCEPT ![c] = 0]
    /\ stay' = [stay EXCEPT ![c] = {}]
    /\ ejections' = [ejections EXCEPT ![c] = 0]
    /\ UNCHANGED <<valid, pos, notValid, closed, pool, target, res, healthVars, closeVars,
                   owed>>

Skip(c) ==
    /\ pc[c] = "scan"
    /\ idx[c] < N
    /\ ~(valid[idx[c]] /\ target[c] = 0)
    /\ idx' = [idx EXCEPT ![c] = @ + 1]
    /\ target' = [target EXCEPT ![c] = @ - (IF valid[idx[c]] THEN 1 ELSE 0)]
    /\ UNCHANGED <<valid, pos, notValid, closed, pool, pc, count, retry, sel, res,
                   healthVars, closeVars, history>>

\* The servers changed between the passes: once more.
TryAgain(c) ==
    /\ pc[c] = "scan"
    /\ idx[c] = N
    /\ ~(valid[N] /\ target[c] = 0)
    /\ retry[c] = 0
    /\ retry' = [retry EXCEPT ![c] = 1]
    /\ idx' = [idx EXCEPT ![c] = 1]
    /\ count' = [count EXCEPT ![c] = 0]
    /\ target' = [target EXCEPT ![c] = 0]
    /\ Goto(c, "count")
    /\ UNCHANGED <<valid, pos, notValid, closed, pool, sel, res, healthVars,
                   closeVars, history>>

\* c is in RoundRobin.
Looking(c) == pc[c] \in {"enter", "count", "ticket", "scan"}

\* Mutant: there is no second attempt.
FindsNone_AtOnce(c) ==
    \/ pc[c] = "ticket" /\ count[c] = 0
    \/ pc[c] = "scan" /\ idx[c] = N /\ ~(valid[N] /\ target[c] = 0)

\* RoundRobin is about to return nil.
FindsNone(c) ==
    \/ pc[c] = "ticket" /\ count[c] = 0
    \/ /\ pc[c] = "scan" /\ idx[c] = N
       /\ ~(valid[N] /\ target[c] = 0)
       /\ retry[c] = 1

-----------------------------------------------------------------------------
(* The call on the selected server's pool *)

Borrow(c) ==
    /\ pc[c] = "borrow"
    /\ pool[sel[c]] = "open"
    /\ Goto(c, "using")
    /\ UNCHANGED <<valid, pos, notValid, closed, pool, idx, count, target, retry, sel,
                   res, healthVars, closeVars, history>>

Succeeded(c) ==
    /\ pc[c] = "using"
    /\ Return(c, "ok")
    /\ UNCHANGED <<valid, pos, notValid, closed, pool, healthVars, closeVars, history>>

\* The call fails, or the pool refuses to lend.
Failed(c) ==
    /\ pc[c] = "using" \/ (pc[c] = "borrow" /\ pool[sel[c]] # "open")
    /\ Goto(c, "failed")
    /\ UNCHANGED <<valid, pos, notValid, closed, pool, idx, count, target, retry, sel,
                   res, healthVars, closeVars, history>>

\* s has become invalid: what the history variables record.
Ejected(s) ==
    /\ stay' = [c \in Callers |-> stay[c] \ {s}]
    /\ ejections' = [c \in Callers |-> IF Looking(c) /\ ejections[c] < 2
                                       THEN ejections[c] + 1 ELSE ejections[c]]
    /\ owed' = [owed EXCEPT ![s] = IF @ < 0 THEN @ ELSE @ + 1]

\* The non-blocking send of the server to NotValid.
Notify(c) ==
    /\ pc[c] = "notify"
    /\ notValid' = IF Len(notValid) < N THEN Append(notValid, sel[c]) ELSE notValid
    /\ owed' = [owed EXCEPT ![sel[c]] = IF @ < 0 THEN @ ELSE @ - 1]
    /\ Return(c, "error")
    /\ UNCHANGED <<valid, pos, closed, pool, healthVars, closeVars, stay, ejections>>

-----------------------------------------------------------------------------
(* The health checker *)

others == <<valid, pos, closed, pool, callerVars, closeVars, history>>

\* The checker goes on after a check; its local is gone.
Resume ==
    /\ hpc' = IF hscan = {} THEN "loop" ELSE "scan"
    /\ hserver' = 1

TakeNotice ==
    /\ hpc = "loop"
    /\ notValid # <<>>
    /\ hserver' = Head(notValid)
    /\ notValid' = Tail(notValid)
    /\ hpc' = "check"
    /\ UNCHANGED <<others, hscan>>

\* Mutant: the scan is for the first server only.
Tick_First ==
    /\ hpc = "loop"
    /\ hscan' = {1}
    /\ hpc' = "scan"
    /\ UNCHANGED <<others, notValid, hserver>>

Tick ==
    /\ hpc = "loop"
    /\ hscan' = Servers
    /\ hpc' = "scan"
    /\ UNCHANGED <<others, notValid, hserver>>

\* The scan goes through the list in its order.
ScanNext ==
    /\ hpc = "scan"
    /\ LET s == CHOOSE i \in hscan : \A j \in hscan : i <= j
       IN  /\ hscan' = hscan \ {s}
           /\ hserver' = IF valid[s] THEN 1 ELSE s
           /\ hpc' = IF ~valid[s] THEN "check" ELSE IF hscan = {s} THEN "loop" ELSE "scan"
    /\ UNCHANGED <<others, notValid>>

\* checkServerHealth returns early, or its Ping fails; a Ping that gets no
\* connection from a pool that is closing fails too.
CheckEnds ==
    /\ \/ hpc = "check" /\ (valid[hserver] \/ closed \/ pool[hserver] # "open")
       \/ hpc = "ping" /\ PingsFail
    /\ Resume
    /\ UNCHANGED <<others, notValid, hscan>>

Ping ==
    /\ hpc = "check"
    /\ ~valid[hserver] /\ ~closed
    /\ pool[hserver] = "open"
    /\ hpc' = "ping"
    /\ UNCHANGED <<others, notValid, hserver, hscan>>

\* SetStat(SVR_VALID)
Recover ==
    /\ hpc = "recover"
    /\ valid' = [valid EXCEPT ![hserver] = TRUE]
    /\ Resume
    /\ UNCHANGED <<pos, notValid, closed, pool, callerVars, hscan, closeVars,
                   history>>

HealthDone ==
    /\ hpc = "loop"
    /\ cancelled
    /\ hpc' = "done"
    /\ UNCHANGED <<others, notValid, hserver, hscan>>

-----------------------------------------------------------------------------
(* Close *)

CloseBegin(k) ==
    /\ kpc[k] = "idle"
    /\ closed' = TRUE
    /\ kpc' = [kpc EXCEPT ![k] = "take"]
    /\ UNCHANGED <<valid, pos, notValid, pool, callerVars, healthVars, healthCancel,
                   cancelled, history>>

\* Under lifecycleMu: the first Close takes the cancel function.
CloseTake(k) ==
    /\ kpc[k] = "take"
    /\ kpc' = [kpc EXCEPT ![k] = IF healthCancel THEN "cancel" ELSE "wait"]
    /\ healthCancel' = FALSE
    /\ UNCHANGED <<valid, pos, notValid, closed, pool, callerVars, healthVars, cancelled,
                   history>>

\* Mutant: the function that was taken is not called.
CloseCancel_Dropped(k) ==
    /\ kpc[k] = "cancel"
    /\ kpc' = [kpc EXCEPT ![k] = "wait"]
    /\ UNCHANGED <<valid, pos, notValid, closed, pool, callerVars, healthVars, healthCancel,
                   cancelled, history>>

CloseCancel(k) ==
    /\ kpc[k] = "cancel"
    /\ cancelled' = TRUE
    /\ kpc' = [kpc EXCEPT ![k] = "wait"]
    /\ UNCHANGED <<valid, pos, notValid, closed, pool, callerVars, healthVars, healthCancel,
                   history>>

\* A goroutine of Close calls the Close of s's pool, which lends no more and
\* completes when its connections are back.
PoolClose(s) ==
    /\ pool[s] = "open"
    /\ \E k \in Closers : kpc[k] \in {"wait", "expired"}
    /\ pool' = [pool EXCEPT ![s] = "closing"]
    /\ UNCHANGED <<valid, pos, notValid, closed, callerVars, healthVars, closeVars, history>>

Uses(s) ==
    \/ \E c \in Callers : pc[c] = "using" /\ sel[c] = s
    \/ hpc = "ping" /\ hserver = s

PoolClosed(s) ==
    /\ pool[s] = "closing"
    /\ ~Uses(s)
    /\ pool' = [pool EXCEPT ![s] = "closed"]
    /\ UNCHANGED <<valid, pos, notValid, closed, callerVars, healthVars, closeVars, history>>

\* The steps of Close that change nothing but where it is.
CloseGoto(k, loc) ==
    /\ kpc' = [kpc EXCEPT ![k] = loc]
    /\ UNCHANGED <<valid, pos, notValid, closed, pool, callerVars, healthVars, healthCancel,
                   cancelled, history>>

\* Mutant: only the health checker is waited for.
CloseReturns_Early(k) ==
    /\ kpc[k] = "wait"
    /\ hpc = "done"
    /\ CloseGoto(k, "closed")

CloseReturns(k) ==
    /\ kpc[k] = "wait"
    /\ hpc = "done"
    /\ \A s \in Servers : pool[s] = "closed"
    /\ CloseGoto(k, "closed")

\* The context of Close ends first.
CloseExpires(k) == kpc[k] = "wait" /\ CloseGoto(k, "expired")

\* Close is called again, with a fresh context.
CloseAgain(k) == kpc[k] = "expired" /\ CloseGoto(k, "take")

CloseSelector(k) ==
    \/ CloseBegin(k)
    \/ CloseTake(k)
    \/ CloseCancel(k)
    \/ CloseReturns(k)
    \/ CloseExpires(k)
    \/ CloseAgain(k)

-----------------------------------------------------------------------------
(* Properties *)

\* The fields of the selector and the locals of its methods have their types;
\* target counts down to zero and never below.
TypeOK ==
    /\ valid \in [Servers -> BOOLEAN]
    /\ pos \in 0..(PosWrap - 1)
    /\ notValid \in Seq(Servers) /\ Len(notValid) <= N
    /\ closed \in BOOLEAN
    /\ pool \in [Servers -> {"open", "closing", "closed"}]
    /\ pc \in [Callers -> CallerLocations]
    /\ idx \in [Callers -> Servers]
    /\ count \in [Callers -> 0..N]
    /\ target \in [Callers -> 0..(N - 1)]
    /\ retry \in [Callers -> 0..1]
    /\ sel \in [Callers -> Servers]
    /\ res \in [Callers -> Results]
    /\ hpc \in HealthLocations
    /\ hserver \in Servers
    /\ hscan \subseteq Servers
    /\ {healthCancel, cancelled} \subseteq BOOLEAN
    /\ kpc \in [Closers -> {"idle", "take", "cancel", "wait", "closed", "expired"}]
    /\ stay \in [Callers -> SUBSET Servers]
    /\ ejections \in [Callers -> 0..2]
    /\ owed \in [Servers -> Int]

\* A call is told that there is no server only if there is a reason: the
\* selector was closed, or no server stayed valid while the call was looking, or two
\* servers were ejected meanwhile.  One ejection between the two
\* passes of RoundRobin is always made good by the second attempt.
NoServerJustified ==
    \A c \in Callers :
        res[c] = "noserver" => closed \/ stay[c] = {} \/ ejections[c] >= 2

\* Concurrent failures enqueue a server for health checking at most once per
\* validity transition.
NoticedOnce == \A s \in Servers : owed[s] >= 0

\* When Close returns without an error, the health checker has ended, every
\* endpoint pool is closed, and no call is using one.
CloseIsComplete ==
    (\E k \in Closers : kpc[k] = "closed") =>
        /\ hpc = "done"
        /\ \A s \in Servers : pool[s] = "closed" /\ ~Uses(s)
=============================================================================
