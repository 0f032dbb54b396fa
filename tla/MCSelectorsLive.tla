--------------------------- MODULE MCSelectorsLive ---------------------------
(***************************************************************************)
(* Two models of Selectors for TLC, told apart by their endpoints.  In the *)
(* first, two endpoints that nobody closes: two notices of one of them     *)
(* fill NotValid, so that the only notice of the other can be lost.  In    *)
(* the second, one endpoint and the goroutines that call Close.            *)
(***************************************************************************)
EXTENDS Integers

CONSTANTS Callers, Closers, PosWrap, PingsFail

VARIABLES valid, pos, notValid, closed, pool, pc, idx, count, target, retry, sel, res,
          hpc, hserver, hscan, healthCancel, cancelled, kpc, stay, ejections, owed, kind

Lossy == INSTANCE Selectors WITH N <- 2, Closers <- {}
Closing == INSTANCE Selectors WITH N <- 1

poolVars == Lossy!vars
liveVars == <<poolVars, kind>>

TwoEndpoints == DOMAIN valid = 1..2

Init == Lossy!SelectorsInit \/ Closing!SelectorsInit
Next == IF TwoEndpoints THEN Lossy!SelectorsNext ELSE Closing!SelectorsNext

Call(c) == IF TwoEndpoints THEN Lossy!Call(c) ELSE Closing!Call(c)
Check == IF TwoEndpoints THEN Lossy!Check ELSE Closing!Check
Tick == IF TwoEndpoints THEN Lossy!Tick ELSE Closing!Tick
Cancelling(k) == ~TwoEndpoints /\ (Closing!CloseTake(k) \/ Closing!CloseCancel(k))
Returning(k) == ~TwoEndpoints /\ Closing!CloseReturns(k)
PoolClosing == ~TwoEndpoints /\ \E s \in Closing!Servers : Closing!PoolClose(s) \/ Closing!PoolClosed(s)

\* Goroutines run, process and Ping return, and a pool whose Close was called
\* closes once its connections are back.  A select that is ready for several
\* cases takes each of them sooner or later (Go chooses at random).
FairSpec ==
    /\ Init /\ [][Next]_liveVars
    /\ \A c \in Callers : WF_liveVars(Call(c))
    /\ WF_liveVars(Check)
    /\ SF_poolVars(Tick) /\ SF_poolVars(Lossy!TakeNotice) /\ SF_poolVars(Lossy!HealthDone)
    /\ \A k \in Closers : WF_poolVars(Cancelling(k)) /\ WF_poolVars(Returning(k))
    /\ WF_poolVars(PoolClosing)

-----------------------------------------------------------------------------
OutOfRotation(s) == s \in DOMAIN valid /\ ~valid[s] /\ ~closed

\* Close waits, and its context has not ended.
Waiting(k) == k \in DOMAIN kpc /\ kpc[k] = "wait"

\* An ejected server whose Ping succeeds comes back, even if its notice was
\* dropped because NotValid was full of another server's: the periodic scan finds
\* it.  Only Close ends the recovery.
EjectedRecovers == \A s \in Lossy!Servers : OutOfRotation(s) ~> ~OutOfRotation(s)

\* Close returns when the calls and the Ping in progress do.
CloseEnds == \A k \in Closers : Waiting(k) ~> ~Waiting(k)
=============================================================================
