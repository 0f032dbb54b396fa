-------------------------------- MODULE Dlock --------------------------------
(***************************************************************************)
(* The Redis lock of cluster_dlock/cluster_dlock.go: Dlock instances that  *)
(* compete for one key, the goroutines that call them, and the server.     *)
(*                                                                         *)
(* A command is applied by the server at some moment after it was sent.    *)
(* The client may stop waiting for it (context, timeout, network), and the *)
(* client library may resend it: a command that was not answered stays in  *)
(* flight and can still be applied, more than once or never.               *)
(*                                                                         *)
(* An action is one critical section of Dlock.mu, or one event at the      *)
(* server.  Extend and Unlock hold the mutex while they wait for Redis.    *)
(***************************************************************************)
EXTENDS Integers, FiniteSets

CONSTANTS Instances,      \* *Dlock values with the same Key
          Goroutines,     \* callers of Lock, TryLock, Extend and Unlock
          Uses,           \* the instance each goroutine calls
          Tokens,         \* what newToken can return (bounds the acquisitions)
          NoToken,        \* the empty string
          Nobody,         \* no goroutine holds the mutex
          TTL,            \* WithTTL
          Millisecond,    \* time.Millisecond in the unit of the durations
          MinRetryDelay,  \* WithRetryBackoff
          MaxRetryDelay

ASSUME DlockAssumption ==
    /\ TTL \in Int /\ Millisecond \in Nat \ {0}
    /\ MinRetryDelay \in Int /\ MaxRetryDelay \in Int
    /\ Uses \in [Goroutines -> Instances]
    /\ NoToken \notin Tokens /\ Nobody \notin Goroutines

VARIABLES key,        \* the token stored in Redis, or NoToken
          inflight,   \* commands sent that the server may still apply
          acquiring,  \* Dlock.acquiring
          token,      \* Dlock.token
          lockMu,         \* who holds Dlock.mu while waiting for Redis
          pc,         \* where goroutine g is
          tok,        \* the token g's operation works with
          once,       \* g's acquisition is a TryLock
          backoff,    \* Lock's backoff
          wait,       \* the delay Lock waits before its next attempt
          reply,      \* the server's answer to g's command
          ctxDone,    \* g's context has ended
          used,       \* tokens generated so far
          expired,    \* history: tokens whose lease has run out
          asked       \* history: tokens an Unlock was sent for

dlockVars == <<key, inflight, acquiring, token, lockMu, pc, tok, once, backoff, wait, reply,
          ctxDone, used, expired, asked>>

LockPoints == {"idle", "setnx", "retry", "finish", "cancel", "extend", "unlock"}

-----------------------------------------------------------------------------
(* validate and the delays *)

Validate ==
    /\ TTL > 0
    /\ TTL >= Millisecond
    /\ MinRetryDelay > 0
    /\ MaxRetryDelay >= MinRetryDelay

\* nextBackoff
NextBackoff(current, maximum) ==
    IF current >= maximum \/ current > maximum \div 2 THEN maximum
    ELSE current * 2

\* What jitter can return.
Jitter(delay) ==
    IF delay <= 1 THEN {delay}
    ELSE {delay \div 2 + r : r \in 0..(delay - delay \div 2 - 1)}

-----------------------------------------------------------------------------
DlockInit ==
    /\ key = NoToken
    /\ inflight = {}
    /\ acquiring = [i \in Instances |-> FALSE]
    /\ token = [i \in Instances |-> NoToken]
    /\ lockMu = [i \in Instances |-> Nobody]
    /\ pc = [g \in Goroutines |-> "idle"]
    /\ tok = [g \in Goroutines |-> NoToken]
    /\ once = [g \in Goroutines |-> FALSE]
    /\ backoff = [g \in Goroutines |-> 0]
    /\ wait = [g \in Goroutines |-> 0]
    /\ reply = [g \in Goroutines |-> "none"]
    /\ ctxDone = [g \in Goroutines |-> FALSE]
    /\ used = {}
    /\ expired = {}
    /\ asked = {}

-----------------------------------------------------------------------------
(* Commands *)

Command(g, name, t) == [by |-> g, name |-> name, tok |-> t]

Send(g, name, t) == inflight' = inflight \cup {Command(g, name, t)}

\* g waits for the answer to c.
Awaits(g, c) == pc[g] = c.name /\ tok[g] = c.tok /\ c.by = g /\ reply[g] = "none"

\* The local variables of an operation are gone when it has returned.
LockReturns(g) ==
    /\ pc' = [pc EXCEPT ![g] = "idle"]
    /\ tok' = [tok EXCEPT ![g] = NoToken]
    /\ once' = [once EXCEPT ![g] = FALSE]
    /\ backoff' = [backoff EXCEPT ![g] = 0]
    /\ wait' = [wait EXCEPT ![g] = 0]
    /\ reply' = [reply EXCEPT ![g] = "none"]
    /\ ctxDone' = [ctxDone EXCEPT ![g] = FALSE]

DlockGoto(g, loc) ==
    /\ pc' = [pc EXCEPT ![g] = loc]
    /\ reply' = [reply EXCEPT ![g] = "none"]

-----------------------------------------------------------------------------
(* Lock and TryLock *)

MayAcquire(i) == ~acquiring[i] /\ token[i] = NoToken

\* beginAcquire refuses: ErrAlreadyLocked.
AcquireRefused(g) ==
    /\ Validate
    /\ pc[g] = "idle"
    /\ lockMu[Uses[g]] = Nobody
    /\ ~MayAcquire(Uses[g])
    /\ UNCHANGED dlockVars

\* beginAcquire, newToken and the first SetNX.
Acquire(g, try) ==
    /\ Validate
    /\ pc[g] = "idle"
    /\ lockMu[Uses[g]] = Nobody
    /\ MayAcquire(Uses[g])
    /\ acquiring' = [acquiring EXCEPT ![Uses[g]] = TRUE]
    /\ once' = [once EXCEPT ![g] = try]
    /\ \E t \in Tokens \ used :
          /\ used' = used \cup {t}
          /\ tok' = [tok EXCEPT ![g] = t]
          /\ Send(g, "setnx", t)
    /\ backoff' = [backoff EXCEPT ![g] = MinRetryDelay]
    /\ pc' = [pc EXCEPT ![g] = "setnx"]
    /\ UNCHANGED <<key, token, lockMu, wait, reply, ctxDone, expired, asked>>

\* newToken fails.
AcquireNoToken(g) ==
    /\ Validate
    /\ pc[g] = "idle"
    /\ lockMu[Uses[g]] = Nobody
    /\ MayAcquire(Uses[g])
    /\ acquiring' = [acquiring EXCEPT ![Uses[g]] = TRUE]
    /\ pc' = [pc EXCEPT ![g] = "cancel"]
    /\ UNCHANGED <<key, inflight, token, lockMu, tok, once, backoff, wait, reply, ctxDone,
                   used, expired, asked>>

\* SetNX has stored the token.
AcquireWon(g) ==
    /\ pc[g] = "setnx"
    /\ reply[g] = "1"
    /\ DlockGoto(g, "finish")
    /\ UNCHANGED <<key, inflight, acquiring, token, lockMu, tok, once, backoff, wait,
                   ctxDone, used, expired, asked>>

\* SetNX found the key: TryLock gives up, Lock waits.
AcquireContended(g) ==
    /\ pc[g] = "setnx"
    /\ reply[g] = "0"
    /\ \/ once[g] /\ DlockGoto(g, "cancel") /\ UNCHANGED wait
       \/ /\ ~once[g]
          /\ DlockGoto(g, "retry")
          /\ \E d \in Jitter(backoff[g]) : wait' = [wait EXCEPT ![g] = d]
    /\ UNCHANGED <<key, inflight, acquiring, token, lockMu, tok, once, backoff, ctxDone,
                   used, expired, asked>>

\* Mutant: the attempts do not use the caller's context.
RetryLock_IgnoresContext(g) ==
    /\ pc[g] = "retry"
    /\ backoff' = [backoff EXCEPT ![g] = NextBackoff(@, MaxRetryDelay)]
    /\ wait' = [wait EXCEPT ![g] = 0]
    /\ Send(g, "setnx", tok[g])
    /\ pc' = [pc EXCEPT ![g] = "setnx"]
    /\ UNCHANGED <<key, acquiring, token, lockMu, tok, once, reply, ctxDone, used, expired,
                   asked>>

\* The timer of waitForRetry fires.  The client sends nothing for a context
\* that has ended.
RetryLock(g) ==
    /\ pc[g] = "retry"
    /\ backoff' = [backoff EXCEPT ![g] = NextBackoff(@, MaxRetryDelay)]
    /\ wait' = [wait EXCEPT ![g] = 0]
    /\ IF ctxDone[g] THEN UNCHANGED inflight ELSE Send(g, "setnx", tok[g])
    /\ pc' = [pc EXCEPT ![g] = "setnx"]
    /\ UNCHANGED <<key, acquiring, token, lockMu, tok, once, reply, ctxDone, used, expired,
                   asked>>

\* waitForRetry returns because the context ended.
RetryCancelled(g) ==
    /\ pc[g] = "retry"
    /\ ctxDone[g]
    /\ DlockGoto(g, "cancel")
    /\ UNCHANGED <<key, inflight, acquiring, token, lockMu, tok, once, backoff, wait,
                   ctxDone, used, expired, asked>>

\* SetNX returns an error: the deferred cancelAcquire is next.
AcquireFailed(g) ==
    /\ pc[g] = "setnx"
    /\ reply[g] = "none"
    /\ DlockGoto(g, "cancel")
    /\ UNCHANGED <<key, inflight, acquiring, token, lockMu, tok, once, backoff, wait,
                   ctxDone, used, expired, asked>>

\* finishAcquire
FinishAcquire(g) ==
    /\ pc[g] = "finish"
    /\ lockMu[Uses[g]] = Nobody
    /\ acquiring' = [acquiring EXCEPT ![Uses[g]] = FALSE]
    /\ token' = [token EXCEPT ![Uses[g]] = tok[g]]
    /\ LockReturns(g)
    /\ UNCHANGED <<key, inflight, lockMu, used, expired, asked>>

\* Mutant: the deferred function is missing.
CancelAcquire_Forgotten(g) ==
    /\ pc[g] = "cancel"
    /\ lockMu[Uses[g]] = Nobody
    /\ LockReturns(g)
    /\ UNCHANGED <<key, inflight, acquiring, token, lockMu, used, expired, asked>>

\* cancelAcquire, deferred by Lock and TryLock.
CancelAcquire(g) ==
    /\ pc[g] = "cancel"
    /\ lockMu[Uses[g]] = Nobody
    /\ acquiring' = [acquiring EXCEPT ![Uses[g]] = FALSE]
    /\ LockReturns(g)
    /\ UNCHANGED <<key, inflight, token, lockMu, used, expired, asked>>

-----------------------------------------------------------------------------
(* Extend and Unlock *)

\* ErrNotLocked
NotLocked(g) ==
    /\ Validate
    /\ pc[g] = "idle"
    /\ lockMu[Uses[g]] = Nobody
    /\ token[Uses[g]] = NoToken
    /\ UNCHANGED dlockVars

\* The mutex is taken and the script is sent.
BeginEval(g, name) ==
    /\ Validate
    /\ pc[g] = "idle"
    /\ lockMu[Uses[g]] = Nobody
    /\ token[Uses[g]] # NoToken
    /\ lockMu' = [lockMu EXCEPT ![Uses[g]] = g]
    /\ tok' = [tok EXCEPT ![g] = token[Uses[g]]]
    /\ Send(g, name, token[Uses[g]])
    /\ pc' = [pc EXCEPT ![g] = name]
    /\ UNCHANGED <<key, acquiring, token, once, backoff, wait, reply, ctxDone, used,
                   expired>>

Extend(g) == BeginEval(g, "extend") /\ UNCHANGED asked

Unlock(g) == BeginEval(g, "unlock") /\ asked' = asked \cup {token[Uses[g]]}

\* The operation returns and releases the mutex; clear says whether
\* clearAcquired is called.
EndEval(g, clear) ==
    /\ token' = IF clear THEN [token EXCEPT ![Uses[g]] = NoToken] ELSE token
    /\ lockMu' = [lockMu EXCEPT ![Uses[g]] = Nobody]
    /\ LockReturns(g)
    /\ UNCHANGED <<key, inflight, acquiring, used, expired, asked>>

Extended(g) == pc[g] = "extend" /\ reply[g] = "1" /\ EndEval(g, FALSE)

\* Extend finds its lease lost: ErrLockLost.
ExtendLost(g) == pc[g] = "extend" /\ reply[g] = "0" /\ EndEval(g, TRUE)

\* Any answer to the unlock script ends the ownership, ErrLockLost included.
Unlocked(g) == pc[g] = "unlock" /\ reply[g] # "none" /\ EndEval(g, TRUE)

\* Eval returns an error: the token is kept.
EvalFailed(g) ==
    /\ pc[g] \in {"extend", "unlock"}
    /\ reply[g] = "none"
    /\ EndEval(g, FALSE)

-----------------------------------------------------------------------------
(* Redis (external): SET NX PX, the two scripts and the expiry of the key  *)

\* Mutant: the key is deleted whoever holds it.
KeyAfter_PlainDel(c) ==
    CASE c.name = "setnx"  -> IF key = NoToken THEN c.tok ELSE key
      [] c.name = "extend" -> key
      [] c.name = "unlock" -> NoToken

\* The value of the key after the server ran c.
KeyAfter(c) ==
    CASE c.name = "setnx"  -> IF key = NoToken THEN c.tok ELSE key
      [] c.name = "extend" -> key
      [] c.name = "unlock" -> IF key = c.tok THEN NoToken ELSE key

\* What the server answers.
Answer(c) ==
    CASE c.name = "setnx"  -> IF key = NoToken THEN "1" ELSE "0"
      [] c.name = "extend" -> IF key = c.tok THEN "1" ELSE "0"
      [] c.name = "unlock" -> IF key = c.tok THEN "1" ELSE IF key = NoToken THEN "0" ELSE "-1"

\* The server runs c and the answer reaches the goroutine that waits for it.
Answered(c) ==
    /\ Awaits(c.by, c)
    /\ key' = KeyAfter(c)
    /\ reply' = [reply EXCEPT ![c.by] = Answer(c)]
    /\ inflight' = inflight \ {c}
    /\ UNCHANGED <<acquiring, token, lockMu, pc, tok, once, backoff, wait, ctxDone, used,
                   expired, asked>>

\* The server runs c but nobody receives the answer; c may be sent again.
Unanswered(c) ==
    /\ key' = KeyAfter(c)
    /\ UNCHANGED <<inflight, acquiring, token, lockMu, pc, tok, once, backoff, wait, reply,
                   ctxDone, used, expired, asked>>

\* c will not be applied any more.
Dropped(c) ==
    /\ inflight' = inflight \ {c}
    /\ UNCHANGED <<key, acquiring, token, lockMu, pc, tok, once, backoff, wait, reply,
                   ctxDone, used, expired, asked>>

\* The lease runs out.
Expire ==
    /\ key # NoToken
    /\ key' = NoToken
    /\ expired' = expired \cup {key}
    /\ UNCHANGED <<inflight, acquiring, token, lockMu, pc, tok, once, backoff, wait, reply,
                   ctxDone, used, asked>>

\* The context of a Lock or TryLock ends.  (For Extend and Unlock it is one of
\* the errors of EvalFailed.)
ContextEnds(g) ==
    /\ pc[g] \in {"setnx", "retry"}
    /\ ~ctxDone[g]
    /\ ctxDone' = [ctxDone EXCEPT ![g] = TRUE]
    /\ UNCHANGED <<key, inflight, acquiring, token, lockMu, pc, tok, once, backoff, wait,
                   reply, used, expired, asked>>

-----------------------------------------------------------------------------
\* The steps of an operation once it was called.
Step(g) ==
    \/ AcquireWon(g)
    \/ AcquireContended(g)
    \/ RetryLock(g)
    \/ RetryCancelled(g)
    \/ AcquireFailed(g)
    \/ FinishAcquire(g)
    \/ CancelAcquire(g)
    \/ Extended(g)
    \/ ExtendLost(g)
    \/ Unlocked(g)
    \/ EvalFailed(g)

Call(g) ==
    \/ AcquireRefused(g)
    \/ \E try \in BOOLEAN : Acquire(g, try)
    \/ AcquireNoToken(g)
    \/ NotLocked(g)
    \/ Extend(g)
    \/ Unlock(g)

DlockNext ==
    \/ \E g \in Goroutines : Call(g) \/ Step(g) \/ ContextEnds(g)
    \/ \E c \in inflight : Answered(c) \/ Unanswered(c) \/ Dropped(c)
    \/ Expire

DlockSpec == DlockInit /\ [][DlockNext]_dlockVars

\* Goroutines keep running, timers fire, and a command returns an answer or an
\* error (the client has timeouts).  Nothing makes the server answer.
DlockFairSpec == DlockSpec /\ \A g \in Goroutines : WF_dlockVars(Step(g))

-----------------------------------------------------------------------------
(* Properties *)

\* The fields of Dlock and the local variables of its methods have their types.
\* The delays of Lock stay within the configured bounds and never become a busy
\* spin, although nextBackoff doubles and jitter halves them.
DlockTypeOK ==
    /\ key \in Tokens \cup {NoToken}
    /\ inflight \subseteq [by : Goroutines, name : {"setnx", "extend", "unlock"}, tok : Tokens]
    /\ acquiring \in [Instances -> BOOLEAN]
    /\ token \in [Instances -> Tokens \cup {NoToken}]
    /\ lockMu \in [Instances -> Goroutines \cup {Nobody}]
    /\ pc \in [Goroutines -> LockPoints]
    /\ tok \in [Goroutines -> Tokens \cup {NoToken}]
    /\ once \in [Goroutines -> BOOLEAN]
    /\ \A g \in Goroutines :
          /\ pc[g] \in {"setnx", "retry"} => backoff[g] \in MinRetryDelay..MaxRetryDelay
          /\ pc[g] = "retry" => wait[g] \in 1..backoff[g]
    /\ reply \in [Goroutines -> {"none", "1", "0", "-1"}]
    /\ ctxDone \in [Goroutines -> BOOLEAN]
    /\ used \subseteq Tokens
    /\ expired \subseteq Tokens
    /\ asked \subseteq Tokens

\* g is between beginAcquire and finishAcquire or cancelAcquire.
Acquires(g) == pc[g] \in {"setnx", "retry", "finish", "cancel"}

\* An instance that believes it holds the lock does hold it, unless the lease
\* ran out or an Unlock was sent for it: so two instances that both believe it
\* have at least one lease lost, however late or often commands are applied.
HolderKeepsKey ==
    \A i \in Instances :
        token[i] # NoToken => key = token[i] \/ token[i] \in expired \cup asked

\* The acquiring flag is set exactly while one goroutine is in Lock or TryLock:
\* it is neither shared nor left behind by an error, a cancellation or a lost
\* race, and an instance that holds the lock is not acquiring it.  Its delays
\* stay within the configured bounds (DlockTypeOK).
AcquiringExact ==
    /\ DlockTypeOK
    /\ \A i \in Instances :
          acquiring[i] <=> \E g \in Goroutines : Uses[g] = i /\ Acquires(g)
    /\ \A g, h \in Goroutines :
          Acquires(g) /\ Acquires(h) /\ Uses[g] = Uses[h] => g = h
    /\ \A i \in Instances : acquiring[i] => token[i] = NoToken

\* A stored token leaves Redis only when its lease runs out or when its owner
\* asked for it: an Unlock never deletes the lock of a later owner, even when
\* it is applied after its own lease was lost.
OnlyOwnerDeletes ==
    [][key # NoToken /\ key' # key => Expire \/ key \in asked]_dlockVars

\* A Lock whose context has ended returns, whatever the other users of the
\* instance do and whatever is lost on the way to Redis.
CancelledCallsReturn == \A g \in Goroutines : ctxDone[g] ~> pc[g] = "idle"
=============================================================================
