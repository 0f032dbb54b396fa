----------------------------- MODULE RuleSelector ----------------------------
(***************************************************************************)
(* RpcPoolRuleSelector of gpool/gpool_rule_selector.go: a list of rules, a *)
(* selector of pools per address, and a rule engine built from a copy of   *)
(* the list.                                                               *)
(*                                                                         *)
(* An action is one critical section of rrps.mu, or the work a call does   *)
(* between two of them.  A rule is the address its action passes to R.Set; *)
(* whether its condition holds depends on the request, so any rule of the  *)
(* engine may be the one that fires.  A call that returns early without    *)
(* having changed anything is no step.                                     *)
(***************************************************************************)
EXTENDS Integers, Sequences, SequencesExt

CONSTANTS RuleCallers,   \* goroutines that call the selector
          RuleAddrs,     \* RpcServerConf.Addr
          MaxRulePools   \* bound: AddSvr calls that get past RpcPoolInit

ASSUME RuleAssumption == MaxRulePools \in Nat

VARIABLES rlist,       \* rrps.rlist: the addresses of the rules, in order
          rulePools,   \* rrps.RulePools: the pool of an address, or NoPool
          grulePool,   \* rrps.GrulePool: the rules of the engine, <<>> for nil
          ruleClosed,  \* rrps.closed
          poolOpen,    \* poolOpen[p]: pool p was created and not closed since
          ruleCall,    \* where a goroutine is, with the local variables it needs
          got          \* what the selection that ended in the last step returned

ruleVars == <<rlist, rulePools, grulePool, ruleClosed, poolOpen, ruleCall, got>>

NoPool == 0
Unknown == -1   \* the error "rule matched unknown server"

\* Pools are numbered in the order RpcPoolInit made them.
Created == Len(poolOpen)

Idle == [at |-> "idle"]
At(c, loc) == ruleCall[c].at = loc

RuleInit ==
    /\ rlist = <<>>
    /\ rulePools = [a \in RuleAddrs |-> NoPool]
    /\ grulePool = <<>>
    /\ ruleClosed = FALSE
    /\ poolOpen = <<>>
    /\ ruleCall = [c \in RuleCallers |-> Idle]
    /\ got = NoPool

\* Caller c goes on with the locals l, and no selection ends.
Continue(c, l) ==
    /\ ruleCall' = [ruleCall EXCEPT ![c] = l]
    /\ got' = NoPool

\* Caller c closes the pools it collected; with none it returns.
Closing(c, pools) ==
    Continue(c, IF pools = {} THEN Idle ELSE [at |-> "closing", todo |-> pools])

-----------------------------------------------------------------------------
(* AddSvr *)

\* The selector is open, the configuration is valid, and RpcPoolInit starts the
\* pools of the address.
AddSvrInit(c) ==
    /\ At(c, "idle")
    /\ ~ruleClosed
    /\ Created < MaxRulePools
    /\ poolOpen' = Append(poolOpen, TRUE)
    /\ \E a \in RuleAddrs : Continue(c, [at |-> "adding", addr |-> a, pool |-> Created + 1])
    /\ UNCHANGED <<rlist, rulePools, grulePool, ruleClosed>>

\* The selector was closed meanwhile: the call closes its own pool.
AddSvrClosed(c) ==
    /\ At(c, "adding")
    /\ ruleClosed
    /\ Closing(c, {ruleCall[c].pool})
    /\ UNCHANGED <<rlist, rulePools, grulePool, ruleClosed, poolOpen>>

\* The pool replaces the previous one of the address, which the call then
\* closes, and the rule is appended.
StorePool(c, a) ==
    /\ rulePools' = [rulePools EXCEPT ![a] = ruleCall[c].pool]
    /\ rlist' = Append(rlist, a)
    /\ Closing(c, {rulePools[a]} \ {NoPool})
    /\ UNCHANGED <<grulePool, ruleClosed, poolOpen>>

\* Mutant: closed is not read again under the lock.
AddSvrStore_NoRecheck(c) ==
    /\ At(c, "adding")
    /\ StorePool(c, ruleCall[c].addr)

\* Mutant: the previous pool is closed before it is replaced.
AddSvrStore_ClosesFirst(c) ==
    /\ At(c, "adding")
    /\ ~ruleClosed
    /\ LET previous == rulePools[ruleCall[c].addr]
       IN  IF previous # NoPool /\ poolOpen[previous]
           THEN /\ poolOpen' = [poolOpen EXCEPT ![previous] = FALSE]
                /\ Continue(c, ruleCall[c])
                /\ UNCHANGED <<rlist, rulePools, grulePool, ruleClosed>>
           ELSE StorePool(c, ruleCall[c].addr)

AddSvrStore(c) ==
    /\ At(c, "adding")
    /\ ~ruleClosed
    /\ StorePool(c, ruleCall[c].addr)

-----------------------------------------------------------------------------
(* ParseRule *)

\* The rules are copied under the read lock; without one the call fails.
\* "overlap" is history: another ParseRule call was in progress meanwhile.
ParseRuleCopy(c) ==
    /\ At(c, "idle")
    /\ ~ruleClosed
    /\ rlist # <<>>
    /\ LET others == {d \in RuleCallers : At(d, "parsing")}
           mine   == [at |-> "parsing", rules |-> rlist, overlap |-> others # {}]
       IN  ruleCall' = [d \in RuleCallers |->
                          CASE d = c         -> mine
                            [] d \in others  -> [ruleCall[d] EXCEPT !.overlap = TRUE]
                            [] OTHER         -> ruleCall[d]]
    /\ got' = NoPool
    /\ UNCHANGED <<rlist, rulePools, grulePool, ruleClosed, poolOpen>>

\* Mutant: a failed parse leaves the selector without an engine.
ParseRuleFail_ClearsEngine(c) ==
    /\ At(c, "parsing")
    /\ grulePool' = <<>>
    /\ Continue(c, Idle)
    /\ UNCHANGED <<rlist, rulePools, ruleClosed, poolOpen>>

\* The rule set does not parse, or closed is found under the lock.
ParseRuleFail(c) ==
    /\ At(c, "parsing")
    /\ Continue(c, Idle)
    /\ UNCHANGED <<rlist, rulePools, grulePool, ruleClosed, poolOpen>>

StoreEngine(c) ==
    /\ At(c, "parsing")
    /\ grulePool' = ruleCall[c].rules
    /\ Continue(c, Idle)
    /\ UNCHANGED <<rlist, rulePools, ruleClosed, poolOpen>>

ParseRuleStore(c) == ~ruleClosed /\ StoreEngine(c)

-----------------------------------------------------------------------------
(* SvrSelectFromJson, SvrSelectFromDataCtx, rulePoolByRet *)

\* The engine is read under the read lock; nil is "not initialized".
SvrSelectFromJson(c) ==
    /\ At(c, "idle")
    /\ ~ruleClosed
    /\ grulePool # <<>>
    /\ Continue(c, [at |-> "execute", rules |-> grulePool])
    /\ UNCHANGED <<rlist, rulePools, grulePool, ruleClosed, poolOpen>>

\* The same steps with a data context the caller made.
SvrSelectFromDataCtx(c) == SvrSelectFromJson(c)

\* A rule fires and sets the address.
ExecuteMatch(c) ==
    /\ At(c, "execute")
    /\ \E a \in ToSet(ruleCall[c].rules) : Continue(c, [at |-> "lookup", addr |-> a])
    /\ UNCHANGED <<rlist, rulePools, grulePool, ruleClosed, poolOpen>>

\* The data is no JSON, the engine fails, or no rule matches.
ExecuteNone(c) ==
    /\ At(c, "execute")
    /\ Continue(c, Idle)
    /\ UNCHANGED <<rlist, rulePools, grulePool, ruleClosed, poolOpen>>

PoolOf(a) == IF rulePools[a] = NoPool THEN Unknown ELSE rulePools[a]

RulePoolByRet(c) ==
    /\ At(c, "lookup")
    /\ got' = IF ruleClosed THEN NoPool ELSE PoolOf(ruleCall[c].addr)
    /\ ruleCall' = [ruleCall EXCEPT ![c] = Idle]
    /\ UNCHANGED <<rlist, rulePools, grulePool, ruleClosed, poolOpen>>

-----------------------------------------------------------------------------
(* Close *)

\* Selections are stopped and every stored pool is collected.  A second call
\* collects them again.
RuleClose(c) ==
    /\ At(c, "idle")
    /\ ruleClosed' = TRUE
    /\ grulePool' = <<>>
    /\ Closing(c, {rulePools[a] : a \in RuleAddrs} \ {NoPool})
    /\ UNCHANGED <<rlist, rulePools, poolOpen>>

\* One pool.Close returns: those of Close run in goroutines, so in any order.
PoolClosed(c) ==
    /\ At(c, "closing")
    /\ \E p \in ruleCall[c].todo : /\ poolOpen' = [poolOpen EXCEPT ![p] = FALSE]
                                   /\ Closing(c, ruleCall[c].todo \ {p})
    /\ UNCHANGED <<rlist, rulePools, grulePool, ruleClosed>>

-----------------------------------------------------------------------------
RuleNext == \E c \in RuleCallers :
    \/ AddSvrInit(c)
    \/ AddSvrClosed(c)
    \/ AddSvrStore(c)
    \/ ParseRuleCopy(c)
    \/ ParseRuleFail(c)
    \/ ParseRuleStore(c)
    \/ SvrSelectFromJson(c)
    \/ SvrSelectFromDataCtx(c)
    \/ ExecuteMatch(c)
    \/ ExecuteNone(c)
    \/ RulePoolByRet(c)
    \/ RuleClose(c)
    \/ PoolClosed(c)

-----------------------------------------------------------------------------
(* Properties *)

Stored(p) == \E a \in RuleAddrs : rulePools[a] = p
InProgress(p) == \E c \in RuleCallers :
    \/ At(c, "closing") /\ p \in ruleCall[c].todo
    \/ At(c, "adding") /\ p = ruleCall[c].pool

\* No pool leaks: an open pool is stored under its address, or a call in
\* progress still has it, and once Close has begun it is a call in progress that
\* will close it.  So when Close, AddSvr and the replacements they caused have
\* returned, every pool AddSvr ever made is closed.
RulePoolsOwned ==
    \A p \in 1..Created : poolOpen[p] => InProgress(p) \/ (Stored(p) /\ ~ruleClosed)

\* A selection returns a pool that is open at that moment, although AddSvr may
\* be replacing pools and Close may be closing them.  The engine's rules are a
\* prefix of rlist at every moment and gone once Close has begun, so the error
\* "rule matched unknown server" of rulePoolByRet cannot occur.
SelectedIsOpen ==
    /\ IsPrefix(grulePool, rlist)
    /\ ruleClosed => grulePool = <<>>
    /\ got # Unknown
    /\ got # NoPool => poolOpen[got]

\* The engine loses a rule it had only when two ParseRule calls overlapped: the
\* one that copied the list first stored last.
RulesLostByOverlapOnly ==
    [][Len(grulePool') < Len(grulePool) =>
          \/ ruleClosed'
          \/ \E c \in RuleCallers :
                At(c, "parsing") /\ ruleCall[c].overlap /\ ruleCall'[c] = Idle]_ruleVars
=============================================================================
