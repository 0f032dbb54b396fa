------------------------------- MODULE Services ------------------------------
(***************************************************************************)
(* The components that serve concurrent callers and share no state: the    *)
(* rule selector, calls over pooled connections, the log files, the id     *)
(* generator and the Redis lock.  A behaviour is one of the component      *)
(* "running"; the others stay in their initial states.                     *)
(***************************************************************************)
EXTENDS RuleSelector, RpcCall, LogRotation, Snowflake, Dlock

VARIABLE running

servicesVars == <<running, ruleVars, rpcVars, logVars, snowVars, dlockVars>>

\* The choices of the other components' initial states are of no interest.
RpcAtRest == transport = "thrift" /\ rpcMaxRetries = CHOOSE r \in RetrySettings : TRUE
LogAtRest == daily /\ text
SnowAtRest == clock = 1

Init ==
    /\ running \in {"rules", "rpc", "log", "snowflake", "lock"}
    /\ RuleInit
    /\ RpcInit /\ (running = "rpc" \/ RpcAtRest)
    /\ LogInit /\ (running = "log" \/ LogAtRest)
    /\ SnowInit /\ (running = "snowflake" \/ SnowAtRest)
    /\ DlockInit

Next ==
    \/ running = "rules" /\ RuleNext /\ UNCHANGED <<running, rpcVars, logVars, snowVars, dlockVars>>
    \/ running = "rpc" /\ RpcNext /\ UNCHANGED <<running, ruleVars, logVars, snowVars, dlockVars>>
    \/ running = "log" /\ LogNext /\ UNCHANGED <<running, ruleVars, rpcVars, snowVars, dlockVars>>
    \/ running = "snowflake" /\ SnowNext /\ UNCHANGED <<running, ruleVars, rpcVars, logVars, dlockVars>>
    \/ running = "lock" /\ DlockNext /\ UNCHANGED <<running, ruleVars, rpcVars, logVars, snowVars>>

Spec == Init /\ [][Next]_servicesVars
=============================================================================
