------------------------------ MODULE Selectors ------------------------------
(***************************************************************************)
(* Either of the two selectors of endpoint pools: kind says which one the  *)
(* behaviour is of, and is chosen in the initial state.                    *)
(***************************************************************************)
EXTENDS PoolSelector

VARIABLE kind

Rpc == INSTANCE RpcSelector
Tcp == INSTANCE TcpSelector

Kinds == {"rpc", "tcp"}

SelectorsInit == Init /\ kind \in Kinds

SelectorsNext ==
    /\ \/ kind = "rpc" /\ Rpc!Next
       \/ kind = "tcp" /\ Tcp!Next
    /\ UNCHANGED kind

selectorsVars == <<vars, kind>>

Spec == SelectorsInit /\ [][SelectorsNext]_selectorsVars

\* Call and Check of the selector this is.
Call(c) ==
    /\ \/ kind = "rpc" /\ Rpc!Call(c)
       \/ kind = "tcp" /\ Tcp!Call(c)
    /\ UNCHANGED kind

Check ==
    /\ \/ kind = "rpc" /\ Rpc!Check
       \/ kind = "tcp" /\ Tcp!Check
    /\ UNCHANGED kind

-----------------------------------------------------------------------------
\* The Thrift selector, which ejects by compare-and-swap, reports a server for
\* health checking at most once per validity transition, however many calls
\* fail on it at the same time.
RpcNoticedOnce == kind = "rpc" => NoticedOnce
=============================================================================
