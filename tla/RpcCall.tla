------------------------------- MODULE RpcCall -------------------------------
(***************************************************************************)
(* Calls over pooled connections: ThriftCall, ThriftCall2 and its variants *)
(* (gpool/gpool.go, gpool/thriftclient.go) and Process of network/         *)
(* tcp_pool.go over TcpConn and TcpSslConn.                                *)
(*                                                                         *)
(* The pool itself is Gpool.tla; here Get finds a healthy idle connection, *)
(* opens one or fails.  The peer may close a connection at any moment, may *)
(* answer late, and executes what it has received even when the caller no  *)
(* longer waits.  A request is on the wire when all its chunks are         *)
(* written.  process runs one exchange and returns the error it met; it    *)
(* may also fail before or after an exchange.                              *)
(***************************************************************************)
EXTENDS Integers, Sequences, FiniteSets

CONSTANTS RpcCalls,      \* calls made
          RpcConns,      \* connections that can be opened (bounds the openings)
          NoConn,
          RetrySettings, \* values of RPCMaxRetries to explore
          Chunks         \* chunks of a request

ASSUME RpcAssumption ==
    /\ RetrySettings \subseteq Int
    /\ Chunks \in Nat \ {0}
    /\ NoConn \notin RpcConns

VARIABLES transport,    \* "thrift", "tcp" or "tls"
          rpcMaxRetries,
          conn,         \* the connections
          call,         \* the calls
          executed,     \* how often the peer executed a call's request
          crossed       \* history: a call read the answer to another request

rpcVars == <<transport, rpcMaxRetries, conn, call, executed, crossed>>

Apis == {"ThriftCall", "ThriftCall2", "ThriftWithTimeOutCall2", "Process"}

\* TTransportException by type, the errors of net, and those of the pool.
TransportErrors == {"NOT_OPEN", "END_OF_FILE", "RESET", "TIMED_OUT", "UNKNOWN"}
Errors == TransportErrors \cup {"PROTOCOL", "APPLICATION", "CONTEXT", "DIAL"}

NewConn == [state |-> "none", opened |-> FALSE, alive |-> FALSE, custom |-> FALSE,
            wire |-> {}, replies |-> <<>>]

NewCall == [at |-> "new", api |-> "Process", conn |-> NoConn, left |-> 0, sent |-> 0,
            err |-> "none", errs |-> <<>>]

RpcInit ==
    /\ transport \in {"thrift", "tcp", "tls"}
    /\ rpcMaxRetries \in RetrySettings
    /\ conn = [c \in RpcConns |-> NewConn]
    /\ call = [k \in RpcCalls |-> NewCall]
    /\ executed = [k \in RpcCalls |-> 0]
    /\ crossed = FALSE

\* The connection call k has borrowed.
Mine(k) == call[k].conn

-----------------------------------------------------------------------------
(* Which errors retire a connection, and which are retried *)

\* Mutant: timeouts count as disconnections.
IsDisconnectedError_Timeouts(e) == e \in {"NOT_OPEN", "END_OF_FILE", "RESET", "TIMED_OUT"}

\* gpool's isDisconnectedError; UNKNOWN stands for an unknown transport exception
\* that wraps none of the five errors, RESET for one that does.
IsDisconnectedError(e) == e \in {"NOT_OPEN", "END_OF_FILE", "RESET"}

\* network's isDisconnectedError: a plain dial error is not among its errors.
IsTcpDisconnectedError(e) == e \in {"END_OF_FILE", "RESET"}

Disconnected(e) ==
    IF transport = "thrift" THEN IsDisconnectedError(e) ELSE IsTcpDisconnectedError(e)

\* Mutant: only disconnected connections are discarded.
Discarded_OnlyDisconnected(e) ==
    IF transport = "thrift" THEN IsDisconnectedError(e) ELSE e # "none"

\* thriftCall2Once and ThriftCall discard after a transport or protocol error,
\* processOnce after every error.
Discarded(e) ==
    IF transport = "thrift" THEN e \in TransportErrors \cup {"PROTOCOL"} ELSE e # "none"

\* ThriftCall makes one attempt; a negative setting means no retry.
MaxRetries(k) ==
    IF call[k].api = "ThriftCall" \/ rpcMaxRetries < 0 THEN 0 ELSE rpcMaxRetries

-----------------------------------------------------------------------------
(* The entry points *)

Begin(k, api) ==
    /\ call[k].at = "new"
    /\ call' = [call EXCEPT ![k].at = "get", ![k].api = api]
    /\ UNCHANGED <<transport, rpcMaxRetries, conn, executed, crossed>>

ThriftCall(k) == transport = "thrift" /\ Begin(k, "ThriftCall")
ThriftCall2(k) == transport = "thrift" /\ Begin(k, "ThriftCall2")
ThriftWithTimeOutCall2(k) == transport = "thrift" /\ Begin(k, "ThriftWithTimeOutCall2")

\* The same with the client's service name in the context's headers.
ThriftExtCall2(k) == ThriftCall2(k)
ThriftWithTimeOutExtCall2(k) == ThriftWithTimeOutCall2(k)

Process(k) == transport # "thrift" /\ Begin(k, "Process")

-----------------------------------------------------------------------------
(* Get, IsOpen, Open *)

IsOpen(c) == conn[c].opened /\ conn[c].alive

\* TConn.Close, TcpConn.Close, TcpSslConn.Close: whatever the peer has not yet
\* executed, it still may, but its answers are lost.
ClosedConn(c) == [NewConn EXCEPT !.state = "closed", !.wire = c.wire]

\* TConn.IsOpen and TcpConn.IsOpen look at the socket and remember the answer.
\* An idle connection that fails the check is closed and Get goes on.
GetIdle(k) ==
    /\ call[k].at = "get"
    /\ \E c \in RpcConns :
          /\ conn[c].state = "idle"
          /\ IF IsOpen(c)
             THEN /\ conn' = [conn EXCEPT ![c].state = "leased"]
                  /\ call' = [call EXCEPT ![k].at = "process", ![k].conn = c]
             ELSE /\ conn' = [conn EXCEPT ![c] = ClosedConn(@)]
                  /\ UNCHANGED call
    /\ UNCHANGED <<transport, rpcMaxRetries, executed, crossed>>

\* createCoreConn, CreateThriftFramedConn, CreateThriftBufferConn: the new
\* connection has the pool's timeout.
Open(k) ==
    /\ call[k].at = "get"
    /\ \E c \in RpcConns : conn[c].state = "none"
    /\ LET c == CHOOSE d \in RpcConns : conn[d].state = "none"
       IN  /\ conn' = [conn EXCEPT ![c].state = "leased", ![c].opened = TRUE, ![c].alive = TRUE]
           /\ call' = [call EXCEPT ![k].at = "process", ![k].conn = c]
    /\ UNCHANGED <<transport, rpcMaxRetries, executed, crossed>>

\* The attempt ends with error e, before a connection is borrowed.
GetFails(k) ==
    /\ call[k].at = "get"
    /\ \E e \in {IF transport = "thrift" THEN "NOT_OPEN" ELSE "DIAL", "CONTEXT"} :
          call' = [call EXCEPT ![k].at = "decide", ![k].err = e]
    /\ UNCHANGED <<transport, rpcMaxRetries, conn, executed, crossed>>

-----------------------------------------------------------------------------
(* process: SetTimeOut, Writen, Readn *)

\* The variants with a timeout of their own set it on the socket first.
StartProcess(k) ==
    /\ call[k].at = "process"
    /\ conn' = [conn EXCEPT ![Mine(k)].custom = @ \/ call[k].api = "ThriftWithTimeOutCall2"]
    /\ call' = [call EXCEPT ![k].at = "write", ![k].left = Chunks]
    /\ UNCHANGED <<transport, rpcMaxRetries, executed, crossed>>

\* process returns e: Readn and Writen clear Opened when the error is theirs.
ProcessEnds(k, e) ==
    /\ call' = [call EXCEPT ![k].at = "release", ![k].err = e]
    /\ conn' = [conn EXCEPT ![Mine(k)].opened = @ /\ e \notin TransportErrors]

\* One write; the last one completes the request.
Write(k) ==
    /\ call[k].at = "write"
    /\ conn[Mine(k)].alive
    /\ \E n \in 1..call[k].left :
          IF n < call[k].left
          THEN /\ call' = [call EXCEPT ![k].left = @ - n]
               /\ UNCHANGED conn
          ELSE /\ call' = [call EXCEPT ![k].left = 0, ![k].at = "read", ![k].sent = @ + 1]
               /\ conn' = [conn EXCEPT ![Mine(k)].wire = @ \cup {<<k, call[k].sent + 1>>}]
    /\ UNCHANGED <<transport, rpcMaxRetries, executed, crossed>>

WriteFails(k) ==
    /\ call[k].at = "write"
    /\ \E e \in {"TIMED_OUT"} \cup IF conn[Mine(k)].alive THEN {} ELSE {"RESET"} :
          ProcessEnds(k, e)
    /\ UNCHANGED <<transport, rpcMaxRetries, executed, crossed>>

\* Writen of TcpConn, and the same loop of TcpSslConn.
Writen(k) == transport = "tcp" /\ (Write(k) \/ WriteFails(k))
SslWriten(k) == transport = "tls" /\ (Write(k) \/ WriteFails(k))
ThriftWrite(k) == transport = "thrift" /\ (Write(k) \/ WriteFails(k))

\* An answer is read whole; it can be an exception the peer declared.
Read(k) ==
    /\ call[k].at = "read"
    /\ conn[Mine(k)].replies # <<>>
    /\ LET c == Mine(k)
       IN  /\ \E e \in {"none", "APPLICATION"} : call' = [call EXCEPT ![k].at = "release", ![k].err = e]
           /\ conn' = [conn EXCEPT ![c].replies = Tail(@)]
           /\ crossed' = (crossed \/ Head(conn[c].replies) # <<k, call[k].sent>>)
    /\ UNCHANGED <<transport, rpcMaxRetries, executed>>

\* The answer does not come in time, the peer is gone, or it does not decode.
ReadFails(k) ==
    /\ call[k].at = "read"
    /\ \E e \in {"TIMED_OUT", "UNKNOWN"}
                \cup (IF conn[Mine(k)].alive THEN {} ELSE {"END_OF_FILE", "RESET"})
                \cup (IF transport = "thrift" THEN {"PROTOCOL"} ELSE {}) :
          ProcessEnds(k, e)
    /\ UNCHANGED <<transport, rpcMaxRetries, executed, crossed>>

Readn(k) == transport = "tcp" /\ (Read(k) \/ ReadFails(k))
SslReadn(k) == transport = "tls" /\ (Read(k) \/ ReadFails(k))
ThriftRead(k) == transport = "thrift" /\ (Read(k) \/ ReadFails(k))

\* process fails without an exchange: no such method, wrong arguments.
NoExchange(k) ==
    /\ call[k].at = "process"
    /\ call' = [call EXCEPT ![k].at = "release", ![k].err = "APPLICATION"]
    /\ UNCHANGED <<transport, rpcMaxRetries, conn, executed, crossed>>

-----------------------------------------------------------------------------
(* The end of an attempt *)

Released(k, c) ==
    [conn EXCEPT ![c] = IF Discarded(call[k].err) THEN ClosedConn(@)
                        ELSE [@ EXCEPT !.state = "idle"]]

\* thriftCall2Once, processOnce: the timeout is reset, then the connection is
\* returned or discarded.
Release(k) ==
    /\ call[k].at = "release"
    /\ conn' = [Released(k, Mine(k)) EXCEPT ![Mine(k)].custom = FALSE]
    /\ call' = [call EXCEPT ![k].at = "decide", ![k].conn = NoConn]
    /\ UNCHANGED <<transport, rpcMaxRetries, executed, crossed>>

\* thriftCall2WithRetry, processWithRetry: errs is history, one error per
\* attempt, so its length is attempt.  The context may have ended or not.
Retry(k) ==
    /\ call[k].at = "decide"
    /\ Disconnected(call[k].err)
    /\ Len(call[k].errs) < MaxRetries(k)
    /\ call' = [call EXCEPT ![k].at = "get", ![k].err = "none",
                            ![k].errs = Append(@, call[k].err)]
    /\ UNCHANGED <<transport, rpcMaxRetries, conn, executed, crossed>>

\* The call returns: success, an error that is not retried, or ctx.Err().
Return(k) ==
    /\ call[k].at = "decide"
    /\ call' = [call EXCEPT ![k].at = "done", ![k].err = "none"]
    /\ UNCHANGED <<transport, rpcMaxRetries, conn, executed, crossed>>

-----------------------------------------------------------------------------
(* The peer (external) *)

\* The peer executes a request it has received, and answers if it still can.
Execute(c) ==
    /\ \E r \in conn[c].wire :
          /\ executed' = [executed EXCEPT ![r[1]] = @ + 1]
          /\ conn' = [conn EXCEPT ![c].wire = @ \ {r},
                                  ![c].replies = IF conn[c].alive THEN Append(@, r) ELSE @]
    /\ UNCHANGED <<transport, rpcMaxRetries, call, crossed>>

PeerCloses(c) ==
    /\ conn[c].alive
    /\ conn' = [conn EXCEPT ![c].alive = FALSE, ![c].replies = <<>>]
    /\ UNCHANGED <<transport, rpcMaxRetries, call, executed, crossed>>

-----------------------------------------------------------------------------
RpcStep(k) ==
    \/ ThriftCall(k) \/ ThriftCall2(k) \/ ThriftWithTimeOutCall2(k)
    \/ ThriftExtCall2(k) \/ ThriftWithTimeOutExtCall2(k) \/ Process(k)
    \/ GetIdle(k) \/ Open(k) \/ GetFails(k)
    \/ StartProcess(k) \/ NoExchange(k)
    \/ Writen(k) \/ SslWriten(k) \/ ThriftWrite(k)
    \/ Readn(k) \/ SslReadn(k) \/ ThriftRead(k)
    \/ Release(k) \/ Retry(k) \/ Return(k)

RpcNext ==
    \/ \E k \in RpcCalls : RpcStep(k)
    \/ \E c \in RpcConns : Execute(c) \/ PeerCloses(c)

-----------------------------------------------------------------------------
(* Properties *)

\* One lease at a time: a leased connection belongs to exactly one call, a call
\* between two attempts or after its return holds none, and what is idle in the
\* pool is clean: the pool's timeout, no request on the wire, no unread answer.
\* So a call never reads the answer to another request, neither another call's
\* nor its own earlier attempt's.
LeaseDiscipline ==
    /\ \A c \in RpcConns :
          Cardinality({k \in RpcCalls : Mine(k) = c})
             = IF conn[c].state = "leased" THEN 1 ELSE 0
    /\ \A k \in RpcCalls : call[k].at \in {"get", "decide", "done"} => Mine(k) = NoConn
    /\ \A c \in RpcConns : conn[c].state = "idle" =>
          ~conn[c].custom /\ conn[c].wire = {} /\ conn[c].replies = <<>>
    /\ ~crossed

\* Only an attempt that ended with a lost connection is repeated, at most
\* RPCMaxRetries times (a negative setting counts as zero): a request that timed
\* out is never sent again, so the peer executes it at most once more than the
\* connections that were lost under it.
OnlyDisconnectedReplayed ==
    \A k \in RpcCalls :
        /\ \A i \in 1..Len(call[k].errs) :
              call[k].errs[i] \in {"NOT_OPEN", "END_OF_FILE", "RESET"}
        /\ Len(call[k].errs) <= IF rpcMaxRetries < 0 THEN 0 ELSE rpcMaxRetries
        /\ executed[k] <= 1 + Cardinality({i \in 1..Len(call[k].errs) :
                                             call[k].errs[i] # "NOT_OPEN"})
=============================================================================
