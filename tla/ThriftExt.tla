------------------------------ MODULE ThriftExt ------------------------------
(***************************************************************************)
(* gpool/thrift_ext_proto.go: the extension header that carries values of  *)
(* the caller's context in front of a Thrift message, over several hops.   *)
(*                                                                         *)
(* A service takes the configured keys of its context into ReqExtData,     *)
(* adds some, and calls; the header is a magic prefix, a version, a size   *)
(* and the entries of the map in any order.  A client without the          *)
(* extension writes only the message.  The stream can end after any item.  *)
(* The context the next service's handler runs in is the one its own calls *)
(* start from.                                                             *)
(***************************************************************************)
EXTENDS Integers, Sequences, SequencesExt, FiniteSets, TLC

CONSTANT Hops   \* bound: calls from service to service

RequestId == "request_id"
TraceDepth == "trace_depth"
ClientService == "client_service"
CallClientService == "call_client_service"

VARIABLES extKeys,   \* Logconf.CtxValueKey, the same for all services
          hop,       \* the calls so far; names this service
          ctx,       \* the values in this service's context
          reqExtData,\* the map of its ExtContext, or NoData
          extWire,   \* what was written: magic, entries, the items that arrived
          extRead,   \* the server: items read, its context, callClientService
          extSent,   \* history: the last call: its map, was the context re-wrapped
          extAt      \* "calling", "reading" or "failed"

extVars == <<extKeys, hop, ctx, reqExtData, extWire, extRead, extSent, extAt>>

NoData == [none |-> "none"]
NoWire == [magic |-> FALSE, entries |-> <<>>, items |-> 0]
NothingRead == [items |-> 0, ctx |-> <<>>, caller |-> ""]
NotSent == [data |-> NoData, rewrapped |-> FALSE]
Service(n) == <<"front", "middle", "back", "last">>[n + 1]

ExtInit ==
    /\ extKeys \in {{}, {RequestId}, {RequestId, ClientService, TraceDepth}}
    /\ hop = 0
    /\ ctx = (RequestId :> "r0")
    /\ reqExtData = NoData
    /\ extWire = NoWire
    /\ extRead = NothingRead
    /\ extSent = NotSent
    /\ extAt = "calling"

-----------------------------------------------------------------------------
(* The caller *)

\* ctx is the context last made; a context can be wrapped again.
NewExtContext ==
    /\ extAt = "calling" /\ hop < Hops
    /\ reqExtData' = [k \in extKeys \cap DOMAIN ctx |-> ctx[k]]
    /\ UNCHANGED <<extKeys, hop, ctx, extWire, extRead, extSent, extAt>>

\* Contexts made from one another share the map; \E of the two contexts to go on with.
Put(k, v) ==
    /\ extAt = "calling" /\ reqExtData # NoData
    /\ reqExtData' = (k :> v) @@ reqExtData
    /\ ctx' \in {ctx, (k :> v) @@ ctx}
    /\ UNCHANGED <<extKeys, hop, extWire, extRead, extSent, extAt>>

SetReqExtData == \E v \in {"01", "x"} : Put(TraceDepth, v)

SetReqExtCallClientService == Put(CallClientService, Service(hop))

\* Is GetReqExtData(k) "" for this map: no entry, and no value in the context?
IsUnset(data, k) == k \notin DOMAIN data /\ k \notin DOMAIN ctx

Ensured(data, k, v) == IF IsUnset(data, k) THEN (k :> v) @@ data ELSE data

\* ThriftExtCall2 of a pool, and of a selector, which also ensures a request id.
Prepared(selector) ==
    LET data == IF selector THEN Ensured(reqExtData, RequestId, "new") ELSE reqExtData
    IN  Ensured(data, CallClientService, Service(hop))

\* The items of a header with n entries, and the message.
StreamLength(n) == 3 + 2 * n + 1

WriteMessageBegin ==
    /\ extAt = "calling" /\ reqExtData # NoData
    /\ \E selector \in BOOLEAN :
          LET data == Prepared(selector) IN
          /\ \E order \in SetToSeqs(DOMAIN data), n \in 0..StreamLength(Cardinality(DOMAIN data)) :
                extWire' = [magic |-> TRUE, items |-> n,
                            entries |-> [i \in DOMAIN order |-> <<order[i], data[order[i]]>>]]
          /\ extSent' = [data |-> data,
                         rewrapped |-> CallClientService \in DOMAIN ctx \ DOMAIN reqExtData]
    /\ extAt' = "reading"
    /\ UNCHANGED <<extKeys, hop, ctx, reqExtData, extRead>>

\* A client without the extension: the prefix is part of the message.
WriteStandard ==
    /\ extAt = "calling" /\ reqExtData = NoData /\ hop < Hops
    /\ \E n \in 0..2 : extWire' = [magic |-> FALSE, items |-> n, entries |-> <<>>]
    /\ extSent' = NotSent
    /\ extAt' = "reading"
    /\ UNCHANGED <<extKeys, hop, ctx, reqExtData, extRead>>

-----------------------------------------------------------------------------
(* The server: ExtProcessor *)

Arrived(n) == extRead.items + n <= extWire.items

\* The stream ends inside the item or pair the server reads next.
Cut ==
    /\ extAt = "reading"
    /\ ~ Arrived(IF extWire.magic /\ extRead.items \in 3..(StreamLength(Len(extWire.entries)) - 2)
                 THEN 2 ELSE 1)
    /\ extAt' = "failed"
    /\ UNCHANGED <<extKeys, hop, ctx, reqExtData, extWire, extRead, extSent>>

ReadPrefix ==
    /\ extAt = "reading" /\ extRead.items = 0 /\ Arrived(1)
    /\ extRead' = [extRead EXCEPT !.items = 1,
                                  !.ctx = IF extWire.magic THEN <<>> ELSE (RequestId :> "new")]
    /\ UNCHANGED <<extKeys, hop, ctx, reqExtData, extWire, extSent, extAt>>

ReadMetaVer ==
    /\ extAt = "reading" /\ extWire.magic /\ extRead.items = 1 /\ Arrived(1)
    /\ extRead' = [extRead EXCEPT !.items = 2]
    /\ UNCHANGED <<extKeys, hop, ctx, reqExtData, extWire, extSent, extAt>>

\* The head of ReadMetaMap.
ReadMapBegin ==
    /\ extAt = "reading" /\ extWire.magic /\ extRead.items = 2 /\ Arrived(1)
    /\ extRead' = [extRead EXCEPT !.items = 3, !.ctx = (TraceDepth :> "0")]
    /\ UNCHANGED <<extKeys, hop, ctx, reqExtData, extWire, extSent, extAt>>

\* strconv.Itoa of strconv.Atoi; "x" is no number.
Itoa(v) == IF v = "01" THEN "1" ELSE v

\* Mutant: the caller's name goes into the context where its entry is read.
MetaEntry_AtOnce(r, k, v) ==
    CASE k = TraceDepth -> IF v = "x" THEN r ELSE [r EXCEPT !.ctx = (k :> Itoa(v)) @@ @]
      [] k = CallClientService -> [r EXCEPT !.ctx = (ClientService :> v) @@ @]
      [] OTHER -> [r EXCEPT !.ctx = (k :> v) @@ @]

\* An entry of the loop in ReadMetaMap.
MetaEntry(r, k, v) ==
    CASE k = TraceDepth -> IF v = "x" THEN r ELSE [r EXCEPT !.ctx = (k :> Itoa(v)) @@ @]
      [] k = CallClientService -> [r EXCEPT !.caller = v]
      [] OTHER -> [r EXCEPT !.ctx = (k :> v) @@ @]

EntriesRead == (extRead.items - 3) \div 2

ReadEntry ==
    /\ extAt = "reading" /\ extWire.magic /\ extRead.items >= 3
    /\ EntriesRead < Len(extWire.entries) /\ Arrived(2)
    /\ LET e == extWire.entries[EntriesRead + 1]
       IN  extRead' = [MetaEntry(extRead, e[1], e[2]) EXCEPT !.items = @ + 2]
    /\ UNCHANGED <<extKeys, hop, ctx, reqExtData, extWire, extSent, extAt>>

\* The end of ReadMetaMap, and Process handing the message to the handler.
Dispatch ==
    /\ extAt = "reading" /\ Arrived(1)
    /\ extRead.items = IF extWire.magic THEN StreamLength(Len(extWire.entries)) - 1 ELSE 1
    /\ ctx' = IF extRead.caller = "" THEN extRead.ctx
              ELSE (ClientService :> extRead.caller) @@ extRead.ctx
    /\ hop' = hop + 1
    /\ reqExtData' = NoData
    /\ extRead' = NothingRead
    /\ extAt' = "calling"
    /\ UNCHANGED <<extKeys, extWire, extSent>>

ExtNext ==
    \/ NewExtContext \/ SetReqExtData \/ SetReqExtCallClientService
    \/ WriteMessageBegin \/ WriteStandard
    \/ Cut \/ ReadPrefix \/ ReadMetaVer \/ ReadMapBegin \/ ReadEntry \/ Dispatch

-----------------------------------------------------------------------------
(* Properties *)

\* Has this service just been called with the extension?
CalledWithExt == extAt = "calling" /\ hop > 0 /\ reqExtData = NoData /\ extWire.magic

(***************************************************************************)
(* A handler runs in the context its caller sent, whatever the order of    *)
(* the entries and the forwarded values: request_id is the caller's, the   *)
(* depth the number sent or 0, and client_service the service that called, *)
(* not the one before it.  The exception is a context wrapped again after  *)
(* the caller's name was put into it: GetReqExtData finds the name there,  *)
(* so ThriftExtCall2 does not send it (gpool/thrift_ext_proto.go, Process, *)
(* ReadMetaMap; gpool/gpool.go, ThriftExtCall2).                           *)
(***************************************************************************)
HandlerSeesCaller ==
    CalledWithExt =>
        LET sent == extSent.data
            has(k) == k \in DOMAIN sent
        IN  /\ extWire.items = StreamLength(Len(extWire.entries))
            /\ RequestId \in DOMAIN ctx <=> has(RequestId)
            /\ has(RequestId) => ctx[RequestId] = sent[RequestId]
            /\ ctx[TraceDepth] = IF has(TraceDepth) /\ sent[TraceDepth] # "x"
                                 THEN Itoa(sent[TraceDepth]) ELSE "0"
            /\ ~ extSent.rewrapped => ctx[ClientService] = Service(hop - 1)
=============================================================================
