------------------------------ MODULE Snowflake ------------------------------
(***************************************************************************)
(* The id generator of util/snowflake.go: several Snowflake values (nodes) *)
(* and the goroutines that call NextID on them, under a clock that may     *)
(* stand still, jump and be set back.                                      *)
(*                                                                         *)
(* NextID runs under the mutex; it is one step, except when the sequence   *)
(* of a millisecond is used up: then it keeps the mutex and reads the      *)
(* clock until that has moved on.  Times count from the epoch, which is in *)
(* the past.                                                               *)
(***************************************************************************)
EXTENDS Integers

CONSTANTS Nodes,       \* Snowflake values
          WorkerBits,  \* WithWorkerBits
          DataBits,    \* WithDataBits
          SeqBits,     \* WithSequenceBits
          IdBits,      \* bits of an id: 64, an int64
          WorkerIds,   \* workerIDs NewSnowflake is called with
          DataIds,     \* dataIDs NewSnowflake is called with
          MaxClock     \* bound: the latest time the clock shows

SeqCount == 2^SeqBits
WorkerCount == 2^WorkerBits
DataCount == 2^DataBits
IdCount == 2^IdBits
maxSeq == SeqCount - 1
maxWorker == WorkerCount - 1
maxData == DataCount - 1

\* The options accept at most 20 bits for each of the three fields, so an id has
\* bits left for the time and its sign.
ASSUME SnowflakeAssumption ==
    /\ WorkerIds \subseteq Int /\ DataIds \subseteq Int
    /\ MaxClock \in Nat
    /\ WorkerCount \in Nat \ {0}
    /\ DataCount \in Nat \ {0}
    /\ SeqCount \in Nat \ {0}
    /\ IdCount \in Nat \ {0}
    /\ IdCount % (2 * (DataCount * (WorkerCount * SeqCount))) = 0

VARIABLES clock,      \* time.Now().UnixMilli() - epoch
          timestamp,  \* s.timestamp - epoch of each node
          sequence,   \* s.sequence
          workerID,
          dataID,
          waiting,    \* a NextID call waits for the next millisecond
          lastID,     \* history: the last id of a node, -1 before the first
          issued,     \* history: changes whenever a node hands out an id
          made        \* the node was created

snowVars == <<clock, timestamp, sequence, workerID, dataID, waiting, lastID, issued, made>>

SnowInit ==
    /\ clock \in 1..MaxClock
    /\ timestamp = [n \in Nodes |-> 0]
    /\ sequence = [n \in Nodes |-> 0]
    /\ workerID = [n \in Nodes |-> 0]
    /\ dataID = [n \in Nodes |-> 0]
    /\ waiting = [n \in Nodes |-> FALSE]
    /\ lastID = [n \in Nodes |-> -1]
    /\ issued = [n \in Nodes |-> FALSE]
    /\ made = [n \in Nodes |-> FALSE]

ValidIds(w, d) == w \in 0..maxWorker /\ d \in 0..maxData

NewSnowflake(n) ==
    /\ ~made[n]
    /\ \E w \in WorkerIds, d \in DataIds :
          /\ ValidIds(w, d)
          /\ workerID' = [workerID EXCEPT ![n] = w]
          /\ dataID' = [dataID EXCEPT ![n] = d]
    /\ made' = [made EXCEPT ![n] = TRUE]
    /\ UNCHANGED <<clock, timestamp, sequence, waiting, lastID, issued>>

-----------------------------------------------------------------------------
(* NextID and ParseID *)

\* The low bits of n as a signed number.
Wrap(n) == ((n + (IdCount \div 2)) % IdCount) - (IdCount \div 2)

\* The shifts of NextID, which lose what does not fit an id.  The sum is the bitwise
\* or of the code because the fields do not overlap (ParsesBack).
MakeID(now, d, w, s) == Wrap(((now * DataCount + d) * WorkerCount + w) * SeqCount + s)

ParseID(id) ==
    [timestamp |-> ((id \div SeqCount) \div WorkerCount) \div DataCount,
     dataID    |-> ((id \div SeqCount) \div WorkerCount) % DataCount,
     workerID  |-> (id \div SeqCount) % WorkerCount,
     sequence  |-> id % SeqCount]

\* The id is made from the new fields, and the call returns it.
Issue(n, now, s) ==
    /\ timestamp' = [timestamp EXCEPT ![n] = now]
    /\ sequence' = [sequence EXCEPT ![n] = s]
    /\ lastID' = [lastID EXCEPT ![n] = MakeID(now, dataID[n], workerID[n], s)]
    /\ issued' = [issued EXCEPT ![n] = ~@]
    /\ waiting' = [waiting EXCEPT ![n] = FALSE]
    /\ UNCHANGED <<clock, workerID, dataID, made>>

Ready(n) == made[n] /\ ~waiting[n]

\* The clock has moved on; with an earlier time the call fails and changes
\* nothing.
NextIDLater(n) ==
    /\ Ready(n)
    /\ clock > timestamp[n]
    /\ Issue(n, clock, 0)

NextIDSame(n) ==
    /\ Ready(n)
    /\ clock = timestamp[n]
    /\ sequence[n] + 1 <= maxSeq
    /\ Issue(n, clock, sequence[n] + 1)

\* The sequence has overflowed: the call waits with the mutex held.
NextIDWait(n) ==
    /\ Ready(n)
    /\ clock = timestamp[n]
    /\ sequence[n] + 1 > maxSeq
    /\ sequence' = [sequence EXCEPT ![n] = @ + 1]
    /\ waiting' = [waiting EXCEPT ![n] = TRUE]
    /\ UNCHANGED <<clock, timestamp, workerID, dataID, lastID, issued, made>>

\* Mutant: the wait ends as soon as the clock shows another time.
NextIDWaited_AnyChange(n) ==
    /\ waiting[n]
    /\ clock # timestamp[n]
    /\ Issue(n, clock, 0)

NextIDWaited(n) ==
    /\ waiting[n]
    /\ clock > timestamp[n]
    /\ Issue(n, clock, 0)

\* The system clock (external).
Tick ==
    /\ \E t \in 1..MaxClock : t # clock /\ clock' = t
    /\ UNCHANGED <<timestamp, sequence, workerID, dataID, waiting, lastID, issued, made>>

SnowNext ==
    \/ Tick
    \/ \E n \in Nodes : \/ NewSnowflake(n) \/ NextIDLater(n) \/ NextIDSame(n)
                        \/ NextIDWait(n) \/ NextIDWaited(n)

SnowSpec == SnowInit /\ [][SnowNext]_snowVars

-----------------------------------------------------------------------------
(* Properties *)

\* The time t fits the bits of an id above the fields and below the sign: 69 years
\* from the epoch with the widths the code starts from, 8 milliseconds with the
\* greatest ones the options accept.
TimeFits(t) == (t + 1) * (DataCount * (WorkerCount * SeqCount)) <= IdCount \div 2

\* ParseID gives back the parts an id was made from, so two nodes with different
\* ids never hand out the same one; of the time, as long as it fits.
ParsesBack ==
    \A n \in Nodes : timestamp[n] # 0 /\ ~waiting[n] =>
        LET parts == ParseID(lastID[n])
        IN  /\ parts.dataID = dataID[n]
            /\ parts.workerID = workerID[n]
            /\ parts.sequence = sequence[n]
            /\ TimeFits(timestamp[n]) => parts.timestamp = timestamp[n]

\* An id that NextID returns is greater than every one before it.
NodeIncreases(n) ==
    issued'[n] # issued[n] /\ TimeFits(timestamp'[n]) => lastID'[n] > lastID[n]

\* No two ids are the same, as long as the time fits an id: those of a node
\* increase, even when the clock is set back between two calls or while a call
\* waits for the next millisecond, and every id parses back to the numbers of its
\* node.  After that the shift loses the upper bits of the time without an error,
\* and ids become negative and repeat.
IdsIncrease == []ParsesBack /\ [][\A n \in Nodes : NodeIncreases(n)]_snowVars
=============================================================================
