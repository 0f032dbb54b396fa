# TLA+ specifications of lgobase

lgobase is a Go library of infrastructure packages: connection pools and
endpoint selectors, a work pool, a lock-free queue, a distributed lock,
configuration readers, a logger, a token codec and identifier generators. These
modules model the packages that have state or an algorithm of their own, check
them with TLC and prove the main properties of the connection pool with TLAPS.

Paths below are relative to `src/`. The line-by-line correspondence between
definitions and source is in `PROJECT.json` under `map`, and the hazards each
property is aimed at are under `hazards`.

## The system and its parts

| Part | Source | Modules | State of the work |
|---|---|---|---|
| Connection pool | `gpool/gpool.go`, `gpool/waiter_queue.go` | `Gpool`, `LeasePool`, `GpoolInvariant`, `GpoolOwnership`, `GpoolProofs` | modelled and proved |
| Idle queue of the pool | `gpool/idle_queue.go` | `IdleRing`, `IdleDeque` | modelled |
| Calls, retry, TCP pool, connections | `gpool/gpool.go:478-716`, `gpool/thriftclient.go`, `network/tcp_pool.go`, `network/tcp_conn*.go`, `network/tcp_ssl_conn.go` | `RpcCall` | modelled, without dialling and TLS set-up |
| Thrift endpoint selector | `gpool/gpool_selector.go` | `PoolSelector`, `RpcSelector`, `Selectors` | modelled, without re-initialisation |
| TCP endpoint selector | `network/tcp_selector.go` | `PoolSelector`, `TcpSelector`, `Selectors` | modelled, without re-initialisation |
| Rule selector | `gpool/gpool_rule_selector.go` | `RuleSelector` | modelled |
| Thrift extension header | `gpool/thrift_ext_proto.go` | `ThriftExt` | modelled |
| CAS queue | `cas/queue.go` | `CasQueue`, `Fifo` | modelled |
| Work pool | `workpool/pool.go` | `WorkPool` | modelled |
| Distributed lock | `cluster_dlock/cluster_dlock.go` | `Dlock` | modelled |
| Snowflake identifiers | `util/snowflake.go` | `Snowflake` | modelled |
| Log files and rotation | `logger/logger.go`, `logger/logger_handler.go` | `LogRotation` | modelled, without the layout of a record |
| Desensitisation of logs | `logger/desensitize.go` | `Desensitize` | modelled |
| Token codec | `token/` | `TokenCodec` | modelled, with the cipher opaque |
| YAML configuration | `gconfig_v2/` | `YamlParser`, `BlockScalar`, `YamlScalar`, `FlowParser`, `YamlDecode` | modelled above the level of characters |
| INI configuration | `gconfig/`, `confparse/` | `IniConfig`, `ConfParse` | modelled above the level of characters |
| Others | | | see "Not modelled" |

`TaskQueues`, `Services`, `Selectors` and `Sequential` put components together for
model checking, and `MCSelectorsLive` two instances of `Selectors`. Except for the two selectors of `Selectors`, which are two
versions of one design, components that TLC runs together share no state in the
code; a behaviour of the composition is a behaviour of one of them, chosen in the
initial state, and checks the properties of all.

How they interact. A selector owns one `Gpool` per endpoint and picks one for
every call; the call borrows a connection from it with `Get` and gives it back
with `Close` or `Discard`. The rule selector owns a selector per address. `Gpool`
keeps its idle connections in the ring of `idle_queue.go`. In CAS mode the work
pool keeps its tasks in the CAS queue. A call with the extension sends a header,
which the server puts into the context of the handler. The distributed lock uses
a Redis server only. The configuration readers, the logger, the token codec and
the identifiers use nothing of the others.

Each level uses the one below it through what that one was shown to do. `Gpool`
has a sequence for the idle queue, and `IdleRing` implements that sequence
(`IdleDeque`). `WorkPool` has a sequence for the queue, with the push and the
pop as single steps, and `CasQueue` implements such a queue (`Fifo`). The
selectors and the calls know of a pool that a connection is lent to one caller,
that it stops lending when it is closed and is closed when nothing is lent, which
is `LeasePool`, implemented by `Gpool`. `YamlParser` leaves the value of a line to
`BlockScalar`, `YamlScalar` and `FlowParser`, and `YamlDecode` starts from the tree
they make; `ConfParse` starts from the entries `IniConfig` reads.

## The modules

### Gpool: the connection pool

All shared state is guarded by `Gpool.mutex`, so an action is one critical
section. The pool releases the mutex wherever it runs the connection factory or
closes a connection; `pc[p]` records at which of these places caller `p` is.

| Variable | Code |
|---|---|
| `idle` | `idleQueue`, from oldest to newest |
| `inUse`, `creating`, `closing` | the counters of the same names |
| `waiters` | `waiterQueue` |
| `result[p]` | the buffered result channel of `p`'s `poolWaiter` |
| `closed`, `closeEnded` | `closed`, and `closeDone` being closed |
| `connState[c]` | the atomic state of a `PoolConn` |
| `pc[p]`, `conn[p]` | where `p` is, and the connection in its hands |
| `closeList` | connections `Close` has taken and not closed yet |
| `closer[k]` | where a call of `Gpool.Close` is |

The actions `Get...`, `ReplaceStale`, `Create...`, `Receive...`, `StopWaiting`,
`CancelWaiter`, `Put...`, `Discard...`, `CloseDone` and `PoolClose...` follow
the branches of the functions they are named for. `DispatchCapacityWaiters`,
`FinishClose` and `AfterPhysicalClose` are the tails shared by several critical
sections (`dispatchCapacityWaitersLocked`, `finishCloseLocked` and the second
half of `closeConnectionLocked`).

Abstractions. Whether a connection is open and young enough, whether the factory
succeeds, and when a context or a timer ends are choices. Errors returned by
`Conn.Close` and the wait statistics are left out: no decision depends on them. A
closed connection is unreachable, so its identity may be used again. A second
`Close` of the same handle after the connection was lent again is excluded by the
ownership rule of `gpool/OPTIMIZATION_REVIEW.md:358`.

`LeasePool` is the abstract service: a connection is lent to one caller at a
time, nothing new is lent after shutdown, and the shutdown is over only when
nothing is lent.

### IdleRing and IdleDeque

The ring buffer with its head, tail, size and slots, against a bounded
double-ended queue. `Push` of nil or into a full ring is refused, as in the code.

### PoolSelector, RpcSelector, TcpSelector and Selectors

The two selectors contain the same RoundRobin, health loop and Close, which
`PoolSelector` models once. Every load and store of a validity flag is a step,
because RoundRobin reads the flags one by one, twice, while callers eject servers
and the health checker restores them. `RpcSelector` adds the compare-and-swap of
`handleCallError`, the choice of `shouldEject`, and the second look at `closed`
after a Ping; `TcpSelector` adds the plain store of `Process`. `Selectors` is one
or the other, as the initial state says, so that a run checks both. The ticket counts
modulo `PosWrap`, for 2^32. A selector without Ping never changes a validity flag
and has no concurrent state of interest. A second `RpcPoolInit` on the same
selector rewrites `Slist` without synchronisation; it is meant for a selector
nobody is using and is not modelled.

The history variables `stay`, `ejections` and `owed` record what happened during
a search and how many notices an ejection still owes; no guard reads them.

### CasQueue and Fifo

Each atomic operation of `PushBack` and `PopFront` is a step; locations are named
after the source line of the next operation. Memory is garbage collected, so a
node's address is not reused while anyone can see it, and items need no tags.
`Fifo` is the linearizable queue: the linearization point of a push is the
successful swap of `next`, of a pop the successful swap of `Head`, and of an
empty pop the load of `next`, which `emptySeen` records.

### WorkPool

Submitters, workers and `stop`, in channel and in CAS mode (`casMode`, chosen in
the initial state). The mutex of
`AddTask` and `stop` is the variable `mu`; workers do not take it. The bounded
`Notify` channel of CAS mode is the counter `notify`.

### Dlock

Instances of the lock, goroutines that share an instance, and a Redis server. A
command is in `inflight` until it is applied; it may be applied late, more than
once, with the reply lost, or never. Leases run out at any moment. Tokens are
unique (`used`), as the random tokens of the code are taken to be. Retry delays
are small integers, and the jitter is a choice within the interval of the code.

### RuleSelector

The list of rules, the pools by address and the rule engine, under `rrps.mu`. An
action is a critical section or what a call does between two of them, because
`AddSvr` starts a pool and `ParseRule` builds an engine with the mutex released.
A rule is the address it selects; which rule fires is a choice. `poolOpen` says of
every pool ever made whether it is open.

### RpcCall

Calls over a pool of connections: the four ways to call a Thrift pool and
`Process` of the TCP pool, on Thrift, TCP or TLS connections (`transport`). A
request is written in `Chunks` pieces and the peer executes it once all of them
have arrived. The peer may close at any moment, answer late or not, and a
connection that `IsOpen` found open may be dead when it is used. The record
`conn[r]` holds what is on the wire and what is unread, so a connection that goes
back to the pool too early is visible as an answer that the next call reads
(`crossed`).

### LogRotation

Writers that test `isMustRename` without the mutex and rename under it, the main
and the error file in both formats, rotation by day and by size, the process
killed and started again, a clock that is set, and a Rename or Create that fails.
A file is the set of records in it. What a rotation does between two system calls
is a step of its own, in the order of `rename`. Records lost to a failed system
call are in `excused`; the code cannot keep those.

### Snowflake

Nodes with the bit widths as constants, created with identifiers inside and
outside the range, under a clock that stands still, jumps and is set back, but
never before the epoch. An id has `IdBits` bits, for the 64 of an int64, and the
shifts lose what does not fit (`Wrap`).
`NextID` is a step, except that it waits for the clock when a sequence is used up.
The history variable `issued` tells an id that is handed out twice from no id.

### YamlParser, BlockScalar, YamlScalar, FlowParser, YamlDecode

The reader of `gconfig_v2`, one module per stage. `YamlParser` is the automaton of
`parse` over lines: a line is its indentation, its dash, its key and the kind of
its value, and the state is the stack of open nodes. `BlockScalar` collects,
strips, folds and chomps the lines of a block scalar; every character is
distinguishable, so a lost or moved one shows. `YamlScalar` types a plain text
from its characters (sign, digit, point, exponent, letter, a digit too many).
`FlowParser` is the automaton of the inline collections over tokens.
`YamlDecode` is `setValue` over a Go type with every kind of field, from an empty
or a filled destination; a float is a number that a float32 field may round or
find too large, and a map may have keys that are not strings. Each is compared with a definition of the meaning that
does not follow the code: the meaning of a document is stated over indentation and
not over a stack, that of a flow value over matching brackets.

### IniConfig and ConfParse

`IniConfig` reads sections, entries and extension lines and builds the servers of
a rule from them; `ConfParse` fills a struct field by field from the words of its
keys, or from the extension line with the index asked for (`ParseExtStru`), up to
an error or a panic.

### Desensitize, TokenCodec, ThriftExt

`Desensitize` walks trees of containers and encoded texts. A Go map is walked in
any order, so its walk gives a set of outcomes, a panic among them. `TokenCodec` has bytes
with `Base` values; 32 and 64 bits are one and two of them. The flag is a text of
any length, as the code takes it. A Token may be packed
again and changed in between. Encryption is opaque: a body opens under the random
bits it was closed with. `ThriftExt` follows a context over `Hops` calls; the
entries of a header arrive in any order, as those of a Go map, and the stream may
end after any item.

## What the runs check

| Run | Instance | Shows |
|---|---|---|
| `gpool` | 4 callers, 1 closer, 1 slot, 2 waiters at most, LIFO | counters exact, no connection shared, no lost wake-up, at most one slot too many, shutdown final, waiters served in order, refinement of `LeasePool`; every Get and release returns, shutdown completes |
| `gpool_strict_limit` | 2 callers, 1 slot | **violation**: `MaxConns` is exceeded by one |
| `gpool_early_close` | 2 callers, 1 slot | **violation**: Close returns while a connection is being created |
| `selectors` | 2 callers, 2 servers, either selector | a refused call has a reason; one notice per ejection in the Thrift selector |
| `selectors_close` | 1 caller, 2 closers, 2 servers, either selector | a Close without an error leaves nothing running |
| `selectors_live` | 1 caller and either 2 servers or 1 server and 2 closers, either selector | an ejected server that answers Ping comes back, also when its notice was dropped; Close ends |
| `tcp_selector_notices` | 2 callers, 2 servers | **violation**: two notices for one ejection |
| `task_queues` | work pool: 2 workers, 3 tasks, both modes, a queue of 1 in channel mode; CAS queue: 2 goroutines, one of which may stall, 3 pushes | no task lost, duplicated or miscounted; accepted tasks complete; workers return; linearizable FIFO, no nil read; the other goroutine completes its operations |
| `dlock_live` | 2 instances, 2 goroutines | a call whose context ended returns |
| `services` | rule selector: 3 goroutines, 2 addresses, 3 pools; calls: 2 calls, 2 connections, 2 chunks, retries -1 and 1; log: 2 writers, 3 records, 2 days, 1 restart, 1 fault; Snowflake: 2 nodes, 1 bit each, ids of 6 bits, 4 times; lock: 2 instances, 3 goroutines, 2 tokens | no pool leaks, a selected pool is open, rules are lost by overlapping ParseRule calls only; connections go back clean and only a lost connection is retried; no record is lost and files are rotated when due; ids increase and parse back as long as the time fits; holders keep the key until the lease ends or Unlock, and only owners delete |
| `sequential` | YAML: 4 lines, indentation to 2; block scalar: 3 lines, headers of 4 characters; scalar: 5 characters; flow value: 8 tokens; INI: 5 lines; trees of depth 3; 2 packings; 2 hops; ring of 3 | every reader gives what its input says; masking hides exactly what is sensitive; tokens and extension headers arrive as sent; the ring implements `IdleDeque` |
| `yaml_mixed` | 3 lines, indentation to 2 | **violation**: a list item with a block scalar among keys is accepted |

Bounds. The pool needs a borrower, a Get that replaces a stale connection, a
waiter and a canceller at the same time: four callers, and one connection more
than the limit because of the excess slot. The configured idle limit exceeds
`MaxConns`, so that its normalisation is exercised. A race in a selector needs
two callers and a server to fall back on; in its close runs one caller is enough,
since callers meet Close only through the pools. The liveness run has two models:
`NotValid` holds as many notices as there are servers, so with two servers two
notices of the one fill it and the only notice of the other is lost, after which
nothing but the periodic scan finds it; one server is enough for Close to
wait for a call and for the health checker. Three pushes leave the tail
of the CAS queue lagging behind a stalled goroutine while the other one pushes and
pops. The work pool needs more tasks than workers and more than the notice channel
holds. Two tokens are two owners one after the other, which is all
`OnlyOwnerDeletes` compares. `PosWrap` is 2 in `selectors`, so that the ticket
wraps and both servers are the first choice in turn.

A rule selector needs two calls that replace or parse against each other and a
third that selects or closes; three pools are a first one, its replacement and one
that comes too late. Two calls over two connections are enough for an answer to
reach the wrong call and for a retry on a fresh connection. A log file is full
after one record, so three records rotate twice and pass the two rotated files
kept; the days allow a rotation by date with one more to come. One-bit sequences are
used up by two ids, and with ids of 6 bits the last of the four times no longer fits. Four YAML lines hold a key, its list, an item with a map and a
line that leaves all of them. Flow values of eight tokens nest twice with two
members. The tokens, trees and texts are small because the code treats a field,
a container and a character the same wherever they stand; `Base = 4` leaves a
value below, at and above what one byte holds. In the pool the queue of two waiters
is full with the other two callers, one of which is refused.

Symmetry is used for interchangeable goroutines, connections, tokens and keys in
runs without liveness properties only. Deadlock is checked for the pool and the
selectors. The work pool stops for good once its tasks are done, and in `services`,
`sequential` and `yaml_mixed` a behaviour ends when its bound is reached or its
input is read.

Fairness. Weak fairness on the steps of a goroutine says that the Go scheduler
runs what can run, and that user callbacks (factory, Process, Ping, Close of a
connection) return. Nothing forces contexts or timers to end, Redis to answer, or
calls to be made; `gpool` also has borrowers give their connections back. The
goroutines in `Stalled` of the CAS queue have no fairness. The cases of the health
checker's `select` have strong fairness: Go chooses at random among the ready
cases. In `selectors_live` Pings succeed (`PingsFail = FALSE`), as the property is
about servers that answer.

### Disagreements with the documentation

1. `gpool/OPTIMIZATION_REVIEW.md:123` and `:158` call `MaxConns` a strict limit.
   `getConnFromIdle` (`gpool/gpool.go:232-262`) closes a stale connection with the
   mutex released. The freed slot goes to a waiter, and then the same Get
   reserves another one without a check. The excess is never more than one slot
   (`CapacityBound`, proved).
2. The comment of `Gpool.Close` (`gpool/gpool.go:410-412`) says that it waits for
   connections being created. In the same window the pool looks empty, so Close
   returns, and the Get still opens a connection; it is closed again at once and
   the Get fails with `ErrPoolClosed`.
3. `selector/selector.go:68-70` says that selectors enqueue a failing node once
   per transition. `TcpPoolSelector.Process` stores the state without comparing
   and enqueues every failure. The extra notices cost a check that returns early.
4. `gconfig_v2/gconfig_test.go:425-427` and `:555-557` expect a document that mixes
   keys and list items, or begins with a list, to be refused with "can not mix map
   and slice items". For an item whose text is a block scalar (`- |`) the error of
   `feedSliceScalar` is dropped by the `continue` of `gconfig_v2/gconfig.go:755`,
   and an item `- key: |` (`:768-790`) does not look at the kind of its node at all:
   such documents are accepted, without the item.

### Where a property states what the code does instead

These properties say of all inputs what a user would expect, except for cases in
which the code does something else. Each case is written into the property, which
says exactly when it occurs and that nothing else is affected. They are behaviours of
the code to know of, and no documentation contradicts them.

- `TokenRoundTrip`. `UnPack` reads a uid of 8 bytes from the front of the body
  instead of from behind the two bytes before it (`token/token.go:254`,
  `tkSrc[0:end]`). A `FlagUC` that is not one character moves the fields behind it,
  and one outside ASCII comes back as two bytes (`:235`). Of a udid of 256 bytes
  or more only as many bytes are kept as its length modulo 256. A Token that is
  packed again keeps the version bits of the packing before (`:384`): it may be
  refused or read with the wrong widths.
- `HandlerSeesCaller`. A context that is wrapped by `NewExtContext` again after the
  name of the caller was put into it sends no name, and the handler sees the
  service before.
- `IdsIncrease`. Once the time no longer fits above the other fields, the shift of
  `util/snowflake.go:151` loses its upper bits without an error: ids become
  negative and repeat. With the widths the code starts from that is 69 years after
  the epoch, with the greatest ones the options accept 8 milliseconds.
- `ParsedAsIndented`. It leaves out documents that mix keys and items (see 4 above)
  and items directly below an item.
- `BlockKeepsText`. An indentation indicator that asks for more than a line has cuts
  the characters of the line left of that column, unless the whole line is left of
  it (`gconfig_v2/gconfig.go:370-384`). A folded scalar of blank lines only has one
  break more than lines.
- `ScalarTyped` (in `ValuesAsWritten`). A plain text with an "e", or with signs and
  points only, can be refused, because `IsFloat` looks too little at an exponent.
- `DecodedAsWritten`. In a float field a number is rounded to what the field holds,
  and a duration becomes its number of nanoseconds.
- `MaskedExactly`. The keys of a map that are not strings all have the name of their type
  (`k.String()`, `logger/desensitize.go:57`), so that only one of the entries is
  logged, under that name. A function whose mask is no text panics on an XML element
  (`:259`). A JSON text in which a mask cannot be encoded is masked as a whole, and
  errors, private fields and what is below a sensitive XML element are not entered.
- `IniIntoStructs`. Numbers wrap at the width of their field, a text without its
  separator or outside the numbers panics where `getBaseValue` does, and extension
  lines belong to the last entry even past a section header.
- `NoRecordLost`. Records are lost with a Rename or Create that fails (`excused`),
  and rotation by size replaces the oldest files.

## What is proved

`GpoolProofs` proves for every set of callers (finite), closers and connections
and every value of the limits, from `ConfAssumption` alone:

| Theorem | Property |
|---|---|
| `TypeCorrect` | `TypeOK` |
| `CountersExact` | `Accounting` |
| `ConnectionsUnshared` | `SoleOwner` |
| `WakeupsKept` | `NoLostWakeup` |
| `CapacityBounded` | `CapacityBound` |
| `ShutdownFinal` | `ShutdownIsFinal` |
| `PoolImplementsLeasePool` | `LendsLikeLeasePool` |
| `QueueIsFair` | `WaitersServedInOrder` |

None of these is inductive alone. The inductive invariant `IInv`
(`GpoolInvariant`) joins them with what they rest on:

- `FieldTypes`: the types, with counters that are only integers. That they are
  natural numbers follows from `Accounting`.
- `QueueShape`: a caller is queued exactly while it waits without a result, and
  once. Without it a delivery could count a caller twice.
- `Ownership`: a caller has a connection exactly in the states that say so, and
  the connection's own state agrees. This is what makes the handover of `put` to a
  waiter an exchange of owners.
- `NoLostWakeup` and `CapacityBound` need each other: a waiter is served beside a
  replacement only if the capacity was not exceeded before.
- `Accounting`: the counters that the guards test are the numbers of callers in
  the states they stand for.
- `Shutdown`: `ShutdownIsFinal`, and an open pool has an empty close list.

The argument is split by conjunct. `GpoolInvariant` has the lemmas on the
operators and `TypesStep`, `CapacityStep` and `QueueStep`; `GpoolOwnership` has
`OwnershipStep`, by one lemma for each way a connection changes hands;
`GpoolProofs` has `AccountingStep` (through `CountStep`: a counter follows its set
when one caller moves), `ShutdownStep`, the step to step argument for `LeasePool`
and for the order of the waiters, both from `IInv`, and the theorems.

Only model-checked: everything about liveness and fairness, which the prover does
not support; the readers, codecs and masks, whose definitions recur over their
data; the refinement of `IdleDeque` by `IdleRing`; and the properties of the other
components.

## Not modelled

- `selector/selector.go` (its `Selector`) and `redispool/`. `RoundRobin` and
  `SetSvrStat` assert `BaseSvr` values in a list in which `SparseAddr` and
  `SparseRedisAddr` store pointers, so that every call panics before it changes
  anything. `BaseSvr` itself is part of the two selectors above.
- A second initialisation of a selector in use, which the code does not
  synchronise and which is meant for a selector nobody uses.
- Dialling, TLS set-up, socket options and the framing of Thrift: I/O around
  libraries. Their failures are choices in `RpcCall`.
- Ciphers, MACs and hashes (`token`'s `TkMac`, `dbenc`, `util/cryptoutils.go`,
  `util/rsa.go`): arithmetic of libraries.
- The layout of log records (`logger_handler.go`, `db_logger.go`) and of error
  messages: formatting.
- The splitting of a configuration line into key, value and comment by characters
  and regular expressions: the models start from the kinds of line it yields.
- `dbpool`, `httpclient`, `util/util.go`, `util/genids.go`: thin wrappers of
  drivers and libraries.
- `gpool/server`, `httpclient/server`, `gpool/gen-go`: samples and generated code.

## Candidates for further proofs

`IdleRing` implements `IdleDeque`; `AcquiringExact` and `HolderKeepsKey` of `Dlock`; `IdsIncrease`;
`RulePoolsOwned`; `TasksAccounted`; the list shape of `CasQueue`; `CloseIsComplete`
of the selectors. The modules of these components declare no RECURSIVE operators.
