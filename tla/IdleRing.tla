------------------------------ MODULE IdleRing -------------------------------
(***************************************************************************)
(* The ring buffer of gpool/idle_queue.go that stores idle connections.    *)
(* The pool calls it with its mutex held, so each method is one step.      *)
(***************************************************************************)
EXTENDS Integers, Sequences

CONSTANTS Items,     \* connections
          Nil,       \* the nil *PoolConn
          Capacity   \* argument of newIdleQueue

ASSUME RingAssumption ==
    /\ Capacity \in Nat
    /\ Nil \notin Items
    /\ Items \cap BOOLEAN = {} /\ Nil \notin BOOLEAN

VARIABLES items,  \* the slots
          head,   \* slot of the oldest item
          tail,   \* slot the next item goes to
          size,   \* number of items
          ret     \* what the last method returned

ringVars == <<items, head, tail, size, ret>>

Slots == 0..(Capacity - 1)

\* newIdleQueue
RInit ==
    /\ items = [i \in Slots |-> Nil]
    /\ head = 0
    /\ tail = 0
    /\ size = 0
    /\ ret = Nil

\* The index after i: both ends of the ring advance this way.
After(i) == IF i + 1 = Capacity THEN 0 ELSE i + 1

\* The index before i.
Before(i) == (IF i = 0 THEN Capacity ELSE i) - 1

Push(c) ==
    /\ size # Capacity
    /\ items' = [items EXCEPT ![tail] = c]
    /\ tail' = After(tail)
    /\ size' = size + 1
    /\ ret' = TRUE
    /\ UNCHANGED head

\* Push of a nil connection or on a full ring.
PushRefused(c) ==
    /\ c = Nil \/ size = Capacity
    /\ ret' = FALSE
    /\ UNCHANGED <<items, head, tail, size>>

Pop ==
    /\ size # 0
    /\ ret' = items[head]
    /\ items' = [items EXCEPT ![head] = Nil]
    /\ head' = After(head)
    /\ size' = size - 1
    /\ UNCHANGED tail

\* Mutant: the slot is read before the index is moved back.
PopNewest_ReadsFirst ==
    /\ size # 0
    /\ tail' = Before(tail)
    /\ ret' = items[IF tail = Capacity THEN 0 ELSE tail]
    /\ items' = [items EXCEPT ![tail'] = Nil]
    /\ size' = size - 1
    /\ UNCHANGED head

PopNewest ==
    /\ size # 0
    /\ tail' = Before(tail)
    /\ ret' = items[tail']
    /\ items' = [items EXCEPT ![tail'] = Nil]
    /\ size' = size - 1
    /\ UNCHANGED head

\* Pop and PopNewest of an empty ring.
PopNothing ==
    /\ size = 0
    /\ ret' = Nil
    /\ UNCHANGED <<items, head, tail, size>>

RNext ==
    \/ \E c \in Items : Push(c)
    \/ \E c \in Items \cup {Nil} : PushRefused(c)
    \/ Pop
    \/ PopNewest
    \/ PopNothing

RSpec == RInit /\ [][RNext]_ringVars

-----------------------------------------------------------------------------
(* Properties *)

\* The slot of the i-th oldest item, counting from 0.
Slot(i) == IF head + i < Capacity THEN head + i ELSE head + i - Capacity

\* The indices stay inside the slice.
RTypeOK ==
    /\ items \in [Slots -> Items \cup {Nil}]
    /\ size \in 0..Capacity
    /\ head \in IF Capacity = 0 THEN {0} ELSE Slots
    /\ tail \in IF Capacity = 0 THEN {0} ELSE Slots

\* The occupied slots are the `size' slots from head on, and tail is the one
\* after them.
RingShape ==
    /\ RTypeOK
    /\ Capacity > 0 => tail = IF size = Capacity THEN head ELSE Slot(size)
    /\ \A s \in Slots : items[s] # Nil <=> \E i \in 0..(size - 1) : s = Slot(i)

\* The sequence the ring stands for.
Contents == [i \in 1..size |-> items[Slot(i - 1)]]

ID == INSTANCE IdleDeque WITH deque <- Contents

\* The ring behaves as the sequence of idle connections the pool is written for;
\* no index leaves the slice, so no method can panic, and a slot that was emptied
\* no longer refers to its connection (RingShape).
RingIsDeque == []RingShape /\ ID!DSpec
=============================================================================
