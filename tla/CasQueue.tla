------------------------------ MODULE CasQueue -------------------------------
(***************************************************************************)
(* The lock-free queue of cas/queue.go.  Every atomic load and every       *)
(* compare-and-swap of PushBack and PopFront is a step of its own.         *)
(*                                                                         *)
(* An item stands for the value it was created with.  An item is allocated *)
(* by each PushBack and is not reused: the garbage collector keeps it as   *)
(* long as somebody refers to it.                                          *)
(***************************************************************************)
EXTENDS Integers, Sequences

CONSTANTS Procs,     \* goroutines that call PushBack and PopFront
          MaxPushes, \* bound on the number of PushBack calls
          Nil,       \* nil pointer
          Nothing, Empty,
          Stalled    \* goroutines that may stop anywhere

ASSUME QueueAssumption == MaxPushes \in Nat /\ Nil \notin Nat /\ Stalled \subseteq Procs

\* Item 0 is the node CreateCasQueue makes.
Items == 0..MaxPushes
Values == 1..MaxPushes

VARIABLES next,      \* Item.next
          head,      \* CasQueue.Head
          tail,      \* CasQueue.Tail
          allocated, \* number of items made by PushBack
          pc,        \* where goroutine p is
          node,      \* PushBack's node
          lhead,     \* local copies: head, tail and next
          ltail,
          lnext,
          result,    \* what p's last PopFront returned
          chain,     \* history: the items in the order they were linked
          first,     \* history: position of Head in chain
          emptySeen  \* history: the queue was empty since p called PopFront

casVars == <<next, head, tail, allocated, pc, node, lhead, ltail, lnext, result, chain,
          first, emptySeen>>

\* The numbers are the lines of cas/queue.go that are about to be executed.
Locations == {"idle", "41", "43", "44", "48", "51", "52",
              "60", "61", "63", "64", "71", "76"}

Contents == SubSeq(chain, first + 1, Len(chain))

\* CreateCasQueue
CasInit ==
    /\ next = [i \in Items |-> Nil]
    /\ head = 0
    /\ tail = 0
    /\ allocated = 0
    /\ pc = [p \in Procs |-> "idle"]
    /\ node = [p \in Procs |-> 0]
    /\ lhead = [p \in Procs |-> 0]
    /\ ltail = [p \in Procs |-> 0]
    /\ lnext = [p \in Procs |-> Nil]
    /\ result = [p \in Procs |-> Nothing]
    /\ chain = <<0>>
    /\ first = 1
    /\ emptySeen = [p \in Procs |-> FALSE]

CasGoto(p, loc) == pc' = [pc EXCEPT ![p] = loc]

history == <<chain, first, emptySeen>>

-----------------------------------------------------------------------------
(* PushBack *)

CallPush(p) ==
    /\ pc[p] = "idle"
    /\ allocated < MaxPushes
    /\ allocated' = allocated + 1
    /\ node' = [node EXCEPT ![p] = allocated + 1]
    /\ CasGoto(p, "41")
    /\ UNCHANGED <<next, head, tail, lhead, ltail, lnext, result, history>>

PushLoadTail(p) ==
    /\ pc[p] = "41"
    /\ ltail' = [ltail EXCEPT ![p] = tail]
    /\ CasGoto(p, "43")
    /\ UNCHANGED <<next, head, tail, allocated, node, lhead, lnext, result, history>>

PushLoadNext(p) ==
    /\ pc[p] = "43"
    /\ lnext' = [lnext EXCEPT ![p] = next[ltail[p]]]
    /\ CasGoto(p, "44")
    /\ UNCHANGED <<next, head, tail, allocated, node, lhead, ltail, result, history>>

\* Lines 44-50: start again, help, or try to link.
PushCheckTail(p) ==
    /\ pc[p] = "44"
    /\ CasGoto(p, IF tail # ltail[p] THEN "41" ELSE IF lnext[p] # Nil THEN "48" ELSE "51")
    /\ UNCHANGED <<next, head, tail, allocated, node, lhead, ltail, lnext, result, history>>

\* Mutant: a goroutine that finds Tail lagging waits for its owner.
PushHelp_Waits(p) ==
    /\ pc[p] = "48"
    /\ CasGoto(p, "41")
    /\ UNCHANGED <<next, head, tail, allocated, node, lhead, ltail, lnext, result, history>>

\* Tail is moved on for somebody else.
PushHelp(p) ==
    /\ pc[p] = "48"
    /\ tail' = IF tail = ltail[p] THEN lnext[p] ELSE tail
    /\ CasGoto(p, "41")
    /\ UNCHANGED <<next, head, allocated, node, lhead, ltail, lnext, result, history>>

\* The compare-and-swap that links the node: the push takes effect.
PushLink(p) ==
    /\ pc[p] = "51"
    /\ next[ltail[p]] = Nil
    /\ next' = [next EXCEPT ![ltail[p]] = node[p]]
    /\ chain' = Append(chain, node[p])
    /\ CasGoto(p, "52")
    /\ UNCHANGED <<head, tail, allocated, node, lhead, ltail, lnext, result, first,
                   emptySeen>>

PushLinkFails(p) ==
    /\ pc[p] = "51"
    /\ next[ltail[p]] # Nil
    /\ CasGoto(p, "41")
    /\ UNCHANGED <<next, head, tail, allocated, node, lhead, ltail, lnext, result, history>>

PushReturn(p) ==
    /\ pc[p] = "52"
    /\ tail' = IF tail = ltail[p] THEN node[p] ELSE tail
    /\ CasGoto(p, "idle")
    /\ UNCHANGED <<next, head, allocated, node, lhead, ltail, lnext, result, history>>

-----------------------------------------------------------------------------
(* PopFront *)

CallPop(p) ==
    /\ pc[p] = "idle"
    /\ result' = [result EXCEPT ![p] = Nothing]
    /\ emptySeen' = [emptySeen EXCEPT ![p] = Contents = <<>>]
    /\ CasGoto(p, "60")
    /\ UNCHANGED <<next, head, tail, allocated, node, lhead, ltail, lnext, chain, first>>

PopLoadHead(p) ==
    /\ pc[p] = "60"
    /\ lhead' = [lhead EXCEPT ![p] = head]
    /\ CasGoto(p, "61")
    /\ UNCHANGED <<next, head, tail, allocated, node, ltail, lnext, result, history>>

\* Mutant: Tail is not loaded again by every attempt.
PopLoadTail_Hoisted(p) ==
    /\ pc[p] = "61"
    /\ CasGoto(p, "63")
    /\ UNCHANGED <<next, head, tail, allocated, node, lhead, ltail, lnext, result, history>>

PopLoadTail(p) ==
    /\ pc[p] = "61"
    /\ ltail' = [ltail EXCEPT ![p] = tail]
    /\ CasGoto(p, "63")
    /\ UNCHANGED <<next, head, tail, allocated, node, lhead, lnext, result, history>>

PopLoadNext(p) ==
    /\ pc[p] = "63"
    /\ lnext' = [lnext EXCEPT ![p] = next[lhead[p]]]
    /\ CasGoto(p, "64")
    /\ UNCHANGED <<next, head, tail, allocated, node, lhead, ltail, result, history>>

\* Lines 64-73: start again, help, or try to take.
PopCheckHead(p) ==
    /\ pc[p] = "64"
    /\ head # lhead[p] \/ lhead[p] # ltail[p] \/ lnext[p] # Nil
    /\ CasGoto(p, IF head # lhead[p] THEN "60" ELSE IF lhead[p] = ltail[p] THEN "71" ELSE "76")
    /\ UNCHANGED <<next, head, tail, allocated, node, lhead, ltail, lnext, result, history>>

\* Line 69: nothing to take.
PopEmpty(p) ==
    /\ pc[p] = "64"
    /\ head = lhead[p] /\ lhead[p] = ltail[p] /\ lnext[p] = Nil
    /\ result' = [result EXCEPT ![p] = Empty]
    /\ CasGoto(p, "idle")
    /\ UNCHANGED <<next, head, tail, allocated, node, lhead, ltail, lnext, history>>

PopHelp(p) ==
    /\ pc[p] = "71"
    /\ tail' = IF tail = ltail[p] THEN lnext[p] ELSE tail
    /\ CasGoto(p, "60")
    /\ UNCHANGED <<next, head, allocated, node, lhead, ltail, lnext, result, history>>

\* The compare-and-swap that moves Head: the pop takes effect.  The value was
\* read from the item at line 75; items do not change.
PopTake(p) ==
    /\ pc[p] = "76"
    /\ head = lhead[p]
    /\ head' = lnext[p]
    /\ result' = [result EXCEPT ![p] = lnext[p]]
    /\ first' = first + 1
    /\ emptySeen' = [r \in Procs |-> emptySeen[r] \/ first + 1 = Len(chain)]
    /\ CasGoto(p, "idle")
    /\ UNCHANGED <<next, tail, allocated, node, lhead, ltail, lnext, chain>>

PopTakeFails(p) ==
    /\ pc[p] = "76"
    /\ head # lhead[p]
    /\ CasGoto(p, "60")
    /\ UNCHANGED <<next, head, tail, allocated, node, lhead, ltail, lnext, result, history>>

-----------------------------------------------------------------------------
PushStep(p) ==
    \/ PushLoadTail(p)
    \/ PushLoadNext(p)
    \/ PushCheckTail(p)
    \/ PushHelp(p)
    \/ PushLink(p)
    \/ PushLinkFails(p)
    \/ PushReturn(p)

PopStep(p) ==
    \/ PopLoadHead(p)
    \/ PopLoadTail(p)
    \/ PopLoadNext(p)
    \/ PopCheckHead(p)
    \/ PopEmpty(p)
    \/ PopHelp(p)
    \/ PopTake(p)
    \/ PopTakeFails(p)

CasNext == \E p \in Procs : CallPush(p) \/ CallPop(p) \/ PushStep(p) \/ PopStep(p)

CasSpec == CasInit /\ [][CasNext]_casVars

-----------------------------------------------------------------------------
(* Properties *)

\* The fields of the queue and the local variables have their types.
CasTypeOK ==
    /\ next \in [Items -> Items \cup {Nil}]
    /\ head \in Items
    /\ tail \in Items
    /\ allocated \in 0..MaxPushes
    /\ pc \in [Procs -> Locations]
    /\ node \in [Procs -> Items]
    /\ lhead \in [Procs -> Items]
    /\ ltail \in [Procs -> Items]
    /\ lnext \in [Procs -> Items \cup {Nil}]
    /\ chain \in Seq(Items)
    /\ first \in 1..Len(chain)
    /\ emptySeen \in [Procs -> BOOLEAN]

\* The items form one list without a fork or a cycle.  Tail is its last item or
\* the one before, and Head has not overtaken Tail.
ListShape ==
    /\ CasTypeOK
    /\ \A i, j \in 1..Len(chain) : chain[i] = chain[j] => i = j
    /\ \A i \in 1..(Len(chain) - 1) : next[chain[i]] = chain[i + 1]
    /\ next[chain[Len(chain)]] = Nil
    /\ head = chain[first]
    /\ \E k \in first..Len(chain) : k >= Len(chain) - 1 /\ tail = chain[k]

\* PopFront reads a value only from an item that PushBack made: line 75 never
\* dereferences nil, nor the value of the item CreateCasQueue made.
ReadsPushedItem == \A p \in Procs : pc[p] = "76" => lnext[p] \in Values

Q == INSTANCE Fifo WITH contents <- Contents

\* PushBack and PopFront are linearizable: values come out once, in the order
\* they were linked, and a pop reports an empty queue only if it was empty.  On
\* the way the list keeps its shape and no item without a value is read.
QueueIsFifo == [](ListShape /\ ReadsPushedItem) /\ Q!FSpec

\* The queue is lock-free.  However many of the Stalled goroutines stop for ever
\* in the middle of PushBack or PopFront, every operation of the others returns
\* (pushes are bounded, so no operation can be overtaken for ever).
OthersReturn ==
    \A p \in Procs \ Stalled : pc[p] # "idle" ~> pc[p] = "idle"
=============================================================================
