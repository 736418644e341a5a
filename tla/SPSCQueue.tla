------------------------------ MODULE SPSCQueue ------------------------------
(****************************************************************************)
(* SPSCQueue<T> of include/SPSCLockFreeQueue.h: one producer, one consumer, *)
(* two indices that wrap at the capacity, one slot always left free.        *)
(*                                                                          *)
(* Each side loads the other's index with acquire and may be given an old   *)
(* value of it, though never one older than it has been given before; its   *)
(* own index it knows.  An index is stored wrapped, so that an old value is *)
(* named here by the count of items it belongs to.  The n-th item emplaced, *)
(* counting from 0, is the number n.  T's move constructor may throw.       *)
(****************************************************************************)
EXTENDS Integers

CONSTANTS
  Capacity,    \* a power of two: capacity_mask + 1
  Items        \* bound: how many items are ever emplaced

ASSUME SPSCAssumption ==
  /\ Capacity \in Nat \ {0}
  /\ Items \in Nat

VARIABLES
  head,      \* head, an index
  tail,      \* tail, an index
  buffer,    \* the item each element of buffer holds, or Raw: moved from
  pushed,    \* history: how often tail was stored
  popped,    \* history: how often head was stored
  seenPops,  \* the latest value of popped the producer has been shown
  seenPushes,\* the latest value of pushed the consumer has been shown
  ppc,       \* where the producer is: "idle", "write", "store_tail"
  cpc,       \* where the consumer is: "idle", "move", "store_head", "return"
  result,    \* the consumer's local result
  got,       \* history: what try_pop has returned
  lost       \* history: what try_pop has destroyed without returning it

vars == <<head, tail, buffer, pushed, popped, seenPops, seenPushes,
          ppc, cpc, result, got, lost>>

Raw == -1
Slots == 0 .. Capacity - 1
Index(n) == n % Capacity

Init ==
  /\ head = 0 /\ tail = 0
  /\ buffer = [i \in Slots |-> Raw]
  /\ pushed = 0 /\ popped = 0
  /\ seenPops = 0 /\ seenPushes = 0
  /\ ppc = "idle" /\ cpc = "idle"
  /\ result = Raw
  /\ got = {} /\ lost = {}

-----------------------------------------------------------------------------
(* Variant: head is not looked at.                                          *)
LoadHeadUnchecked ==
  /\ ppc = "idle" /\ pushed < Items
  /\ ppc' = "write"
  /\ UNCHANGED <<head, tail, buffer, pushed, popped, seenPops, seenPushes, cpc, result, got, lost>>

(* Variant: tail is compared instead of the index after it.                 *)
LoadHeadSameIndex ==
  /\ ppc = "idle" /\ pushed < Items
  /\ \E n \in seenPops .. popped :
       /\ seenPops' = n
       /\ ppc' = IF tail = Index(n) THEN "idle" ELSE "write"
  /\ UNCHANGED <<head, tail, buffer, pushed, popped, seenPushes, cpc, result, got, lost>>

(* try_emplace: load head, compare; then write the element, store tail.     *)
LoadHead ==
  /\ ppc = "idle" /\ pushed < Items
  /\ \E n \in seenPops .. popped :
       /\ seenPops' = n
       /\ ppc' = IF Index(tail + 1) = Index(n) THEN "idle" ELSE "write"
  /\ UNCHANGED <<head, tail, buffer, pushed, popped, seenPushes, cpc, result, got, lost>>

WriteElement ==
  /\ ppc = "write"
  /\ buffer' = [buffer EXCEPT ![tail] = pushed]
  /\ ppc' = "store_tail"
  /\ UNCHANGED <<head, tail, pushed, popped, seenPops, seenPushes, cpc, result, got, lost>>

(* Constructing or assigning the element throws: tail is not stored.        *)
WriteThrows ==
  /\ ppc = "write"
  /\ ppc' = "idle"
  /\ UNCHANGED <<head, tail, buffer, pushed, popped, seenPops, seenPushes, cpc, result, got, lost>>

StoreTail ==
  /\ ppc = "store_tail"
  /\ tail' = Index(tail + 1)
  /\ pushed' = pushed + 1
  /\ ppc' = "idle"
  /\ UNCHANGED <<head, buffer, popped, seenPops, seenPushes, cpc, result, got, lost>>

-----------------------------------------------------------------------------
(* Variant: tail is not looked at.                                          *)
LoadTailUnchecked ==
  /\ cpc = "idle"
  /\ cpc' = "move"
  /\ UNCHANGED <<head, tail, buffer, pushed, popped, seenPops, seenPushes, ppc, result, got, lost>>

(* Variant: the index after head is compared.                               *)
LoadTailNextIndex ==
  /\ cpc = "idle"
  /\ \E n \in seenPushes .. pushed :
       /\ seenPushes' = n
       /\ cpc' = IF head = Index(n) \/ Index(head + 1) = Index(n) THEN "idle" ELSE "move"
  /\ UNCHANGED <<head, tail, buffer, pushed, popped, seenPops, ppc, result, got, lost>>

(* try_pop: load tail, compare; then move the element out, store head,      *)
(* return it, which moves it once more, into the std::optional.             *)
LoadTail ==
  /\ cpc = "idle"
  /\ \E n \in seenPushes .. pushed :
       /\ seenPushes' = n
       /\ cpc' = IF head = Index(n) THEN "idle" ELSE "move"
  /\ UNCHANGED <<head, tail, buffer, pushed, popped, seenPops, ppc, result, got, lost>>

MoveElement ==
  /\ cpc = "move"
  /\ result' = buffer[head]
  /\ buffer' = [buffer EXCEPT ![head] = Raw]
  /\ cpc' = "store_head"
  /\ UNCHANGED <<head, tail, pushed, popped, seenPops, seenPushes, ppc, got, lost>>

(* The move out of the buffer throws, and leaves the element as it was.     *)
MoveElementThrows ==
  /\ cpc = "move"
  /\ cpc' = "idle"
  /\ UNCHANGED <<head, tail, buffer, pushed, popped, seenPops, seenPushes, ppc, result, got, lost>>

StoreHead ==
  /\ cpc = "store_head"
  /\ head' = Index(head + 1)
  /\ popped' = popped + 1
  /\ cpc' = "return"
  /\ UNCHANGED <<tail, buffer, pushed, seenPops, seenPushes, ppc, result, got, lost>>

Return ==
  /\ cpc = "return"
  /\ got' = got \cup {result}
  /\ result' = Raw
  /\ cpc' = "idle"
  /\ UNCHANGED <<head, tail, buffer, pushed, popped, seenPops, seenPushes, ppc, lost>>

(* The move into the returned std::optional throws: head is stored already. *)
ReturnThrows ==
  /\ cpc = "return"
  /\ lost' = lost \cup {result}
  /\ result' = Raw
  /\ cpc' = "idle"
  /\ UNCHANGED <<head, tail, buffer, pushed, popped, seenPops, seenPushes, ppc, got>>

-----------------------------------------------------------------------------
Next ==
  \/ LoadHead \/ WriteElement \/ WriteThrows \/ StoreTail
  \/ LoadTail \/ MoveElement \/ MoveElementThrows \/ StoreHead \/ Return \/ ReturnThrows

Spec == Init /\ [][Next]_vars

(* Both sides call again after a failure, as the tests and benchmarks do, a *)
(* load is given the latest value sooner or later, and T does not throw for *)
(* ever.                                                                    *)
Fairness ==
  /\ WF_vars(LoadHead) /\ SF_vars(LoadHead /\ seenPops' = popped)
  /\ SF_vars(WriteElement) /\ WF_vars(StoreTail)
  /\ WF_vars(LoadTail) /\ SF_vars(LoadTail /\ seenPushes' = pushed)
  /\ SF_vars(MoveElement) /\ WF_vars(StoreHead) /\ WF_vars(Return \/ ReturnThrows)

FairSpec == Spec /\ Fairness
-----------------------------------------------------------------------------
(* Properties.                                                              *)

(* Every variable keeps its type, and each index is its count, wrapped.     *)
TypeOK ==
  /\ pushed \in Nat /\ popped \in Nat /\ head = Index(popped) /\ tail = Index(pushed)
  /\ seenPops \in Nat /\ seenPushes \in Nat
  /\ buffer \in [Slots -> Nat \cup {Raw}]
  /\ ppc \in {"idle", "write", "store_tail"}
  /\ cpc \in {"idle", "move", "store_head", "return"}
  /\ result \in Nat \cup {Raw}
  /\ got \subseteq Nat \cup {Raw} /\ lost \subseteq Nat \cup {Raw}

(* try_emplace writes over no element that still waits to be popped, and    *)
(* try_pop moves from none that holds nothing.  The plain accesses of both  *)
(* to buffer therefore never meet in one element.                           *)
ElementsIntact ==
  /\ TypeOK
  /\ ppc = "write" => buffer[tail] = Raw
  /\ cpc = "move" => buffer[head] = popped

(* Refinement: a work queue of one consumer that holds at most Capacity - 1 *)
(* items.  Once StoreHead has run an item is gone from the queue, whether   *)
(* it is returned or lost to a throwing move.                               *)
WQ == INSTANCE WorkQueue WITH
        Consumers <- {"consumer"},
        Capacity <- Capacity - 1,
        enqueued <- pushed,
        dequeued <- popped + (IF cpc = "store_head" THEN 1 ELSE 0),
        hand <- [c \in {"consumer"} |-> result],
        delivered <- [c \in {"consumer"} |-> got \cup lost]
ImplementsWorkQueue == WQ!Spec

(* Neither side starves: an item that was emplaced leaves the queue in the  *)
(* end, and a producer that keeps calling is not refused for ever.          *)
EveryItemLeaves == \A v \in 0 .. Items - 1 : pushed > v ~> v \in got \cup lost
EmplaceSucceeds == \A v \in 0 .. Items - 1 : pushed = v ~> pushed > v
=============================================================================
