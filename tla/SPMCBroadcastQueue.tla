-------------------------- MODULE SPMCBroadcastQueue -------------------------
(****************************************************************************)
(* SPMCBroadcastQueue<T, N> of include/SPMCBroadcastQueue.h: every consumer *)
(* reads every item in place, through a cursor of its own, and the producer *)
(* waits for the slowest cursor before it overwrites a slot.                *)
(*                                                                          *)
(* Every atomic has one writer and only grows.  Its acquire loads by other  *)
(* threads may return an old value, though none older than the thread has   *)
(* been given before: tailSeen and cursorSeen hold what it was given last,  *)
(* and with it which reads and writes of slots happen before its next step. *)
(* The n-th item published, counting from 0, is the number n.               *)
(****************************************************************************)
EXTENDS Integers

CONSTANTS
  N,          \* how many consumers
  Capacity,   \* capacity_, a power of two
  Items       \* bound: how many items are ever published

ASSUME BroadcastAssumption ==
  /\ N \in Nat \ {0}
  /\ Capacity \in Nat /\ Capacity >= 2
  /\ Items \in Nat

VARIABLES
  slots,       \* slots_: the item each T stands for, or Default
  tail,        \* tail_
  cursor,      \* cursors_
  cachedMin,   \* cached_min_
  cursorSeen,  \* the latest value of each cursor the producer was given
  tailSeen,    \* the latest value of tail_ each consumer was given
  ppc,         \* where the producer is: "idle", "scan", "write", "store_tail"
  next,        \* the local i of the scan: the cursor to load next
  minCursor,   \* the local min_cursor of the scan
  cpc,         \* where each consumer is: "idle", "read", "store_cursor"
  handed       \* history: the items fn has returned from, for each consumer

vars == <<slots, tail, cursor, cachedMin, cursorSeen, tailSeen,
          ppc, next, minCursor, cpc, handed>>

Consumers == 0 .. N - 1
Slots == 0 .. Capacity - 1
Slot(p) == p % Capacity
Default == -1

LooksFullLate(min) == tail - min > Capacity     \* variant: one item too many

LooksFull(min) == tail - min >= Capacity

Init ==
  /\ slots = [i \in Slots |-> Default]
  /\ tail = 0
  /\ cursor = [c \in Consumers |-> 0]
  /\ cachedMin = 0
  /\ cursorSeen = [c \in Consumers |-> 0]
  /\ tailSeen = [c \in Consumers |-> 0]
  /\ ppc = "idle"
  /\ next = 0
  /\ minCursor = 0
  /\ cpc = [c \in Consumers |-> "idle"]
  /\ handed = [c \in Consumers |-> {}]

-----------------------------------------------------------------------------
(* try_publish.  tail_ and cached_min_ are the producer's own.              *)
CallPublish ==
  /\ ppc = "idle" /\ tail < Items
  /\ ppc' = IF LooksFull(cachedMin) THEN "scan" ELSE "write"
  /\ next' = 0
  /\ UNCHANGED <<slots, tail, cursor, cachedMin, cursorSeen, tailSeen,
                 minCursor, cpc, handed>>

(* Variants: the cursor loaded last; min_cursor left from the scan before.  *)
LastLoaded(v) == v
NeverReset(v) == IF v < minCursor THEN v ELSE minCursor

(* Load one cursor, keep the smallest; after the last one cache it and      *)
(* decide again.                                                            *)
Smaller(v) == IF next = 0 \/ v < minCursor THEN v ELSE minCursor

ScanCursor ==
  /\ ppc = "scan"
  /\ \E v \in cursorSeen[next] .. cursor[next] :
       /\ cursorSeen' = [cursorSeen EXCEPT ![next] = v]
       /\ minCursor' = Smaller(v)
  /\ next' = next + 1
  /\ \/ /\ next + 1 < N
        /\ UNCHANGED <<cachedMin, ppc>>
     \/ /\ next + 1 = N
        /\ cachedMin' = minCursor'
        /\ ppc' = IF LooksFull(minCursor') THEN "idle" ELSE "write"
  /\ UNCHANGED <<slots, tail, cursor, tailSeen, cpc, handed>>

(* Constructing the temporary T throws: the slot is still as it was.        *)
ConstructThrows ==
  /\ ppc = "write"
  /\ ppc' = "idle"
  /\ UNCHANGED <<slots, tail, cursor, cachedMin, cursorSeen, tailSeen,
                 next, minCursor, cpc, handed>>

WriteSlot ==
  /\ ppc = "write"
  /\ slots' = [slots EXCEPT ![Slot(tail)] = tail]
  /\ ppc' = "store_tail"
  /\ UNCHANGED <<tail, cursor, cachedMin, cursorSeen, tailSeen,
                 next, minCursor, cpc, handed>>

StoreTail ==
  /\ ppc = "store_tail"
  /\ tail' = tail + 1
  /\ ppc' = "idle"
  /\ UNCHANGED <<slots, cursor, cachedMin, cursorSeen, tailSeen,
                 next, minCursor, cpc, handed>>

-----------------------------------------------------------------------------
(* Variant: pos > tail_.                                                    *)
LoadTailInclusive(c) ==
  /\ cpc[c] = "idle"
  /\ \E v \in tailSeen[c] .. tail :
       /\ tailSeen' = [tailSeen EXCEPT ![c] = v]
       /\ cpc' = [cpc EXCEPT ![c] = IF cursor[c] > v THEN "idle" ELSE "read"]
  /\ UNCHANGED <<slots, tail, cursor, cachedMin, cursorSeen, ppc, next, minCursor, handed>>

(* Variant: the newest item is taken for one in progress.                   *)
LoadTailButLast(c) ==
  /\ cpc[c] = "idle"
  /\ \E v \in tailSeen[c] .. tail :
       /\ tailSeen' = [tailSeen EXCEPT ![c] = v]
       /\ cpc' = [cpc EXCEPT ![c] = IF cursor[c] + 1 >= v THEN "idle" ELSE "read"]
  /\ UNCHANGED <<slots, tail, cursor, cachedMin, cursorSeen, ppc, next, minCursor, handed>>

(* try_consume, and try_copy which passes it a copy as fn.                  *)
LoadTail(c) ==
  /\ cpc[c] = "idle"
  /\ \E v \in tailSeen[c] .. tail :
       /\ tailSeen' = [tailSeen EXCEPT ![c] = v]
       /\ cpc' = [cpc EXCEPT ![c] = IF cursor[c] >= v THEN "idle" ELSE "read"]
  /\ UNCHANGED <<slots, tail, cursor, cachedMin, cursorSeen, ppc, next, minCursor, handed>>

(* fn returns; it has had a reference to the slot since the load.           *)
Read(c) ==
  /\ cpc[c] = "read"
  /\ handed' = [handed EXCEPT ![c] = @ \cup {slots[Slot(cursor[c])]}]
  /\ cpc' = [cpc EXCEPT ![c] = "store_cursor"]
  /\ UNCHANGED <<slots, tail, cursor, cachedMin, cursorSeen, tailSeen, ppc, next, minCursor>>

(* fn throws: the cursor stays, the item will be handed out again.          *)
ReadThrows(c) ==
  /\ cpc[c] = "read"
  /\ cpc' = [cpc EXCEPT ![c] = "idle"]
  /\ UNCHANGED <<slots, tail, cursor, cachedMin, cursorSeen, tailSeen,
                 ppc, next, minCursor, handed>>

StoreCursor(c) ==
  /\ cpc[c] = "store_cursor"
  /\ cursor' = [cursor EXCEPT ![c] = @ + 1]
  /\ cpc' = [cpc EXCEPT ![c] = "idle"]
  /\ UNCHANGED <<slots, tail, cachedMin, cursorSeen, tailSeen, ppc, next, minCursor, handed>>

-----------------------------------------------------------------------------
Next ==
  \/ CallPublish \/ ScanCursor \/ ConstructThrows \/ WriteSlot \/ StoreTail
  \/ \E c \in Consumers : LoadTail(c) \/ Read(c) \/ ReadThrows(c) \/ StoreCursor(c)

Spec == Init /\ [][Next]_vars

(* Every side calls again after a failure, loads are given the latest value *)
(* sooner or later, and neither T's constructor nor fn throws for ever.     *)
Fairness ==
  /\ WF_vars(CallPublish) /\ WF_vars(ScanCursor)
  /\ SF_vars(WriteSlot) /\ WF_vars(StoreTail)
  /\ \A c \in Consumers :
       /\ SF_vars(ScanCursor /\ next = c /\ cursorSeen'[c] = cursor[c])
       /\ WF_vars(LoadTail(c)) /\ SF_vars(LoadTail(c) /\ tailSeen'[c] = tail)
       /\ SF_vars(Read(c)) /\ WF_vars(StoreCursor(c))

FairSpec == Spec /\ Fairness
-----------------------------------------------------------------------------
(* Properties.                                                              *)

(* Every variable keeps its type.                                           *)
TypeOK ==
  /\ slots \in [Slots -> Nat \cup {Default}]
  /\ tail \in Nat
  /\ cursor \in [Consumers -> Nat]
  /\ cachedMin \in Nat
  /\ cursorSeen \in [Consumers -> Nat]
  /\ tailSeen \in [Consumers -> Nat]
  /\ ppc \in {"idle", "scan", "write", "store_tail"}
  /\ next \in 0 .. N
  /\ ppc = "scan" => next \in Consumers
  /\ minCursor \in Nat
  /\ cpc \in [Consumers -> {"idle", "read", "store_cursor"}]
  /\ handed \in [Consumers -> SUBSET (Nat \cup {Default})]

(* "any slot below cached_min_ was established as fully consumed by the     *)
(* acquire scan that produced that value": when the producer writes a slot, *)
(* every consumer's read of the item there happens before the write.        *)
OverwriteIsOrdered ==
  /\ TypeOK
  /\ ppc = "write" => \A c \in Consumers : cursorSeen[c] + Capacity > tail

(* The reference fn holds is valid for the duration of the call: the slot   *)
(* keeps the item at the consumer's position, whatever the producer does.   *)
ReferenceIsStable ==
  \A c \in Consumers : cpc[c] = "read" => slots[Slot(cursor[c])] = cursor[c]

(* A refused publish has a reason: a consumer that, by the latest the       *)
(* producer knows of it, is a full lap behind.                              *)
Refused == ppc = "scan" /\ ppc' = "idle"
RefusedWhenFull ==
  [][Refused => \E c \in Consumers : tail - cursorSeen'[c] >= Capacity]_vars

(* Refinement: the store of tail_ publishes, fn's return consumes.          *)
BL == INSTANCE BroadcastLog WITH
        published <- tail,
        consumed <- [c \in Consumers |->
                       IF cpc[c] = "store_cursor" THEN cursor[c] + 1 ELSE cursor[c]]
ImplementsBroadcastLog == BL!Spec

(* A consumer that keeps calling is handed every item that was published.   *)
EveryoneSeesEverything ==
  \A c \in Consumers, v \in 0 .. Items - 1 : tail > v ~> v \in handed[c]
=============================================================================
