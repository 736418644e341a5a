----------------------- MODULE SPMCBroadcastQueueProofs ----------------------
(****************************************************************************)
(* What SPMCBroadcastQueue guarantees for any number of consumers, any      *)
(* capacity and any number of items, however old the values that its        *)
(* acquire loads return: cached_min_ is behind every cursor the producer    *)
(* has been given, and the Capacity positions below tail_ own their slots.  *)
(****************************************************************************)
EXTENDS SPMCBroadcastQueue, Residues

(* Nobody is given a value from the future, cached_min_ is behind all the   *)
(* values given, and tail_ is less than a turn ahead of it before a write.  *)
CursorInv ==
  /\ \A c \in Consumers :
       /\ cachedMin <= cursorSeen[c] /\ cursorSeen[c] <= cursor[c]
       /\ cursor[c] <= tail /\ tailSeen[c] <= tail
       /\ cpc[c] # "idle" => cursor[c] < tailSeen[c]
  /\ tail <= cachedMin + Capacity
  /\ ppc \in {"write", "store_tail"} => tail < cachedMin + Capacity

(* The scan's min_cursor is the smallest of the cursors it has loaded.      *)
ScanInv ==
  ppc = "scan" /\ next > 0 =>
    /\ \A d \in 0 .. next - 1 : minCursor <= cursorSeen[d]
    /\ \E d \in 0 .. next - 1 : minCursor = cursorSeen[d]

(* A slot holds the last item published there, or the next one already.     *)
SlotInv ==
  /\ \A p \in Nat : tail - Capacity <= p /\ p < tail =>
       \/ slots[Slot(p)] = p
       \/ ppc = "store_tail" /\ p = tail - Capacity
  /\ ppc = "store_tail" => slots[Slot(tail)] = tail

(* The inductive invariant.                                                 *)
IInv == TypeOK /\ CursorInv /\ ScanInv /\ SlotInv

-----------------------------------------------------------------------------
(* Every position has a slot, its own for a turn.                           *)
LEMMA SlotFacts ==
  /\ \A p \in Int : Slot(p) \in Slots
  /\ \A p, q \in Int : Slot(p) = Slot(q) /\ p - q < Capacity /\ q - p < Capacity => p = q
  BY Division, ModInjective, BroadcastAssumption DEF Slot, Slots

(* The atomics, cached_min_, the locals of the scan and the slots keep      *)
(* their types.                                                             *)
LEMMA TypeInit == Init => TypeOK
  BY BroadcastAssumption DEF Init, TypeOK, Consumers

(* Every step of the producer and of a consumer keeps them; the scan never  *)
(* loads a cursor past the last.                                            *)
LEMMA TypeNext == TypeOK /\ [Next]_vars => TypeOK'
<1> SUFFICES ASSUME TypeOK, [Next]_vars PROVE TypeOK'
  OBVIOUS
<1> USE BroadcastAssumption, SlotFacts DEF TypeOK
<1>1. CASE CallPublish BY <1>1 DEF CallPublish, Consumers
<1>2. CASE ScanCursor
  <2>1. PICK v \in cursorSeen[next] .. cursor[next] :
          /\ cursorSeen' = [cursorSeen EXCEPT ![next] = v]
          /\ minCursor' = Smaller(v)
    BY <1>2 DEF ScanCursor
  <2>2. next \in Consumers /\ v \in Nat /\ minCursor' \in Nat
    BY <1>2, <2>1 DEF ScanCursor, Smaller
  <2>3. cursorSeen' \in [Consumers -> Nat] BY <2>1, <2>2
  <2>4. next' \in 0 .. N /\ (next + 1 < N => next' \in Consumers)
    BY <1>2, <2>2 DEF ScanCursor, Consumers
  <2> QED BY <1>2, <2>2, <2>3, <2>4 DEF ScanCursor
<1>3. CASE ConstructThrows \/ WriteSlot BY <1>3 DEF ConstructThrows, WriteSlot
<1>4. CASE StoreTail BY <1>4 DEF StoreTail
<1>5. ASSUME NEW c \in Consumers, LoadTail(c) PROVE TypeOK'
  BY <1>5 DEF LoadTail
<1>6. ASSUME NEW c \in Consumers, Read(c) \/ ReadThrows(c) PROVE TypeOK'
  <2>1. CASE Read(c) BY <2>1 DEF Read
  <2>2. CASE ReadThrows(c) BY <2>2 DEF ReadThrows
  <2> QED BY <1>6, <2>1, <2>2
<1>7. ASSUME NEW c \in Consumers, StoreCursor(c) PROVE TypeOK'
  BY <1>7 DEF StoreCursor
<1>8. CASE UNCHANGED vars BY <1>8 DEF vars
<1> QED BY <1>1, <1>2, <1>3, <1>4, <1>5, <1>6, <1>7, <1>8 DEF Next

-----------------------------------------------------------------------------
(* The invariant holds initially.                                           *)
LEMMA InitInv == Init => IInv
  BY TypeInit, BroadcastAssumption DEF IInv, CursorInv, ScanInv, SlotInv, Init, TypeOK

(* A call of try_publish looks at cached_min_ first.                        *)
LEMMA CallPublishInv ==
  ASSUME IInv, TypeOK', CallPublish
  PROVE  IInv'
<1> USE BroadcastAssumption DEF CallPublish, IInv
<1>1. CursorInv' BY DEF CursorInv, LooksFull, TypeOK
<1>2. ScanInv' BY DEF ScanInv
<1>3. SlotInv' BY DEF SlotInv
<1> QED BY <1>1, <1>2, <1>3

(* One load of the scan; the last one replaces cached_min_.                 *)
LEMMA ScanCursorInv ==
  ASSUME IInv, TypeOK', ScanCursor
  PROVE  IInv'
<1>0. tail \in Nat => \A m \in Nat : ~LooksFull(m) => tail < m + Capacity
  BY BroadcastAssumption DEF LooksFull
<1> USE BroadcastAssumption DEF IInv
<1>1. PICK v \in cursorSeen[next] .. cursor[next] :
        /\ cursorSeen' = [cursorSeen EXCEPT ![next] = v]
        /\ minCursor' = Smaller(v)
  BY DEF ScanCursor
<1>2. /\ ppc = "scan" /\ next \in Consumers /\ next \in Nat /\ v \in Nat /\ minCursor \in Nat
      /\ minCursor' \in Nat /\ cursorSeen'[next] = v /\ next' = next + 1
      /\ \A d \in Consumers : /\ cursorSeen[d] \in Nat /\ cursorSeen'[d] \in Nat
                              /\ d # next => cursorSeen'[d] = cursorSeen[d]
      /\ 0 .. next \subseteq Consumers
  BY <1>1 DEF ScanCursor, TypeOK, Consumers
<1>3. /\ \A d \in 0 .. next : minCursor' <= cursorSeen'[d]
      /\ \E d \in 0 .. next : minCursor' = cursorSeen'[d]
  <2>1. CASE next = 0
    <3>1. minCursor' = v BY <1>1, <2>1 DEF Smaller
    <3> QED BY <1>2, <2>1, <3>1
  <2>2. CASE next > 0
    <3>1. /\ \A d \in 0 .. next - 1 : minCursor <= cursorSeen'[d]
          /\ \E d \in 0 .. next - 1 : minCursor = cursorSeen'[d]
      BY <1>2, <2>2 DEF ScanInv
    <3>2. minCursor' = IF v < minCursor THEN v ELSE minCursor
      BY <1>1, <1>2, <2>2 DEF Smaller
    <3> QED BY <1>2, <3>1, <3>2
  <2> QED BY <1>2, <2>1, <2>2
<1>4. \A c \in Consumers : /\ cachedMin <= cursorSeen'[c] /\ cursorSeen'[c] <= cursor[c]
                           /\ cursor[c] \in Nat
  BY <1>1, <1>2 DEF CursorInv, TypeOK
<1>5. ScanInv' BY <1>2, <1>3 DEF ScanInv, ScanCursor
<1>6. SlotInv' BY <1>2 DEF SlotInv, ScanCursor
<1>7. CursorInv'
  <2>1. tail' = tail /\ cursor' = cursor /\ tailSeen' = tailSeen /\ cpc' = cpc /\ tail \in Nat
        /\ cachedMin \in Nat
    BY DEF ScanCursor, TypeOK
  <2>2. CASE next + 1 < N
    <3>1. cachedMin' = cachedMin /\ ppc' = ppc BY <2>2 DEF ScanCursor
    <3> QED BY <1>2, <1>4, <2>1, <3>1 DEF CursorInv
  <2>3. CASE next + 1 = N
    <3>1. cachedMin' = minCursor' /\ ppc' = IF LooksFull(minCursor') THEN "idle" ELSE "write"
      BY <2>3 DEF ScanCursor
    <3>2. \A c \in Consumers : cachedMin' <= cursorSeen'[c]
      BY <1>2, <1>3, <2>3, <3>1 DEF Consumers
    <3>3. cachedMin' \in Nat /\ cachedMin <= cachedMin'
      BY <1>2, <1>3, <1>4, <2>1, <3>1
    <3>4. ppc' \in {"write", "store_tail"} => tail < cachedMin' + Capacity
      <4>1. CASE LooksFull(minCursor')
        <5>1. ppc' = "idle" BY <3>1, <4>1, Zenon
        <5> QED BY <5>1
      <4>2. CASE ~LooksFull(minCursor')
        <5>1. ~LooksFull(cachedMin') BY <3>1, <4>2, Zenon
        <5>2. tail < cachedMin' + Capacity BY <1>0, <2>1, <3>3, <5>1, Zenon
        <5> QED BY <5>2, Zenon
      <4> QED BY <4>1, <4>2, Zenon
    <3>5. tail <= cachedMin' + Capacity
      BY <2>1, <3>3 DEF CursorInv
    <3>6. \A c \in Consumers :
            /\ cursor[c] <= tail /\ tailSeen[c] <= tail
            /\ cpc[c] # "idle" => cursor[c] < tailSeen[c]
      BY DEF CursorInv
    <3> QED BY <1>4, <2>1, <3>2, <3>4, <3>5, <3>6 DEF CursorInv
  <2> QED BY <2>2, <2>3 DEF ScanCursor
<1> QED BY <1>5, <1>6, <1>7

(* The producer writes where no position it has left readable is kept.      *)
LEMMA WriteSlotInv ==
  ASSUME IInv, TypeOK', WriteSlot
  PROVE  IInv'
<1> USE BroadcastAssumption DEF WriteSlot, IInv
<1>1. CursorInv' BY DEF CursorInv
<1>2. ScanInv' BY DEF ScanInv
<1>3. SlotInv'
  <2>1. tail \in Nat /\ Slot(tail) \in Slots BY SlotFacts DEF TypeOK
  <2>2. slots'[Slot(tail)] = tail BY <2>1 DEF TypeOK
  <2>3. ASSUME NEW p \in Nat, tail - Capacity < p, p < tail
        PROVE  slots'[Slot(p)] = p
    <3>1. Slot(p) # Slot(tail) /\ Slot(p) \in Slots BY <2>1, <2>3, SlotFacts
    <3>2. slots[Slot(p)] = p BY <2>1, <2>3 DEF SlotInv
    <3> QED BY <3>1, <3>2 DEF TypeOK
  <2> QED BY <2>1, <2>2, <2>3 DEF SlotInv
<1> QED BY <1>1, <1>2, <1>3

(* The release store of tail_ publishes what has been written.              *)
LEMMA StoreTailInv ==
  ASSUME IInv, TypeOK', StoreTail
  PROVE  IInv'
<1> USE BroadcastAssumption DEF StoreTail, IInv
<1>1. CursorInv' BY DEF CursorInv, TypeOK
<1>2. ScanInv' BY DEF ScanInv
<1>3. SlotInv' BY DEF SlotInv, TypeOK
<1> QED BY <1>1, <1>2, <1>3

(* try_consume finds an item only below a value tail_ has had.              *)
LEMMA LoadTailInv ==
  ASSUME IInv, TypeOK', NEW c \in Consumers, LoadTail(c)
  PROVE  IInv'
<1> USE BroadcastAssumption DEF LoadTail, IInv
<1>1. PICK v \in tailSeen[c] .. tail :
        /\ tailSeen' = [tailSeen EXCEPT ![c] = v]
        /\ cpc' = [cpc EXCEPT ![c] = IF cursor[c] >= v THEN "idle" ELSE "read"]
  OBVIOUS
<1>2. ASSUME NEW d \in Consumers
      PROVE  tailSeen'[d] <= tail /\ (cpc'[d] # "idle" => cursor[d] < tailSeen'[d])
  <2>1. cursor[d] \in Nat /\ tail \in Nat /\ tailSeen[d] \in Nat /\ v <= tail /\ v \in Nat
    BY <1>1 DEF TypeOK
  <2>2. CASE d = c
    <3>1. tailSeen'[c] = v /\ cpc'[c] = IF cursor[c] >= v THEN "idle" ELSE "read"
      BY <1>1 DEF TypeOK
    <3> QED BY <2>1, <2>2, <3>1
  <2>3. CASE d # c
    <3>1. tailSeen'[d] = tailSeen[d] /\ cpc'[d] = cpc[d] BY <1>1, <2>3 DEF TypeOK
    <3> QED BY <3>1 DEF CursorInv
  <2> QED BY <2>2, <2>3
<1>3. CursorInv' BY <1>2 DEF CursorInv
<1>4. ScanInv' BY DEF ScanInv
<1>5. SlotInv' BY DEF SlotInv
<1> QED BY <1>3, <1>4, <1>5

(* fn's return or its exception.                                            *)
LEMMA ReadInv ==
  ASSUME IInv, TypeOK', NEW c \in Consumers, Read(c) \/ ReadThrows(c)
  PROVE  IInv'
<1> USE BroadcastAssumption DEF Read, ReadThrows, IInv
<1>1. CursorInv'
  <2>1. ASSUME NEW d \in Consumers
        PROVE  cpc'[d] # "idle" => cpc[d] # "idle"
    BY DEF TypeOK
  <2> QED BY <2>1 DEF CursorInv
<1>2. ScanInv' BY DEF ScanInv
<1>3. SlotInv' BY DEF SlotInv
<1> QED BY <1>1, <1>2, <1>3

(* The consumer's cursor reaches tail_ at most.                             *)
LEMMA StoreCursorInv ==
  ASSUME IInv, TypeOK', NEW c \in Consumers, StoreCursor(c)
  PROVE  IInv'
<1> USE BroadcastAssumption DEF StoreCursor, IInv
<1>1. CursorInv' BY DEF CursorInv, TypeOK
<1>2. ScanInv' BY DEF ScanInv
<1>3. SlotInv' BY DEF SlotInv
<1> QED BY <1>1, <1>2, <1>3

(* The invariant is inductive, for any number of consumers.                 *)
LEMMA NextInv == IInv /\ [Next]_vars => IInv'
<1> SUFFICES ASSUME IInv, [Next]_vars PROVE IInv'
  OBVIOUS
<1>1. TypeOK' BY TypeNext DEF IInv
<1>2. CASE ConstructThrows
  BY <1>1, <1>2 DEF ConstructThrows, IInv, CursorInv, ScanInv, SlotInv
<1>3. CASE UNCHANGED vars
  BY <1>1, <1>3 DEF vars, IInv, CursorInv, ScanInv, SlotInv
<1> QED
  BY <1>1, <1>2, <1>3, CallPublishInv, ScanCursorInv, WriteSlotInv, StoreTailInv,
     LoadTailInv, ReadInv, StoreCursorInv DEF Next

(* cached_min_ never overtakes a cursor, tail_ never laps cached_min_, and  *)
(* the slots hold the items of the last turn.                               *)
THEOREM Invariance == Spec => []IInv
<1>1. Init => IInv BY InitInv
<1>2. IInv /\ [Next]_vars => IInv' BY NextInv
<1> QED BY <1>1, <1>2, PTL DEF Spec

-----------------------------------------------------------------------------
(* The safety properties of SPMCBroadcastQueue.                             *)

(* Before a slot is written, the scan has been given every consumer's       *)
(* release of it, even when the write rests on a cached minimum.            *)
THEOREM OverwriteSafety == Spec => []OverwriteIsOrdered
<1>1. IInv => OverwriteIsOrdered
  BY BroadcastAssumption DEF IInv, CursorInv, TypeOK, OverwriteIsOrdered
<1> QED BY <1>1, Invariance, PTL

(* The item a consumer's position names is in its slot while fn runs.       *)
LEMMA ItemAtCursor ==
  ASSUME IInv, NEW c \in Consumers, cpc[c] = "read"
  PROVE  slots[Slot(cursor[c])] = cursor[c] /\ cursor[c] < tail
<1>1. /\ cursor[c] \in Nat /\ cursor[c] < tail /\ tail - Capacity <= cursor[c]
      /\ ppc = "store_tail" => tail - Capacity < cursor[c]
  BY BroadcastAssumption DEF IInv, CursorInv, TypeOK
<1> QED BY <1>1 DEF IInv, SlotInv

(* The reference that try_consume passes to fn stays valid.                 *)
THEOREM ReferenceSafety == Spec => []ReferenceIsStable
<1>1. IInv => ReferenceIsStable
  BY ItemAtCursor DEF ReferenceIsStable
<1> QED BY <1>1, Invariance, PTL

(* try_publish returns false only after loading a cursor a full lap behind. *)
THEOREM RefusalReason == Spec => RefusedWhenFull
<1>1. IInv /\ IInv' /\ [Next]_vars =>
        [Refused => \E c \in Consumers : tail - cursorSeen'[c] >= Capacity]_vars
  <2> SUFFICES ASSUME IInv, IInv', [Next]_vars, Refused
               PROVE  \E c \in Consumers : tail - cursorSeen'[c] >= Capacity
    OBVIOUS
  <2> USE BroadcastAssumption
  <2>1. ScanCursor
    BY DEF Refused, Next, vars, CallPublish, ConstructThrows, WriteSlot, StoreTail,
           LoadTail, Read, ReadThrows, StoreCursor
  <2>2. PICK v \in cursorSeen[next] .. cursor[next] :
          /\ cursorSeen' = [cursorSeen EXCEPT ![next] = v]
          /\ minCursor' = Smaller(v)
    BY <2>1 DEF ScanCursor
  <2>3. next \in Consumers /\ next + 1 = N /\ LooksFull(minCursor')
    BY <2>1 DEF ScanCursor, Refused, IInv, TypeOK
  <2>4. \E d \in Consumers : minCursor' = cursorSeen'[d]
    <3>1. cursorSeen'[next] = v /\ \A d \in Consumers \ {next} : cursorSeen'[d] = cursorSeen[d]
      BY <2>2, <2>3 DEF IInv, TypeOK
    <3>2. CASE minCursor' = v BY <2>3, <3>1, <3>2
    <3>3. CASE minCursor' # v
      <4>1. next > 0 /\ minCursor' = minCursor
        BY <2>2, <2>3, <3>3 DEF Smaller, Consumers
      <4>2. PICK d \in 0 .. next - 1 : minCursor = cursorSeen[d]
        BY <4>1 DEF IInv, ScanInv, Refused
      <4>3. d \in Consumers \ {next} BY <2>3, <4>2 DEF Consumers
      <4> QED BY <3>1, <4>1, <4>2, <4>3
    <3> QED BY <3>2, <3>3
  <2> QED BY <2>3, <2>4 DEF LooksFull
<1> QED BY <1>1, Invariance, PTL DEF Spec, RefusedWhenFull

-----------------------------------------------------------------------------
(* Refinement: SPMCBroadcastQueue implements BroadcastLog.                  *)

Consumed == [c \in Consumers |->
               IF cpc[c] = "store_cursor" THEN cursor[c] + 1 ELSE cursor[c]]

(* Steps that neither publish nor complete a call of fn are invisible.      *)
LEMMA InvisibleStep ==
  ASSUME tail' = tail, handed' = handed, Consumed' = Consumed
  PROVE  UNCHANGED BL!bvars
  BY DEF BL!bvars, Consumed

(* The store of tail_ is a Publish: no consumer is a full turn behind.      *)
LEMMA PublishStep ==
  ASSUME IInv, StoreTail
  PROVE  BL!Publish
<1>1. Consumed' = Consumed BY DEF Consumed, StoreTail
<1>2. ASSUME NEW c \in Consumers PROVE tail - Consumed[c] < Capacity
  BY BroadcastAssumption DEF IInv, CursorInv, TypeOK, Consumed, StoreTail
<1> QED BY <1>1, <1>2 DEF BL!Publish, StoreTail, Consumed

(* fn's return is a Consume of the next item of that consumer.              *)
LEMMA ConsumeStep ==
  ASSUME IInv, NEW c \in Consumers, Read(c)
  PROVE  BL!Consume(c)
<1>1. /\ cpc[c] = "read" /\ cpc' = [cpc EXCEPT ![c] = "store_cursor"] /\ cursor' = cursor
      /\ slots[Slot(cursor[c])] = cursor[c] /\ cursor[c] < tail
  BY ItemAtCursor DEF Read
<1>2. Consumed[c] = cursor[c] BY <1>1 DEF Consumed
<1>3. Consumed' = [Consumed EXCEPT ![c] = @ + 1]
  BY <1>1 DEF Consumed, IInv, TypeOK
<1> QED BY <1>1, <1>2, <1>3 DEF BL!Consume, Read, Consumed

(* Every step of the queue is a step of the log or invisible there.         *)
LEMMA StepRefines ==
  ASSUME IInv, [Next]_vars
  PROVE  [BL!Next]_(BL!bvars)
<1> USE DEF Consumed
<1>1. CASE CallPublish \/ ScanCursor \/ ConstructThrows \/ WriteSlot
  BY <1>1, InvisibleStep DEF CallPublish, ScanCursor, ConstructThrows, WriteSlot
<1>2. CASE StoreTail
  BY <1>2, PublishStep DEF BL!Next
<1>3. ASSUME NEW c \in Consumers, LoadTail(c) \/ ReadThrows(c)
      PROVE  UNCHANGED BL!bvars
  <2>1. Consumed' = Consumed BY <1>3 DEF LoadTail, ReadThrows, IInv, TypeOK
  <2> QED BY <1>3, <2>1, InvisibleStep DEF LoadTail, ReadThrows
<1>4. ASSUME NEW c \in Consumers, StoreCursor(c)
      PROVE  UNCHANGED BL!bvars
  <2>1. Consumed' = Consumed BY <1>4 DEF StoreCursor, IInv, TypeOK
  <2> QED BY <1>4, <2>1, InvisibleStep DEF StoreCursor
<1>5. ASSUME NEW c \in Consumers, Read(c)
      PROVE  BL!Next
  BY <1>5, ConsumeStep DEF BL!Next
<1>6. CASE UNCHANGED vars
  BY <1>6, InvisibleStep DEF vars
<1> QED BY <1>1, <1>2, <1>3, <1>4, <1>5, <1>6 DEF Next

(* Every behaviour of the broadcast queue is one of the log: each consumer  *)
(* is handed each item once and in order, and the producer never laps one.  *)
THEOREM Refinement == Spec => ImplementsBroadcastLog
<1>1. Init => BL!Init
  BY DEF Init, BL!Init
<1>2. IInv /\ [Next]_vars => [BL!Next]_(BL!bvars)
  BY StepRefines
<1> QED BY <1>1, <1>2, Invariance, PTL DEF Spec, ImplementsBroadcastLog, BL!Spec
=============================================================================
