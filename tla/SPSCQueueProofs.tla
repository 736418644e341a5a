--------------------------- MODULE SPSCQueueProofs ---------------------------
(****************************************************************************)
(* What SPSCQueue guarantees for any capacity and any number of items,      *)
(* however old the value of the other side's index that a load returns: one *)
(* element stays free, so that head = tail can only mean that the queue is  *)
(* empty, and the two sides never meet in an element.                       *)
(****************************************************************************)
EXTENDS SPSCQueue, Residues

(* An old value of an index is on the safe side: the producer counts too    *)
(* few pops, the consumer too few pushes.                                   *)
CountInv ==
  /\ seenPops <= popped /\ popped <= seenPushes /\ seenPushes <= pushed
  /\ pushed < seenPops + Capacity
  /\ ppc \in {"write", "store_tail"} => pushed + 1 < seenPops + Capacity
  /\ cpc \in {"move", "store_head"} => popped < seenPushes

(* The Capacity counts from popped on own the elements: those that were     *)
(* pushed are there, and the others are raw, except where one of the sides  *)
(* is about to store its index.                                             *)
Present(p) ==
  \/ p < pushed /\ ~(cpc = "store_head" /\ p = popped)
  \/ ppc = "store_tail" /\ p = pushed

BufferInv ==
  \A p \in popped .. popped + Capacity - 1 :
    buffer[Index(p)] = IF Present(p) THEN p ELSE Raw

(* What has left the queue, and what is on its way.                         *)
Finished == IF cpc = "return" THEN popped - 1 ELSE popped

HistoryInv ==
  /\ result = CASE cpc = "store_head" -> popped
                [] cpc = "return" -> popped - 1
                [] OTHER -> Raw
  /\ cpc = "return" => popped > 0
  /\ got \cup lost = 0 .. Finished - 1
  /\ got \cap lost = {}

(* The inductive invariant.                                                 *)
IInv == TypeOK /\ CountInv /\ BufferInv /\ HistoryInv

-----------------------------------------------------------------------------
(* Wrapped indices: every one is an element's, the next one is the wrapped  *)
(* successor, and counts less than a turn apart have different ones.        *)
LEMMA IndexFacts ==
  /\ \A p \in Int : Index(p) \in Slots
  /\ \A p \in Int : Index(Index(p) + 1) = Index(p + 1)
  /\ \A p, q \in Int : Index(p) = Index(q) /\ p - q < Capacity /\ q - p < Capacity => p = q
  /\ \A p \in Int : Index(p + Capacity) = Index(p)
<1>1. Capacity \in Nat /\ Capacity > 0
  BY SPSCAssumption
<1>2. ASSUME NEW p \in Int PROVE Index(p) \in Slots /\ Index(p + Capacity) = Index(p)
  BY <1>1, Division, ModTurn DEF Index, Slots
<1>3. ASSUME NEW p \in Int PROVE Index(Index(p) + 1) = Index(p + 1)
  <2> DEFINE i == p % Capacity
             d == 0 - 1
  <2>1. i \in 0 .. Capacity - 1 /\ i \in Int BY <1>1, Division
  <2>2. i % Capacity = i BY <1>1, <2>1, ModSmall
  <2>3. d \in Int /\ i - d = i + 1 /\ p - d = p + 1 BY <2>1
  <2>4. i % Capacity = p % Capacity BY <2>2
  <2> HIDE DEF i, d
  <2>5. (i - d) % Capacity = (p - d) % Capacity
    BY <1>1, <2>1, <2>3, <2>4, ModDifference
  <2> QED BY <2>3, <2>5 DEF Index, i
<1>4. ASSUME NEW p \in Int, NEW q \in Int, Index(p) = Index(q), p - q < Capacity, q - p < Capacity
      PROVE  p = q
  BY <1>1, <1>4, ModInjective DEF Index
<1> QED BY <1>2, <1>3, <1>4

(* The indices, the counts they belong to and the elements keep their types.*)
LEMMA TypeInit == Init => TypeOK
  BY SPSCAssumption, ModSmall DEF Init, TypeOK, Index

(* Every step of the two sides keeps them.                                  *)
LEMMA TypeNext == TypeOK /\ [Next]_vars => TypeOK'
<1> SUFFICES ASSUME TypeOK, [Next]_vars PROVE TypeOK'
  OBVIOUS
<1> USE SPSCAssumption, IndexFacts DEF TypeOK
<1>1. CASE LoadHead BY <1>1 DEF LoadHead
<1>2. CASE WriteElement \/ WriteThrows BY <1>2 DEF WriteElement, WriteThrows
<1>3. CASE StoreTail BY <1>3 DEF StoreTail
<1>4. CASE LoadTail BY <1>4 DEF LoadTail
<1>5. CASE MoveElement \/ MoveElementThrows
  <2>1. head \in Slots OBVIOUS
  <2> QED BY <1>5, <2>1 DEF MoveElement, MoveElementThrows, Raw
<1>6. CASE StoreHead BY <1>6 DEF StoreHead
<1>7. CASE Return \/ ReturnThrows BY <1>7 DEF Return, ReturnThrows
<1>8. CASE UNCHANGED vars BY <1>8 DEF vars
<1> QED BY <1>1, <1>2, <1>3, <1>4, <1>5, <1>6, <1>7, <1>8 DEF Next

-----------------------------------------------------------------------------
(* The elements of the window, each with an index of its own.               *)
LEMMA WindowFacts ==
  ASSUME IInv
  PROVE  /\ popped \in Nat /\ pushed \in Nat
         /\ \A p \in popped .. popped + Capacity - 1 : p \in Int /\ Index(p) \in Slots
         /\ \A p, q \in popped .. popped + Capacity - 1 : Index(p) = Index(q) => p = q
         /\ popped <= pushed /\ pushed < popped + Capacity
         /\ head = Index(popped) /\ tail = Index(pushed)
<1>1. popped \in Nat /\ pushed \in Nat /\ head = Index(popped) /\ tail = Index(pushed)
  BY DEF IInv, TypeOK
<1>2. popped <= pushed /\ pushed < popped + Capacity
  BY SPSCAssumption DEF IInv, TypeOK, CountInv
<1>3. ASSUME NEW p \in popped .. popped + Capacity - 1,
             NEW q \in popped .. popped + Capacity - 1, Index(p) = Index(q)
      PROVE  p = q
  BY <1>1, <1>3, IndexFacts, SPSCAssumption
<1> QED BY <1>1, <1>2, <1>3, IndexFacts, SPSCAssumption

(* The invariant holds initially.                                           *)
LEMMA InitInv == Init => IInv
<1> SUFFICES ASSUME Init PROVE IInv
  OBVIOUS
<1> USE SPSCAssumption
<1>1. TypeOK BY TypeInit
<1>2. CountInv BY DEF Init, CountInv
<1>3. BufferInv BY IndexFacts DEF Init, BufferInv, Present
<1>4. HistoryInv BY DEF Init, HistoryInv, Finished
<1> QED BY <1>1, <1>2, <1>3, <1>4 DEF IInv

(* The producer goes on only if even the count of pops it has been given    *)
(* leaves two elements free, one for the item and one that stays free.      *)
LEMMA LoadHeadInv ==
  ASSUME IInv, TypeOK', LoadHead
  PROVE  IInv'
<1> USE SPSCAssumption DEF LoadHead
<1>1. PICK n \in seenPops .. popped :
        /\ seenPops' = n
        /\ ppc' = IF Index(tail + 1) = Index(n) THEN "idle" ELSE "write"
  OBVIOUS
<1>2. CountInv'
  <2>1. /\ n \in Nat /\ pushed \in Nat /\ seenPops <= n /\ n <= popped /\ popped \in Nat
        /\ popped <= pushed /\ pushed < n + Capacity /\ tail = Index(pushed)
    BY <1>1 DEF IInv, TypeOK, CountInv
  <2>2. pushed + 1 = n + Capacity => ppc' = "idle"
    <3>1. Index(tail + 1) = Index(pushed + 1) BY <2>1, IndexFacts
    <3>2. Index(n + Capacity) = Index(n) BY <2>1, IndexFacts
    <3> QED BY <1>1, <3>1, <3>2
  <2>3. ppc' \in {"write", "store_tail"} => pushed + 1 < n + Capacity
    BY <2>1, <2>2
  <2> QED BY <1>1, <2>1, <2>3 DEF IInv, CountInv
<1>3. BufferInv' BY <1>1 DEF IInv, BufferInv, Present
<1>4. HistoryInv' BY DEF IInv, HistoryInv, Finished
<1> QED BY <1>2, <1>3, <1>4 DEF IInv

(* The write fills the element at pushed and no other.                      *)
LEMMA WriteElementInv ==
  ASSUME IInv, TypeOK', WriteElement
  PROVE  IInv'
<1> USE SPSCAssumption DEF WriteElement
<1>1. CountInv' BY DEF IInv, CountInv
<1>2. HistoryInv' BY DEF IInv, HistoryInv, Finished
<1>3. BufferInv'
  <2>1. pushed \in popped .. popped + Capacity - 1 BY WindowFacts
  <2>2. ASSUME NEW p \in popped .. popped + Capacity - 1
        PROVE  buffer'[Index(p)] = IF Present(p)' THEN p ELSE Raw
    <3>1. Index(p) \in Slots /\ (p = pushed \/ Index(p) # tail)
      BY <2>1, WindowFacts
    <3>2. CASE p = pushed
      BY <3>1, <3>2, WindowFacts DEF IInv, TypeOK, Present
    <3>3. CASE p # pushed
      <4>1. buffer'[Index(p)] = buffer[Index(p)] BY <3>1, <3>3 DEF IInv, TypeOK
      <4>2. Present(p)' <=> Present(p) BY <3>3 DEF Present
      <4> QED BY <4>1, <4>2 DEF IInv, BufferInv
    <3> QED BY <3>2, <3>3
  <2> QED BY <2>2 DEF BufferInv
<1> QED BY <1>1, <1>2, <1>3 DEF IInv

(* The store of tail makes the element the consumer's.                      *)
LEMMA StoreTailInv ==
  ASSUME IInv, TypeOK', StoreTail
  PROVE  IInv'
<1> USE SPSCAssumption DEF StoreTail
<1>1. CountInv' BY DEF IInv, TypeOK, CountInv
<1>2. HistoryInv' BY DEF IInv, HistoryInv, Finished
<1>3. BufferInv'
  <2>1. ASSUME NEW p \in popped .. popped + Capacity - 1
        PROVE  Present(p)' <=> Present(p)
    BY WindowFacts DEF Present, IInv, TypeOK, CountInv
  <2> QED BY <2>1 DEF IInv, BufferInv
<1> QED BY <1>1, <1>2, <1>3 DEF IInv

(* The consumer goes on only if the count of pushes it has been given is    *)
(* past popped.                                                             *)
LEMMA LoadTailInv ==
  ASSUME IInv, TypeOK', LoadTail
  PROVE  IInv'
<1> USE SPSCAssumption DEF LoadTail
<1>1. PICK n \in seenPushes .. pushed :
        /\ seenPushes' = n
        /\ cpc' = IF head = Index(n) THEN "idle" ELSE "move"
  OBVIOUS
<1>2. CountInv'
  <2>1. /\ n \in Nat /\ popped \in Nat /\ popped <= n /\ n <= pushed
        /\ head = Index(popped)
    BY <1>1 DEF IInv, TypeOK, CountInv
  <2>2. cpc' \in {"move", "store_head"} => popped < n
    BY <1>1, <2>1
  <2> QED BY <1>1, <2>1, <2>2 DEF IInv, CountInv
<1>3. BufferInv' BY <1>1 DEF IInv, BufferInv, Present
<1>4. HistoryInv' BY <1>1 DEF IInv, HistoryInv, Finished
<1> QED BY <1>2, <1>3, <1>4 DEF IInv

(* The move empties the element at popped and no other.                     *)
LEMMA MoveElementInv ==
  ASSUME IInv, TypeOK', MoveElement
  PROVE  IInv'
<1> USE SPSCAssumption DEF MoveElement
<1>1. CountInv' BY DEF IInv, CountInv
<1>2. /\ popped \in popped .. popped + Capacity - 1 /\ popped < pushed
      /\ buffer[head] = popped
  <2>1. popped \in popped .. popped + Capacity - 1 /\ popped < pushed
    BY WindowFacts DEF IInv, TypeOK, CountInv
  <2> QED BY <2>1, WindowFacts DEF IInv, BufferInv, Present
<1>3. HistoryInv' BY <1>2 DEF IInv, HistoryInv, Finished
<1>4. BufferInv'
  <2>1. ASSUME NEW p \in popped .. popped + Capacity - 1
        PROVE  buffer'[Index(p)] = IF Present(p)' THEN p ELSE Raw
    <3>1. Index(p) \in Slots /\ (p = popped \/ Index(p) # head)
      BY <1>2, WindowFacts
    <3>2. CASE p = popped
      BY <1>2, <3>1, <3>2, WindowFacts DEF IInv, TypeOK, Present
    <3>3. CASE p # popped
      <4>1. buffer'[Index(p)] = buffer[Index(p)] BY <3>1, <3>3 DEF IInv, TypeOK
      <4>2. Present(p)' <=> Present(p) BY <3>3 DEF Present
      <4> QED BY <4>1, <4>2 DEF IInv, BufferInv
    <3> QED BY <3>2, <3>3
  <2> QED BY <2>1 DEF BufferInv
<1> QED BY <1>1, <1>3, <1>4 DEF IInv

(* The store of head makes the element the producer's, a turn later.        *)
LEMMA StoreHeadInv ==
  ASSUME IInv, TypeOK', StoreHead
  PROVE  IInv'
<1> USE SPSCAssumption DEF StoreHead
<1>1. CountInv' BY DEF IInv, TypeOK, CountInv
<1>2. HistoryInv' BY DEF IInv, TypeOK, HistoryInv, Finished
<1>3. BufferInv'
  <2>1. popped \in Nat /\ popped < pushed /\ pushed < popped + Capacity /\ pushed \in Nat
    BY WindowFacts DEF IInv, TypeOK, CountInv
  <2>2. ASSUME NEW p \in popped + 1 .. popped + Capacity - 1
        PROVE  buffer[Index(p)] = IF Present(p)' THEN p ELSE Raw
    <3>1. p \in popped .. popped + Capacity - 1 /\ p # popped BY <2>1
    <3>2. Present(p)' <=> Present(p) BY <3>1 DEF Present
    <3> QED BY <3>1, <3>2 DEF IInv, BufferInv
  <2>3. buffer[Index(popped + Capacity)] = Raw
    <3>1. popped \in popped .. popped + Capacity - 1 /\ ~Present(popped)
      BY <2>1 DEF Present
    <3> QED BY <2>1, <3>1, IndexFacts DEF IInv, BufferInv
  <2>4. ASSUME NEW p \in Int, p = popped + Capacity PROVE ~Present(p)'
    BY <2>1, <2>4, WindowFacts DEF Present, IInv, CountInv, TypeOK
  <2>5. ASSUME NEW p \in popped + 1 .. popped + 1 + Capacity - 1
        PROVE  buffer[Index(p)] = IF Present(p)' THEN p ELSE Raw
    <3>1. p \in popped + 1 .. popped + Capacity - 1 \/ p = popped + Capacity BY <2>1
    <3> QED BY <2>2, <2>3, <2>4, <3>1
  <2> QED BY <2>5 DEF BufferInv
<1> QED BY <1>1, <1>2, <1>3 DEF IInv

(* The item leaves, returned or destroyed.                                  *)
LEMMA ReturnInv ==
  ASSUME IInv, TypeOK', Return \/ ReturnThrows
  PROVE  IInv'
<1> USE SPSCAssumption DEF Return, ReturnThrows
<1>1. CountInv' BY DEF IInv, CountInv
<1>2. HistoryInv' BY DEF IInv, TypeOK, HistoryInv, Finished
<1>3. BufferInv' BY DEF IInv, BufferInv, Present
<1> QED BY <1>1, <1>2, <1>3 DEF IInv

(* An exception of the element's assignment or move changes nothing.        *)
LEMMA ThrowInv ==
  ASSUME IInv, TypeOK', WriteThrows \/ MoveElementThrows
  PROVE  IInv'
<1> USE SPSCAssumption DEF WriteThrows, MoveElementThrows
<1>1. CountInv' BY DEF IInv, CountInv
<1>2. HistoryInv' BY DEF IInv, HistoryInv, Finished
<1>3. BufferInv' BY DEF IInv, BufferInv, Present
<1> QED BY <1>1, <1>2, <1>3 DEF IInv

(* The invariant is inductive, for any capacity.                            *)
LEMMA NextInv == IInv /\ [Next]_vars => IInv'
<1> SUFFICES ASSUME IInv, [Next]_vars PROVE IInv'
  OBVIOUS
<1>1. TypeOK' BY TypeNext DEF IInv
<1>2. CASE UNCHANGED vars
  BY <1>1, <1>2 DEF vars, IInv, CountInv, BufferInv, Present, HistoryInv, Finished
<1> QED
  BY <1>1, <1>2, LoadHeadInv, WriteElementInv, StoreTailInv, LoadTailInv, MoveElementInv,
     StoreHeadInv, ReturnInv, ThrowInv DEF Next

(* What relates the elements to the two indices holds in every state.       *)
THEOREM Invariance == Spec => []IInv
<1>1. Init => IInv BY InitInv
<1>2. IInv /\ [Next]_vars => IInv' BY NextInv
<1> QED BY <1>1, <1>2, PTL DEF Spec

(* try_emplace overwrites no item that waits, try_pop moves from no element *)
(* that is empty, and the plain accesses to buffer never race.              *)
THEOREM ElementSafety == Spec => []ElementsIntact
<1>1. IInv => ElementsIntact
  <2> SUFFICES ASSUME IInv PROVE ElementsIntact
    OBVIOUS
  <2>1. /\ pushed \in popped .. popped + Capacity - 1
        /\ popped \in popped .. popped + Capacity - 1
    BY WindowFacts, SPSCAssumption
  <2>2. ppc = "write" => buffer[tail] = Raw
    BY <2>1, WindowFacts DEF IInv, BufferInv, Present
  <2>3. cpc = "move" => buffer[head] = popped
    BY <2>1, WindowFacts DEF IInv, TypeOK, CountInv, BufferInv, Present
  <2> QED BY <2>2, <2>3 DEF ElementsIntact, IInv
<1> QED BY <1>1, Invariance, PTL

-----------------------------------------------------------------------------
(* Refinement: SPSCQueue implements WorkQueue for one consumer.             *)

Taken == popped + (IF cpc = "store_head" THEN 1 ELSE 0)
Hand == [c \in {"consumer"} |-> result]
Delivered == [c \in {"consumer"} |-> got \cup lost]

(* Steps that move no item across the queue's border are invisible.         *)
LEMMA InvisibleStep ==
  ASSUME pushed' = pushed, Taken' = Taken, result' = result, got' = got, lost' = lost
  PROVE  UNCHANGED WQ!wvars
  BY DEF WQ!wvars, Taken

(* The store of tail is an Enqueue, for a capacity of one less.             *)
LEMMA EnqueueStep ==
  ASSUME IInv, StoreTail
  PROVE  WQ!Enqueue
<1>1. pushed - Taken < Capacity - 1
  BY SPSCAssumption DEF IInv, TypeOK, CountInv, StoreTail, Taken
<1> QED BY <1>1 DEF WQ!Enqueue, StoreTail, Taken

(* The move out of the buffer is a Dequeue of the oldest item.              *)
LEMMA DequeueStep ==
  ASSUME IInv, IInv', MoveElement
  PROVE  WQ!Dequeue("consumer")
<1>1. /\ cpc = "move" /\ cpc' = "store_head" /\ popped' = popped /\ popped \in Nat
      /\ popped < pushed /\ result = Raw /\ result' = popped
  BY SPSCAssumption DEF MoveElement, IInv, TypeOK, CountInv, HistoryInv
<1>2. Taken = popped /\ Taken' = popped + 1 /\ Hand' = [Hand EXCEPT !["consumer"] = popped]
  BY <1>1 DEF Taken, Hand
<1> QED BY <1>1, <1>2 DEF WQ!Dequeue, WQ!Empty, Raw, Taken, Hand, MoveElement

(* The end of try_pop, returning or throwing, is a Deliver.                 *)
LEMMA DeliverStep ==
  ASSUME IInv, Return \/ ReturnThrows
  PROVE  WQ!Deliver("consumer")
<1>1. /\ cpc = "return" /\ cpc' = "idle" /\ popped' = popped /\ pushed' = pushed
      /\ result = popped - 1 /\ result' = Raw /\ popped \in Nat /\ popped > 0
      /\ (got \cup lost)' = (got \cup lost) \cup {result}
  BY DEF Return, ReturnThrows, IInv, TypeOK, HistoryInv
<1>2. \A v \in got \cup lost : v < result
  BY <1>1 DEF IInv, HistoryInv, Finished
<1>3. result \notin got \cup lost /\ result # -1
  BY <1>1 DEF IInv, HistoryInv, Finished
<1>4. /\ Hand["consumer"] = result /\ Hand' = [Hand EXCEPT !["consumer"] = Raw]
      /\ Delivered["consumer"] = got \cup lost
      /\ Delivered' = [Delivered EXCEPT !["consumer"] = @ \cup {result}]
  BY <1>1 DEF Hand, Delivered
<1>5. Taken' = Taken BY <1>1 DEF Taken
<1> QED BY <1>1, <1>2, <1>3, <1>4, <1>5 DEF WQ!Deliver, WQ!Empty, Raw, Hand, Delivered, Taken

(* Every step of the queue is a step of WorkQueue or invisible there.       *)
LEMMA StepRefines ==
  ASSUME IInv, IInv', [Next]_vars
  PROVE  [WQ!Next]_(WQ!wvars)
<1>1. CASE LoadHead \/ WriteElement \/ WriteThrows
  BY <1>1, InvisibleStep DEF LoadHead, WriteElement, WriteThrows, Taken
<1>2. CASE LoadTail \/ MoveElementThrows
  BY <1>2, InvisibleStep DEF LoadTail, MoveElementThrows, Taken
<1>3. CASE StoreHead
  BY <1>3, InvisibleStep DEF StoreHead, Taken, IInv, TypeOK
<1>4. CASE StoreTail
  BY <1>4, EnqueueStep DEF WQ!Next
<1>5. CASE MoveElement
  BY <1>5, DequeueStep DEF WQ!Next
<1>6. CASE Return \/ ReturnThrows
  BY <1>6, DeliverStep DEF WQ!Next
<1>7. CASE UNCHANGED vars
  BY <1>7, InvisibleStep DEF vars, Taken
<1> QED BY <1>1, <1>2, <1>3, <1>4, <1>5, <1>6, <1>7 DEF Next

(* Every behaviour of the ring is one of a FIFO of Capacity - 1 items that  *)
(* hands each item out once.                                                *)
THEOREM Refinement == Spec => ImplementsWorkQueue
<1>1. Init => WQ!Init
  BY DEF Init, WQ!Init, WQ!Empty, Raw
<1>2. IInv /\ IInv' /\ [Next]_vars => [WQ!Next]_(WQ!wvars)
  BY StepRefines
<1> QED BY <1>1, <1>2, Invariance, PTL DEF Spec, ImplementsWorkQueue, WQ!Spec
=============================================================================
