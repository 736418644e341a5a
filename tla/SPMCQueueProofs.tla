--------------------------- MODULE SPMCQueueProofs ---------------------------
(****************************************************************************)
(* What SPMCQueue guarantees for any capacity, any number of consumers and  *)
(* any number of items, proved from one inductive invariant: the Capacity   *)
(* positions below Published each own a slot, and what the slot holds is    *)
(* determined by head and by which consumers are between their CAS and      *)
(* their release of it.  Then, what size_approx and empty tell a thread     *)
(* that calls them meanwhile; and at the end, that the constructors yield   *)
(* capacities of the kind assumed here.                                     *)
(****************************************************************************)
EXTENDS SPMCSizeApprox, QueueCapacity, Residues, WellFoundedInduction

(* A consumer is between its CAS on p and its store of sequence.            *)
Owns(c, p) == pc[c] \in {"move_out", "release"} /\ pos[c] = p
Owned(p) == \E c \in Consumers : Owns(c, p)
Window == Published - Capacity .. Published - 1

Counters == head <= Published /\ Published <= head + Capacity

(* The sequence of each slot tells the state of the position that owns it.  *)
SequenceInv ==
  \A p \in Window :
    sequence[Slot(p)] = IF p >= head \/ Owned(p) THEN p + 1 ELSE p + Capacity

(* So does its storage, while the queue lives.                              *)
StorageInv ==
  alive => \A p \in Window :
    storage[Slot(p)] =
      IF p >= head \/ \E c \in Consumers : pc[c] = "move_out" /\ pos[c] = p THEN p
      ELSE IF pc[Producer] = "publish" /\ p = tail - Capacity THEN tail ELSE Raw

Filling == pc[Producer] \in {"load", "wait", "parked", "construct", "publish"}

ProducerInv ==
  /\ Filling \/ pc[Producer] = "advance" => pos[Producer] = tail
  /\ pc[Producer] \in {"construct", "publish"} => sequence[Slot(tail)] = tail

(* How far the producer can get without starting another call.              *)
Horizon == IF Filling THEN tail + 1 ELSE Published

LoopOK(c) ==
  /\ InLoop(c) => pos[c] <= head /\ Horizon <= pos[c] + MaxLag
  /\ pc[c] = "cas" => pos[c] < Published
  /\ pc[c] \in {"wait", "parked"} => IsUnwritten(seen[c], pos[c])
  /\ pc[c] = "parked" => pos[c] = Published \/ ProducerNotifies(Slot(pos[c]))
LoopInv == \A c \in Consumers : LoopOK(c)

Holding(c) == pc[c] \in {"move_out", "release", "notify"}

HoldInv ==
  \A c \in Consumers :
    /\ pc[c] \in {"move_out", "release"} => pos[c] \in Window
    /\ pc[c] \in {"release", "notify"} => result[c] = pos[c]
    /\ Holding(c) => /\ pos[c] < head
                     /\ \A v \in got[c] : v < pos[c]
                     /\ \A d \in Consumers : /\ pos[c] \notin got[d]
                                             /\ d # c /\ Holding(d) => pos[d] # pos[c]

HistoryInv ==
  /\ \A c, d \in Consumers : c # d => got[c] \cap got[d] = {}
  /\ \A c \in Consumers : got[c] \subseteq 0 .. head - 1
  /\ \A v \in 0 .. head - 1 :
       \E c \in Consumers : v \in got[c] \/ (Holding(c) /\ pos[c] = v)

DeadInv ==
  ~alive => /\ \A th \in Threads : pc[th] = "idle"
            /\ \A i \in Slots : storage[i] = Raw

(* The inductive invariant.                                                 *)
IInv == /\ TypeOK /\ Counters /\ SequenceInv /\ StorageInv /\ ProducerInv
        /\ LoopInv /\ HoldInv /\ HistoryInv /\ DeadInv

-----------------------------------------------------------------------------
(* Positions and slots.                                                     *)

(* Every position has a slot.                                               *)
LEMMA SlotType == \A p \in Int : Slot(p) \in Slots
  BY Division, SPMCAssumption DEF Slot, Slots

-----------------------------------------------------------------------------
(* Next, one named case per action.                                         *)
LEMMA NextCases ==
  ASSUME [Next]_vars
  PROVE  \/ \E f \in ProducerCalls : CallEmplace(f)
         \/ LoadForEmplace \/ Construct \/ ConstructThrows
         \/ PublishSequence \/ AdvanceTail \/ NotifyAll
         \/ \E th \in Threads : Wait(th) \/ SpuriousUnblock(th)
         \/ \E c \in Consumers : \E f \in ConsumerCalls : CallPop(c, f)
         \/ \E c \in Consumers : LoadForPop(c)
         \/ \E c \in Consumers : ReloadHead(c) \/ ClaimFails(c)
         \/ \E c \in Consumers : Claim(c)
         \/ \E c \in Consumers : MoveOut(c)
         \/ \E c \in Consumers : ReleaseSlot(c)
         \/ \E c \in Consumers : NotifyOne(c)
         \/ Destroy
         \/ UNCHANGED vars
  BY DEF Next, ProducerStep, ConsumerStep, Threads

(* Type correctness: every variable of the queue keeps its type, for any    *)
(* capacity and any number of threads; the slot indices that try_emplace,   *)
(* try_pop and their blocking versions compute stay inside slots_.          *)
LEMMA TypeInit == Init => TypeOK
  BY SPMCAssumption DEF Init, TypeOK, Slots, Raw, Threads, ProducerLabels, ConsumerLabels

(* Every step of the producer, a consumer or the owner stays within the     *)
(* types.                                                                   *)
LEMMA TypeNext == TypeOK /\ [Next]_vars => TypeOK'
<1> SUFFICES ASSUME TypeOK, [Next]_vars PROVE TypeOK'
  OBVIOUS
<1> USE SPMCAssumption, SlotType DEF TypeOK, Threads, Goto
<1>1. CASE \E f \in ProducerCalls : CallEmplace(f)
  BY <1>1 DEF CallEmplace, ProducerLabels, ConsumerLabels
<1>2. CASE LoadForEmplace
  BY <1>2 DEF LoadForEmplace, ProducerLabels, ConsumerLabels
<1>3. CASE Construct \/ ConstructThrows
  BY <1>3 DEF Construct, ConstructThrows, ProducerLabels, ConsumerLabels
<1>4. CASE PublishSequence \/ AdvanceTail
  BY <1>4 DEF PublishSequence, AdvanceTail, ProducerLabels, ConsumerLabels
<1>5. CASE NotifyAll
  BY <1>5 DEF NotifyAll, ProducerLabels, ConsumerLabels
<1>6. CASE \E th \in Threads : Wait(th) \/ SpuriousUnblock(th)
  BY <1>6 DEF Wait, SpuriousUnblock, ProducerLabels, ConsumerLabels
<1>7. CASE \E c \in Consumers : \E f \in ConsumerCalls : CallPop(c, f)
  BY <1>7 DEF CallPop, ProducerLabels, ConsumerLabels
<1>8. CASE \E c \in Consumers : LoadForPop(c)
  BY <1>8 DEF LoadForPop, ProducerLabels, ConsumerLabels
<1>9. CASE \E c \in Consumers : ReloadHead(c) \/ ClaimFails(c)
  BY <1>9 DEF ReloadHead, ClaimFails, ProducerLabels, ConsumerLabels
<1>10. CASE \E c \in Consumers : Claim(c)
  BY <1>10 DEF Claim, ProducerLabels, ConsumerLabels
<1>11. CASE \E c \in Consumers : MoveOut(c)
  BY <1>11 DEF MoveOut, ProducerLabels, ConsumerLabels, Raw
<1>12. CASE \E c \in Consumers : ReleaseSlot(c)
  BY <1>12 DEF ReleaseSlot, ProducerLabels, ConsumerLabels
<1>13. CASE \E c \in Consumers : NotifyOne(c)
  <2>1. PICK c \in Consumers : NotifyOne(c)
    BY <1>13
  <2>2. /\ pc' \in [Threads -> ProducerLabels \cup ConsumerLabels]
        /\ pc'[Producer] \in ProducerLabels
        /\ \A d \in Consumers : pc'[d] \in ConsumerLabels
    <3>1. CASE ParkedOn(Slot(pos[c])) = {}
      BY <2>1, <3>1 DEF NotifyOne, ParkedOn, ProducerLabels, ConsumerLabels
    <3>2. CASE \E th \in ParkedOn(Slot(pos[c])) :
                 pc' = [pc EXCEPT ![c] = "idle", ![th] = "wait"]
      BY <3>2 DEF ParkedOn, ProducerLabels, ConsumerLabels
    <3> QED BY <2>1, <3>1, <3>2 DEF NotifyOne
  <2>3. got' \in [Consumers -> SUBSET (Nat \cup {Raw})]
    BY <2>1 DEF NotifyOne, Raw
  <2>4. result' \in [Consumers -> Nat \cup {Raw}]
    BY <2>1 DEF NotifyOne
  <2> QED BY <2>1, <2>2, <2>3, <2>4 DEF NotifyOne
<1>14. CASE Destroy
  BY <1>14 DEF Destroy, Raw
<1>15. CASE UNCHANGED vars
  BY <1>15 DEF vars
<1> QED
  BY NextCases, <1>1, <1>2, <1>3, <1>4, <1>5, <1>6, <1>7, <1>8, <1>9, <1>10,
     <1>11, <1>12, <1>13, <1>14, <1>15

(* The atomics, the slots and the threads' locals keep their types, and no  *)
(* thread leaves the code of its own calls.                                 *)
THEOREM TypeCorrect == Spec => []TypeOK
<1>1. Init => TypeOK BY TypeInit
<1>2. TypeOK /\ [Next]_vars => TypeOK' BY TypeNext
<1> QED BY <1>1, <1>2, PTL DEF Spec

-----------------------------------------------------------------------------
(* What a thread reads in the slot it looks at.                             *)

(* The Capacity positions below Published each have a slot to themselves.   *)
LEMMA WindowFacts ==
  ASSUME IInv
  PROVE  /\ Published \in Nat /\ Window \subseteq Int
         /\ \A p \in Window : Slot(p) \in Slots
         /\ \A p, q \in Window : Slot(p) = Slot(q) => p = q
         /\ \A p \in Int : \E q \in Window : Slot(q) = Slot(p)
         /\ Published - Capacity \in Window
         /\ Slot(Published - Capacity) = Slot(Published)
<1> USE SPMCAssumption
<1>1. Published \in Nat /\ Window \subseteq Int /\ Published - Capacity \in Window
  BY DEF IInv, TypeOK, Published, Window
<1>2. ASSUME NEW p \in Window, NEW q \in Window, Slot(p) = Slot(q) PROVE p = q
  <2>1. p \in Int /\ q \in Int /\ p - q < Capacity /\ q - p < Capacity
    BY <1>1 DEF Window
  <2>2. p % Capacity = q % Capacity
    BY <1>2 DEF Slot
  <2> QED BY <2>1, <2>2, ModInjective
<1>3. ASSUME NEW p \in Int PROVE \E q \in Window : Slot(q) = Slot(p)
  <2> DEFINE a == Published - Capacity
  <2>1. a \in Int /\ Window = a .. a + Capacity - 1
    BY <1>1 DEF Window
  <2>2. \E q \in a .. a + Capacity - 1 : q % Capacity = p % Capacity
    <3>1. Capacity \in Nat /\ Capacity > 0 /\ a \in Int
      BY <2>1
    <3> HIDE DEF a
    <3> QED BY <3>1, ModWindow, Zenon
  <2> QED BY <2>1, <2>2 DEF Slot
<1>4. Slot(Published - Capacity) = Slot(Published)
  BY <1>1, ModTurn DEF Slot
<1> QED BY <1>1, <1>2, <1>3, <1>4, SlotType

(* No sequence number is outside two turns around Published.                *)
LEMMA SequenceRange ==
  ASSUME IInv, NEW p \in Int
  PROVE  sequence[Slot(p)] \in Published - Capacity + 1 .. Published + Capacity - 1
<1>1. PICK q \in Window : Slot(q) = Slot(p)
  BY WindowFacts
<1>2. sequence[Slot(q)] \in {q + 1, q + Capacity}
  BY DEF IInv, SequenceInv
<1> QED BY <1>1, <1>2, WindowFacts, SPMCAssumption DEF Window

(* diff = seq - (h + 1), compared with 0 and SIZE_MAX / 2, tells the sign   *)
(* of the mathematical difference.                                          *)
LEMMA DiffSign ==
  ASSUME NEW s \in Int, NEW h \in Int,
         s - (h + 1) < MaxLag + Capacity, -(MaxLag + Capacity) <= s - (h + 1)
  PROVE  /\ IsFull(s, h) <=> s = h + 1
         /\ IsUnwritten(s, h) <=> s < h + 1
<1> DEFINE d == s - (h + 1)
<1> USE SPMCAssumption
<1>1. 0 <= d => Wrap(d) = d
  BY ModSmall DEF Wrap
<1>2. d < 0 => Wrap(d) = d + SizeRange
  BY ModSmall DEF Wrap
<1>3. (SizeRange - 1) \div 2 \in Int /\ 2 * ((SizeRange - 1) \div 2) \in SizeRange - 2 .. SizeRange - 1
  OBVIOUS
<1> QED BY <1>1, <1>2, <1>3 DEF IsFull, IsUnwritten, Diff

(* Two counters less than SizeRange apart are equal when their residues are.*)
LEMMA SameSize ==
  ASSUME NEW a \in Int, NEW b \in Int, a - b < SizeRange, b - a < SizeRange
  PROVE  Same(a, b) <=> a = b
  BY ModInjective, SPMCAssumption DEF Same, Wrap

(* atomic::wait compares residues: a thread that parks on the value it has  *)
(* read would read the slot in the same way now.                            *)
LEMMA SameDiff ==
  ASSUME NEW s \in Int, NEW r \in Int, NEW h \in Int, Same(s, r)
  PROVE  IsUnwritten(s, h) <=> IsUnwritten(r, h)
<1>1. SizeRange \in Nat /\ SizeRange > 0 /\ h + 1 \in Int
  BY SPMCAssumption
<1>2. s % SizeRange = r % SizeRange
  BY DEF Same, Wrap
<1>3. (s - (h + 1)) % SizeRange = (r - (h + 1)) % SizeRange
  BY <1>1, <1>2, ModDifference
<1> QED BY <1>3 DEF IsUnwritten, Diff, Wrap

(* A consumer at position h finds the slot full only if h is still in the   *)
(* window and not released, and unwritten exactly if h is the next position *)
(* to be published.                                                         *)
LEMMA ConsumerReads ==
  ASSUME IInv, NEW c \in Consumers, InLoop(c)
  PROVE  /\ IsFull(sequence[Slot(pos[c])], pos[c]) =>
              /\ pos[c] < Published /\ pos[c] \in Window
              /\ pos[c] >= head \/ Owned(pos[c])
         /\ IsUnwritten(sequence[Slot(pos[c])], pos[c]) <=> pos[c] = Published
<1> DEFINE h == pos[c]
           s == sequence[Slot(h)]
<1> USE SPMCAssumption
<1>1. /\ h \in Nat /\ h <= Published /\ Published <= h + MaxLag
      /\ s \in Published - Capacity + 1 .. Published + Capacity - 1
      /\ Published \in Nat
  <2>1. h \in Nat BY DEF IInv, TypeOK, Threads
  <2>2. h <= head /\ head <= Published /\ Horizon <= h + MaxLag
    BY DEF IInv, LoopInv, LoopOK, Counters
  <2>3. Published <= Horizon /\ Horizon \in Nat /\ head \in Nat
    BY DEF Horizon, Published, Filling, IInv, TypeOK
  <2> QED BY <2>1, <2>2, <2>3, SequenceRange, WindowFacts
<1>2. CASE h = Published
  <2>1. s <= Published
    BY <1>2, WindowFacts DEF IInv, SequenceInv, Window
  <2> QED BY <1>1, <1>2, <2>1, DiffSign
<1>3. CASE h \in Window
  <2>1. s = IF h >= head \/ Owned(h) THEN h + 1 ELSE h + Capacity
    BY <1>3 DEF IInv, SequenceInv
  <2> QED BY <1>1, <1>3, <2>1, DiffSign DEF Window
<1>4. CASE h < Published - Capacity
  BY <1>1, <1>4, DiffSign
<1> QED BY <1>1, <1>2, <1>3, <1>4 DEF Window

(* The producer finds its slot free only if the item a turn earlier has     *)
(* been claimed and released.                                               *)
LEMMA ProducerReads ==
  ASSUME IInv, Filling
  PROVE  /\ Published = tail /\ pos[Producer] = tail
         /\ Same(sequence[Slot(tail)], tail) <=> sequence[Slot(tail)] = tail
         /\ sequence[Slot(tail)] = tail =>
              tail - Capacity < head /\ ~Owned(tail - Capacity)
<1> USE SPMCAssumption
<1>1. Published = tail /\ pos[Producer] = tail /\ tail \in Nat /\ head \in Nat
  BY DEF Published, Filling, IInv, ProducerInv, TypeOK
<1>2. sequence[Slot(tail)] \in tail - Capacity + 1 .. tail + Capacity - 1
  BY <1>1, SequenceRange
<1>3. sequence[Slot(tail)] = IF tail - Capacity >= head \/ Owned(tail - Capacity)
                             THEN tail - Capacity + 1 ELSE tail
  BY <1>1, WindowFacts DEF IInv, SequenceInv
<1>4. Same(sequence[Slot(tail)], tail) <=> sequence[Slot(tail)] = tail
  BY <1>1, <1>2, SameSize
<1> QED BY <1>1, <1>3, <1>4

-----------------------------------------------------------------------------
(* The invariant holds initially.                                           *)

(* The constructor establishes the invariant: Slot(i)'s sequence is i.      *)
LEMMA InitInv == Init => IInv
<1> SUFFICES ASSUME Init PROVE IInv
  OBVIOUS
<1> USE SPMCAssumption
<1>1. TypeOK BY TypeInit
<1>2. /\ Published = 0 /\ head = 0 /\ tail = 0 /\ Window = -Capacity .. -1
      /\ pc[Producer] = "idle"
      /\ \A c \in Consumers : pc[c] = "idle" /\ got[c] = {}
  BY DEF Init, Published, Window, Threads
<1>3. Counters BY <1>2 DEF Counters
<1>4. ASSUME NEW p \in Window
      PROVE  Slot(p) = p + Capacity /\ Slot(p) \in Slots
  <2>1. p \in Int /\ p < 0 /\ -Capacity <= p
    BY <1>2
  <2>2. p % Capacity = p + Capacity
    BY <2>1, ModSmall
  <2> QED BY <2>1, <2>2, SlotType DEF Slot
<1>5. SequenceInv
  BY <1>2, <1>4 DEF SequenceInv, Init, Owned, Owns
<1>6. StorageInv
  BY <1>2, <1>4 DEF StorageInv, Init
<1>7. ProducerInv /\ LoopInv /\ HoldInv /\ HistoryInv /\ DeadInv
  BY <1>2 DEF ProducerInv, LoopInv, LoopOK, HoldInv, HistoryInv, DeadInv, Init, Filling,
              InLoop, Holding
<1> QED BY <1>1, <1>3, <1>5, <1>6, <1>7 DEF IInv

(* A queue that has been destroyed has no thread inside: any step but the   *)
(* destructor's is a step of a living queue.                                *)
LEMMA StepOfLiving ==
  ASSUME IInv, NEW th \in Threads, pc[th] # "idle", alive' = alive
  PROVE  alive /\ DeadInv'
  BY DEF IInv, DeadInv

(* Steps that touch no shared state of the queue, and neither claim nor     *)
(* release a slot, keep what is known of the slots.                         *)
LEMMA SlotsKept ==
  ASSUME IInv,
         UNCHANGED <<head, tail, sequence, storage, alive>>,
         \A l \in {"publish", "advance"} : pc[Producer] = l <=> pc'[Producer] = l,
         \A c \in Consumers, l \in {"move_out", "release"} :
           /\ pc[c] = l <=> pc'[c] = l
           /\ pc[c] = l => pos'[c] = pos[c]
  PROVE  Counters' /\ SequenceInv' /\ StorageInv' /\ Published' = Published /\ Window' = Window
<1>1. Published' = Published /\ Window' = Window
  BY DEF Published, Window
<1>2. \A c \in Consumers, p \in Int :
        /\ Owns(c, p)' <=> Owns(c, p)
        /\ (pc[c] = "move_out" /\ pos[c] = p)' <=> (pc[c] = "move_out" /\ pos[c] = p)
  BY DEF Owns
<1>3. \A p \in Int : Owned(p)' <=> Owned(p)
  BY <1>2 DEF Owned
<1>4. Counters' BY <1>1 DEF IInv, Counters
<1>5. SequenceInv' BY <1>1, <1>3, WindowFacts DEF IInv, SequenceInv, Slot
<1>6. StorageInv' BY <1>1, <1>2, WindowFacts DEF IInv, StorageInv, Slot
<1> QED BY <1>1, <1>4, <1>5, <1>6

(* And what is known of the items taken.                                    *)
LEMMA ItemsKept ==
  ASSUME IInv,
         UNCHANGED <<head, result, got>>, Window' = Window,
         \A c \in Consumers, l \in {"move_out", "release", "notify"} :
           /\ pc[c] = l <=> pc'[c] = l
           /\ pc[c] = l => pos'[c] = pos[c]
  PROVE  HoldInv' /\ HistoryInv'
<1>1. ASSUME NEW c \in Consumers
      PROVE  /\ Holding(c)' <=> Holding(c)
             /\ pc'[c] \in {"move_out", "release"} <=> pc[c] \in {"move_out", "release"}
             /\ pc'[c] \in {"release", "notify"} <=> pc[c] \in {"release", "notify"}
             /\ Holding(c) => pos'[c] = pos[c]
  <2>1. /\ pc[c] = "move_out" <=> pc'[c] = "move_out"
        /\ pc[c] = "release" <=> pc'[c] = "release"
        /\ pc[c] = "notify" <=> pc'[c] = "notify"
    OBVIOUS
  <2>2. Holding(c) => pos'[c] = pos[c]
    BY DEF Holding
  <2> QED BY <2>1, <2>2 DEF Holding
<1>2. HoldInv'
  BY <1>1 DEF IInv, HoldInv, Holding
<1>3. HistoryInv'
  BY <1>1 DEF IInv, HistoryInv
<1> QED BY <1>2, <1>3

(* And what is known of a consumer that takes no part in the step.          *)
LEMMA LoopKept ==
  ASSUME IInv, NEW c \in Consumers,
         pc'[c] = pc[c], pos'[c] = pos[c], seen'[c] = seen[c],
         head' \in {head, head + 1}, Published' = Published,
         InLoop(c) => Horizon' <= pos[c] + MaxLag,
         ProducerNotifies(Slot(pos[c])) => ProducerNotifies(Slot(pos[c]))'
  PROVE  LoopOK(c)'
<1>1. LoopOK(c) /\ pos[c] \in Nat /\ head \in Nat
  BY DEF IInv, LoopInv, TypeOK, Threads
<1>2. InLoop(c)' <=> InLoop(c)
  BY DEF InLoop
<1>3. IsUnwritten(seen[c], pos[c]) <=> IsUnwritten(seen'[c], pos'[c])
  OBVIOUS
<1> QED BY <1>1, <1>2, <1>3 DEF LoopOK

(* A consumer that holds nothing moves about its loop.                      *)
LEMMA ConsumerLocal ==
  ASSUME IInv, TypeOK', alive, NEW c \in Consumers,
         UNCHANGED <<head, tail, sequence, storage, alive, result, got>>,
         \A th \in Threads \ {c} : pc'[th] = pc[th] /\ pos'[th] = pos[th] /\ seen'[th] = seen[th],
         ~Holding(c), ~Holding(c)',
         LoopOK(c)'
  PROVE  IInv'
<1> USE SPMCAssumption DEF Threads
<1>1. pc'[Producer] = pc[Producer] /\ pos'[Producer] = pos[Producer]
  OBVIOUS
<1>2. \A d \in Consumers, l \in {"move_out", "release", "notify"} :
        /\ pc[d] = l <=> pc'[d] = l
        /\ pc[d] = l => pos'[d] = pos[d]
  BY DEF Holding
<1>3. Counters' /\ SequenceInv' /\ StorageInv' /\ Published' = Published /\ Window' = Window
  BY <1>1, <1>2, SlotsKept
<1>4. HoldInv' /\ HistoryInv'
  BY <1>2, <1>3, ItemsKept
<1>5. ProducerInv' BY <1>1 DEF IInv, ProducerInv, Filling, Slot
<1>6. ASSUME NEW d \in Consumers PROVE LoopOK(d)'
  <2>1. CASE d = c BY <2>1
  <2>2. CASE d # c
    <3>1. Horizon' = Horizon BY <1>1, <1>3 DEF Horizon, Filling
    <3>2. InLoop(d) => Horizon' <= pos[d] + MaxLag BY <3>1 DEF IInv, LoopInv, LoopOK
    <3>3. ProducerNotifies(Slot(pos[d])) => ProducerNotifies(Slot(pos[d]))'
      BY <1>1, <2>2 DEF ProducerNotifies, Slot
    <3> QED BY <1>3, <2>2, <3>2, <3>3, LoopKept
  <2> QED BY <2>1, <2>2
<1>7. DeadInv' BY DEF DeadInv
<1> QED BY <1>3, <1>4, <1>5, <1>6, <1>7 DEF IInv, LoopInv

(* So does the producer outside construct, publish and advance.             *)
LEMMA ProducerLocal ==
  ASSUME IInv, TypeOK', alive,
         UNCHANGED <<head, tail, sequence, storage, alive, result, got>>,
         \A c \in Consumers : pc'[c] = pc[c] /\ pos'[c] = pos[c] /\ seen'[c] = seen[c],
         pc[Producer] \notin {"publish", "advance", "notify"},
         pc'[Producer] \notin {"publish", "advance"},
         ProducerInv',
         \A c \in Consumers : InLoop(c) => Horizon' <= pos[c] + MaxLag
  PROVE  IInv'
<1>1. \A d \in Consumers, l \in {"move_out", "release", "notify"} :
        /\ pc[d] = l <=> pc'[d] = l
        /\ pc[d] = l => pos'[d] = pos[d]
  OBVIOUS
<1>2. \A l \in {"publish", "advance"} : pc[Producer] = l <=> pc'[Producer] = l
  OBVIOUS
<1>3. Counters' /\ SequenceInv' /\ StorageInv' /\ Published' = Published /\ Window' = Window
  BY <1>1, <1>2, SlotsKept
<1>4. HoldInv' /\ HistoryInv'
  BY <1>1, <1>3, ItemsKept
<1>5. ASSUME NEW c \in Consumers PROVE LoopOK(c)'
  <2>1. ~ProducerNotifies(Slot(pos[c])) BY DEF ProducerNotifies
  <2> QED BY <1>3, <2>1, LoopKept
<1>6. DeadInv' BY DEF DeadInv
<1> QED BY <1>3, <1>4, <1>5, <1>6 DEF IInv, LoopInv

(* The value of head_ a consumer loads is at most a turn behind.            *)
LEMMA HeadIsRecent ==
  ASSUME IInv, NEW c \in Consumers, head' = head, tail' = tail, pc'[Producer] = pc[Producer]
  PROVE  Horizon' <= head + MaxLag
<1>1. Horizon' <= Published + 1 /\ Horizon' \in Nat
  BY DEF IInv, TypeOK, Horizon, Filling, Published
<1>2. Published <= head + Capacity /\ head \in Nat /\ Published \in Nat
  BY WindowFacts DEF IInv, TypeOK, Counters
<1> QED BY <1>1, <1>2, SPMCAssumption

-----------------------------------------------------------------------------
(* Each action keeps the invariant.                                         *)

(* The steps of the producer up to slot.construct.                          *)
LEMMA CallEmplaceInv ==
  ASSUME IInv, TypeOK', NEW f \in ProducerCalls, CallEmplace(f)
  PROVE  IInv'
<1> USE SPMCAssumption DEF CallEmplace, Goto
<1>1. /\ alive /\ pc[Producer] = "idle" /\ pc'[Producer] = "load"
      /\ pos'[Producer] = tail /\ tail' = tail /\ tail \in Nat
      /\ \A c \in Consumers : pc'[c] = pc[c] /\ pos'[c] = pos[c] /\ seen'[c] = seen[c]
  BY DEF IInv, TypeOK, Threads
<1>2. ProducerInv' BY <1>1 DEF ProducerInv, Filling
<1>3. ASSUME NEW c \in Consumers, InLoop(c) PROVE Horizon' <= pos[c] + MaxLag
  <2>1. Horizon' = tail + 1 BY <1>1 DEF Horizon, Filling
  <2>2. tail - pos[c] < MaxLag /\ pos[c] \in Nat BY <1>3 DEF IInv, TypeOK, Threads
  <2> QED BY <1>1, <2>1, <2>2
<1> QED BY <1>1, <1>2, <1>3, ProducerLocal

(* The producer's load of sequence, whatever it decides.                    *)
LEMMA LoadForEmplaceInv ==
  ASSUME IInv, TypeOK', LoadForEmplace
  PROVE  IInv'
<1> USE SPMCAssumption DEF LoadForEmplace, Goto
<1>1. /\ alive /\ pc[Producer] = "load" /\ Filling
      /\ pos[Producer] = tail /\ tail' = tail /\ tail \in Nat /\ Published = tail
      /\ \A c \in Consumers : pc'[c] = pc[c] /\ pos'[c] = pos[c] /\ seen'[c] = seen[c]
  BY ProducerReads DEF IInv, TypeOK, Threads, DeadInv, Filling
<1>2. pc'[Producer] \in {"construct", "idle", "wait"}
  BY DEF IInv, TypeOK, Threads
<1>3. ProducerInv'
  <2>1. pc'[Producer] = "construct" => sequence[Slot(tail)] = tail
    BY <1>1, ProducerReads DEF IInv, TypeOK, Threads
  <2> QED BY <1>1, <1>2, <2>1 DEF ProducerInv, Filling, Slot
<1>4. ASSUME NEW c \in Consumers, InLoop(c) PROVE Horizon' <= pos[c] + MaxLag
  <2>1. Horizon' <= tail + 1 /\ Horizon' \in Nat
    BY <1>1, <1>2 DEF Horizon, Filling, Published
  <2>2. tail + 1 <= pos[c] + MaxLag /\ pos[c] \in Nat
    BY <1>1, <1>4 DEF IInv, LoopInv, LoopOK, Horizon, TypeOK, Threads
  <2> QED BY <1>1, <2>1, <2>2
<1> QED BY <1>1, <1>2, <1>3, <1>4, ProducerLocal

(* A consumer that waits, or a producer that does: parking and waking.      *)
LEMMA WaitInv ==
  ASSUME IInv, TypeOK', NEW th \in Threads, Wait(th) \/ SpuriousUnblock(th)
  PROVE  IInv'
<1> USE SPMCAssumption DEF Wait, SpuriousUnblock, Goto, Threads
<1>1. /\ alive /\ pc[th] \in {"wait", "parked"}
      /\ pc'[th] \in {"parked", "load", "wait"}
      /\ \A t \in Threads \ {th} : pc'[t] = pc[t]
      /\ pos' = pos /\ seen' = seen
  BY DEF IInv, TypeOK, DeadInv
<1>2. CASE th = Producer
  <2>1. ProducerInv'
    BY <1>1, <1>2 DEF IInv, ProducerInv, Filling
  <2>2. Filling /\ Filling' BY <1>1, <1>2 DEF Filling
  <2>3. \A c \in Consumers : InLoop(c) => Horizon' <= pos[c] + MaxLag
    BY <2>2 DEF IInv, LoopInv, LoopOK, Horizon
  <2>4. pc[Producer] \notin {"publish", "advance", "notify"} /\ pc'[Producer] \notin {"publish", "advance"}
    BY <1>1, <1>2
  <2> QED BY <1>1, <1>2, <2>1, <2>3, <2>4, ProducerLocal
<1>3. CASE th \in Consumers
  <2>1. ~Holding(th) /\ ~Holding(th)' BY <1>1 DEF Holding
  <2>2. InLoop(th) /\ LoopOK(th) /\ IsUnwritten(seen[th], pos[th])
    BY <1>1, <1>3 DEF InLoop, IInv, LoopInv, LoopOK
  <2>3. Horizon' = Horizon /\ Published' = Published
    BY <1>1, <1>3 DEF Horizon, Filling, Published
  <2>4. pc'[th] = "parked" => pos[th] = Published
    <3>1. SUFFICES ASSUME pc'[th] = "parked" PROVE IsUnwritten(sequence[Slot(pos[th])], pos[th])
      BY <1>3, <2>2, ConsumerReads
    <3>2. Same(sequence[Slot(pos[th])], seen[th])
      BY <1>1, <3>1 DEF IInv, TypeOK
    <3>3. sequence[Slot(pos[th])] \in Int /\ seen[th] \in Int /\ pos[th] \in Int
      BY SlotType DEF IInv, TypeOK
    <3> QED BY <2>2, <3>2, <3>3, SameDiff
  <2>5. LoopOK(th)'
    BY <1>1, <2>2, <2>3, <2>4 DEF LoopOK, InLoop
  <2> QED BY <1>1, <1>3, <2>1, <2>5, ConsumerLocal
<1> QED BY <1>2, <1>3

(* slot.construct, whether T's constructor returns or throws.               *)
LEMMA ConstructInv ==
  ASSUME IInv, TypeOK', Construct
  PROVE  IInv'
<1> USE SPMCAssumption DEF Construct, Goto, Threads
<1>1. /\ pc[Producer] = "construct" /\ pc'[Producer] = "publish"
      /\ \A c \in Consumers : pc'[c] = pc[c]
      /\ Filling /\ Filling' /\ Published = tail /\ Published' = tail /\ tail \in Nat
      /\ alive /\ DeadInv'
      /\ pos[Producer] = tail /\ sequence[Slot(tail)] = tail
  BY StepOfLiving, ProducerReads DEF IInv, TypeOK, DeadInv, ProducerInv, Filling, Published
<1>2. Window' = Window BY <1>1 DEF Window
<1>3. Counters' /\ SequenceInv'
  BY <1>1, <1>2 DEF IInv, Counters, SequenceInv, Owned, Owns, Slot
<1>4. StorageInv'
  <2> SUFFICES ASSUME NEW p \in Window
               PROVE  storage'[Slot(p)] =
                        IF p >= head \/ \E c \in Consumers : pc[c] = "move_out" /\ pos[c] = p
                        THEN p ELSE IF p = tail - Capacity THEN tail ELSE Raw
    BY <1>1, <1>2 DEF StorageInv, Slot
  <2>1. Slot(tail - Capacity) = Slot(tail) /\ tail - Capacity \in Window
    BY <1>1, WindowFacts
  <2>2. CASE p = tail - Capacity
    <3>1. ~(p >= head) /\ ~Owned(p)
      BY <1>1, <2>2, ProducerReads DEF IInv, TypeOK
    <3>2. storage'[Slot(p)] = tail
      BY <1>1, <2>1, <2>2, SlotType DEF IInv, TypeOK
    <3> QED BY <2>2, <3>1, <3>2 DEF Owned, Owns
  <2>3. CASE p # tail - Capacity
    <3>1. Slot(p) # Slot(tail)
      BY <2>1, <2>3, WindowFacts
    <3>2. storage'[Slot(p)] = storage[Slot(p)]
      BY <1>1, <3>1, SlotType, WindowFacts DEF IInv, TypeOK
    <3> QED BY <1>1, <2>3, <3>2 DEF IInv, StorageInv
  <2> QED BY <2>2, <2>3
<1>5. ProducerInv' BY <1>1 DEF IInv, ProducerInv, Slot
<1>6. HoldInv' /\ HistoryInv'
  <2>1. \A c \in Consumers, l \in {"move_out", "release", "notify"} :
           /\ pc[c] = l <=> pc'[c] = l
           /\ pc[c] = l => pos'[c] = pos[c]
    BY <1>1
  <2> QED BY <1>2, <2>1, ItemsKept
<1>7. ASSUME NEW c \in Consumers PROVE LoopOK(c)'
  <2>1. ~ProducerNotifies(Slot(pos[c])) BY <1>1 DEF ProducerNotifies
  <2>2. InLoop(c) => Horizon' <= pos[c] + MaxLag
    BY <1>1 DEF IInv, LoopInv, LoopOK, Horizon
  <2> QED BY <1>1, <2>1, <2>2, LoopKept
<1> QED BY <1>1, <1>3, <1>4, <1>5, <1>6, <1>7 DEF IInv, LoopInv

(* A throwing constructor leaves the queue as it was.                       *)
LEMMA ConstructThrowsInv ==
  ASSUME IInv, TypeOK', ConstructThrows
  PROVE  IInv'
<1> USE SPMCAssumption DEF ConstructThrows, Goto, Threads
<1>1. /\ pc[Producer] = "construct" /\ pc'[Producer] = "idle" /\ alive
      /\ \A c \in Consumers : pc'[c] = pc[c] /\ pos'[c] = pos[c] /\ seen'[c] = seen[c]
      /\ tail' = tail /\ tail \in Nat
  BY DEF IInv, TypeOK, DeadInv
<1>2. ProducerInv' BY <1>1 DEF ProducerInv, Filling
<1>3. ASSUME NEW c \in Consumers, InLoop(c) PROVE Horizon' <= pos[c] + MaxLag
  <2>1. tail + 1 <= pos[c] + MaxLag /\ pos[c] \in Nat
    BY <1>1, <1>3 DEF IInv, LoopInv, LoopOK, Horizon, Filling, TypeOK
  <2>2. Horizon' = tail BY <1>1 DEF Horizon, Filling, Published
  <2> QED BY <1>1, <2>1, <2>2
<1> QED BY <1>1, <1>2, <1>3, ProducerLocal

(* The store of sequence that publishes an item: the window moves on by one *)
(* position, and the slot of the one that leaves it is the slot of the one  *)
(* that enters.                                                             *)
LEMMA PublishSequenceInv ==
  ASSUME IInv, TypeOK', PublishSequence
  PROVE  IInv'
<1> USE SPMCAssumption DEF PublishSequence, Goto, Threads
<1>1. /\ pc[Producer] = "publish" /\ pc'[Producer] = "advance" /\ Filling
      /\ \A c \in Consumers : pc'[c] = pc[c]
      /\ Published = tail /\ Published' = tail + 1 /\ tail \in Nat /\ head \in Nat
      /\ alive /\ DeadInv'
      /\ pos[Producer] = tail /\ sequence[Slot(tail)] = tail
      /\ tail - Capacity < head /\ ~Owned(tail - Capacity)
      /\ head <= tail
  BY StepOfLiving, ProducerReads
     DEF IInv, TypeOK, DeadInv, ProducerInv, Filling, Published, Counters
<1>2. Counters' BY <1>1 DEF Counters
<1>3. /\ Window = tail - Capacity .. tail - 1
      /\ Window' = tail + 1 - Capacity .. tail
      /\ Slot(tail - Capacity) = Slot(tail) /\ tail - Capacity \in Window
  BY <1>1, WindowFacts DEF Window
<1>4. ASSUME NEW p \in Window', p # tail
      PROVE  /\ p \in Window /\ p # tail - Capacity
             /\ Slot(p) # Slot(tail) /\ sequence'[Slot(p)] = sequence[Slot(p)]
  <2>1. p \in Window /\ p # tail - Capacity BY <1>1, <1>3, <1>4
  <2>2. Slot(p) # Slot(tail) BY <1>3, <2>1, WindowFacts
  <2> QED BY <1>1, <2>1, <2>2, WindowFacts, SlotType DEF IInv, TypeOK
<1>5. sequence'[Slot(tail)] = tail + 1
  BY <1>1, SlotType DEF IInv, TypeOK
<1>6. SequenceInv'
  <2>1. \A p : Owned(p)' <=> Owned(p) BY <1>1 DEF Owned, Owns
  <2> SUFFICES ASSUME NEW p \in Window'
               PROVE  sequence'[Slot(p)] = IF p >= head \/ Owned(p) THEN p + 1 ELSE p + Capacity
    BY <2>1 DEF SequenceInv, Slot
  <2>2. CASE p = tail BY <1>1, <1>5, <2>2
  <2>3. CASE p # tail BY <1>4, <2>3 DEF IInv, SequenceInv
  <2> QED BY <2>2, <2>3
<1>7. StorageInv'
  <2> SUFFICES ASSUME NEW p \in Window'
               PROVE  storage[Slot(p)] =
                        IF p >= head \/ \E c \in Consumers : pc[c] = "move_out" /\ pos[c] = p
                        THEN p ELSE Raw
    BY <1>1 DEF StorageInv, Slot
  <2>1. CASE p = tail
    <3>1. storage[Slot(tail - Capacity)] = tail
      BY <1>1, <1>3 DEF IInv, StorageInv, Owned, Owns
    <3> QED BY <1>1, <1>3, <2>1, <3>1
  <2>2. CASE p # tail
    BY <1>1, <1>4, <2>2 DEF IInv, StorageInv
  <2> QED BY <2>1, <2>2
<1>8. ProducerInv' BY <1>1 DEF ProducerInv, Filling
<1>9. ASSUME NEW c \in Consumers PROVE LoopOK(c)'
  <2>1. LoopOK(c) /\ pos[c] \in Nat BY DEF IInv, LoopInv, TypeOK
  <2>2. Horizon' = Horizon /\ Horizon = tail + 1 BY <1>1 DEF Horizon, Filling
  <2>3. pc[c] = "parked" => pos[c] = tail
    BY <1>1, <2>1 DEF LoopOK, ProducerNotifies
  <2>4. pc[c] = "parked" => ProducerNotifies(Slot(pos[c]))'
    BY <1>1, <2>3 DEF ProducerNotifies, Slot
  <2> QED BY <1>1, <2>1, <2>2, <2>4 DEF LoopOK, InLoop
<1>10. HoldInv'
  <2> SUFFICES ASSUME NEW c \in Consumers, pc[c] \in {"move_out", "release"}
               PROVE  pos[c] \in Window'
    BY <1>1 DEF IInv, HoldInv, Holding
  <2>1. pos[c] \in Window /\ pos[c] # tail - Capacity
    BY <1>1 DEF IInv, HoldInv, Owned, Owns
  <2> QED BY <1>1, <1>3, <2>1
<1>11. HistoryInv' BY <1>1 DEF IInv, HistoryInv, Holding
<1> QED BY <1>1, <1>2, <1>6, <1>7, <1>8, <1>9, <1>10, <1>11 DEF IInv, LoopInv

(* The store of tail_ leaves Published where the store of sequence put it.  *)
LEMMA AdvanceTailInv ==
  ASSUME IInv, TypeOK', AdvanceTail
  PROVE  IInv'
<1> USE SPMCAssumption DEF AdvanceTail, Goto, Threads
<1>1. /\ pc[Producer] = "advance" /\ pc'[Producer] = "notify"
      /\ \A c \in Consumers : pc'[c] = pc[c]
      /\ pos[Producer] = tail /\ tail \in Nat
      /\ Published' = Published /\ Horizon' = Horizon /\ Window' = Window
      /\ alive /\ DeadInv'
  BY StepOfLiving DEF IInv, TypeOK, DeadInv, ProducerInv, Filling, Published, Horizon, Window
<1>2. Counters' BY <1>1 DEF IInv, Counters
<1>3. SequenceInv' BY <1>1 DEF IInv, SequenceInv, Owned, Owns, Slot
<1>4. StorageInv' BY <1>1 DEF IInv, StorageInv, Slot
<1>5. ProducerInv' BY <1>1 DEF ProducerInv, Filling
<1>6. ASSUME NEW c \in Consumers PROVE LoopOK(c)'
  <2>1. InLoop(c) => Horizon' <= pos[c] + MaxLag
    BY <1>1 DEF IInv, LoopInv, LoopOK
  <2>2. ProducerNotifies(Slot(pos[c])) => ProducerNotifies(Slot(pos[c]))'
    BY <1>1 DEF ProducerNotifies, Slot
  <2> QED BY <1>1, <2>1, <2>2, LoopKept
<1>7. HoldInv' BY <1>1 DEF IInv, HoldInv, Holding
<1>8. HistoryInv' BY <1>1 DEF IInv, HistoryInv, Holding
<1> QED BY <1>1, <1>2, <1>3, <1>4, <1>5, <1>6, <1>7, <1>8 DEF IInv, LoopInv

(* notify_all wakes every consumer parked on the slot, so that none is left *)
(* whose only excuse was the producer's pending notification.               *)
LEMMA NotifyAllInv ==
  ASSUME IInv, TypeOK', NotifyAll
  PROVE  IInv'
<1> USE SPMCAssumption DEF NotifyAll, Threads
<1>1. /\ pc[Producer] = "notify" /\ pc'[Producer] = "idle"
      /\ pos' = pos /\ seen' = seen
      /\ Published' = Published /\ Horizon' = Horizon /\ Window' = Window
      /\ alive /\ DeadInv'
  BY StepOfLiving DEF IInv, TypeOK, DeadInv, Filling, Published, Horizon, Window
<1>2. ASSUME NEW c \in Consumers
      PROVE  \/ pc'[c] = pc[c] /\ c \notin ParkedOn(Slot(pos[Producer]))
             \/ pc[c] = "parked" /\ pc'[c] = "wait"
  BY DEF ParkedOn
<1>3. \A l \in {"publish", "advance"} : pc[Producer] = l <=> pc'[Producer] = l
  BY <1>1
<1>4. \A c \in Consumers, l \in {"move_out", "release", "notify"} :
           /\ pc[c] = l <=> pc'[c] = l
           /\ pc[c] = l => pos'[c] = pos[c]
  BY <1>1, <1>2
<1>5. Counters' /\ SequenceInv' /\ StorageInv'
  BY <1>3, <1>4, SlotsKept
<1>6. HoldInv' /\ HistoryInv'
  BY <1>1, <1>4, ItemsKept
<1>7. ProducerInv' BY <1>1 DEF ProducerInv, Filling
<1>8. ASSUME NEW c \in Consumers PROVE LoopOK(c)'
  <2>1. LoopOK(c) BY DEF IInv, LoopInv
  <2>2. CASE pc'[c] = pc[c] /\ c \notin ParkedOn(Slot(pos[Producer]))
    <3>1. pc[c] = "parked" => pos[c] = Published
      BY <2>1, <2>2 DEF LoopOK, ProducerNotifies, ParkedOn
    <3> QED BY <1>1, <2>1, <2>2, <3>1 DEF LoopOK, InLoop
  <2>3. CASE pc[c] = "parked" /\ pc'[c] = "wait"
    BY <1>1, <2>1, <2>3 DEF LoopOK, InLoop
  <2> QED BY <1>2, <2>2, <2>3
<1> QED BY <1>1, <1>5, <1>6, <1>7, <1>8 DEF IInv, LoopInv

(* The steps of a consumer that leave the queue as it is.                   *)
LEMMA CallPopInv ==
  ASSUME IInv, TypeOK', NEW c \in Consumers, NEW f \in ConsumerCalls, CallPop(c, f)
  PROVE  IInv'
<1> USE SPMCAssumption DEF CallPop, Goto, Threads
<1>1. /\ alive /\ pc[c] = "idle" /\ pc'[c] = "load" /\ pos'[c] = head /\ head' = head
      /\ \A th \in Threads \ {c} : pc'[th] = pc[th] /\ pos'[th] = pos[th] /\ seen'[th] = seen[th]
  BY DEF IInv, TypeOK
<1>2. tail' = tail /\ pc'[Producer] = pc[Producer] /\ head \in Nat
  BY <1>1 DEF IInv, TypeOK
<1>3. Horizon' <= head + MaxLag BY <1>1, <1>2, HeadIsRecent
<1>4. LoopOK(c)' BY <1>1, <1>2, <1>3 DEF LoopOK, InLoop
<1> QED BY <1>1, <1>4, ConsumerLocal DEF Holding

(* A stale h is replaced by head_, by a load or by a failed CAS.            *)
LEMMA ReloadInv ==
  ASSUME IInv, TypeOK', NEW c \in Consumers, ReloadHead(c) \/ ClaimFails(c)
  PROVE  IInv'
<1> USE SPMCAssumption DEF ReloadHead, ClaimFails, Goto, Threads
<1>1. /\ alive /\ pc[c] \in {"reload", "cas"} /\ pc'[c] = "load"
      /\ pos'[c] = head /\ head' = head
      /\ \A th \in Threads \ {c} : pc'[th] = pc[th] /\ pos'[th] = pos[th] /\ seen'[th] = seen[th]
  BY DEF IInv, TypeOK, DeadInv
<1>2. tail' = tail /\ pc'[Producer] = pc[Producer] /\ head \in Nat
  BY <1>1 DEF IInv, TypeOK
<1>3. Horizon' <= head + MaxLag BY <1>1, <1>2, HeadIsRecent
<1>4. LoopOK(c)' BY <1>1, <1>2, <1>3 DEF LoopOK, InLoop
<1> QED BY <1>1, <1>4, ConsumerLocal DEF Holding

(* A consumer's load of sequence, whatever it decides.                      *)
LEMMA LoadForPopInv ==
  ASSUME IInv, TypeOK', NEW c \in Consumers, LoadForPop(c)
  PROVE  IInv'
<1> USE SPMCAssumption DEF LoadForPop, Goto, Threads
<1>1. /\ alive /\ pc[c] = "load" /\ pc'[c] \in {"cas", "idle", "wait", "reload"}
      /\ head' = head /\ pos' = pos /\ InLoop(c) /\ LoopOK(c)
      /\ \A th \in Threads \ {c} : pc'[th] = pc[th] /\ pos'[th] = pos[th] /\ seen'[th] = seen[th]
  BY DEF IInv, TypeOK, DeadInv, LoopInv, InLoop
<1>2. Horizon' = Horizon /\ Published' = Published
  BY <1>1 DEF Horizon, Filling, Published
<1>3. pc'[c] = "cas" => pos[c] < Published
  BY <1>1, ConsumerReads DEF IInv, TypeOK
<1>4. pc'[c] = "wait" => IsUnwritten(seen'[c], pos[c])
  BY <1>1 DEF IInv, TypeOK
<1>5. LoopOK(c)' BY <1>1, <1>2, <1>3, <1>4 DEF LoopOK, InLoop
<1> QED BY <1>1, <1>5, ConsumerLocal DEF Holding

(* The CAS succeeds at head_ only, and only if that position is published.  *)
LEMMA ClaimFacts ==
  ASSUME IInv, NEW c \in Consumers, Claim(c)
  PROVE  pos[c] = head /\ head < Published
<1>1. /\ pos[c] \in Nat /\ pos[c] <= head /\ Horizon <= pos[c] + MaxLag /\ pos[c] < Published
      /\ head <= Published /\ head \in Nat /\ Published \in Nat
  BY WindowFacts DEF Claim, IInv, TypeOK, LoopInv, LoopOK, InLoop, Counters, Threads
<1>2. Published <= Horizon /\ Horizon \in Nat
  BY DEF Horizon, Published, Filling, IInv, TypeOK
<1>3. Same(head, pos[c]) <=> head = pos[c]
  BY <1>1, <1>2, SameSize, SPMCAssumption
<1> QED BY <1>1, <1>3 DEF Claim

(* Then the position becomes this consumer's.                               *)
LEMMA ClaimInv ==
  ASSUME IInv, TypeOK', NEW c \in Consumers, Claim(c)
  PROVE  IInv'
<1> USE SPMCAssumption DEF Claim, Goto, Threads
<1>1. /\ pc[c] = "cas" /\ pc'[c] = "move_out"
      /\ pos' = pos /\ head' = head + 1 /\ head \in Nat
      /\ \A th \in Threads \ {c} : pc'[th] = pc[th]
      /\ Published' = Published /\ Horizon' = Horizon /\ Window' = Window
      /\ Published \in Nat
      /\ alive /\ DeadInv'
  BY StepOfLiving, WindowFacts
     DEF IInv, TypeOK, DeadInv, Filling, Published, Horizon, Window
<1>2. pos[c] = head /\ head < Published BY ClaimFacts
<1>3. head \in Window
  BY <1>1, <1>2 DEF IInv, Counters, Window
<1>4. ASSUME NEW d \in Consumers PROVE Holding(d) => pos[d] < head
  BY DEF IInv, HoldInv
<1>5. ASSUME NEW p \in Int
      PROVE  /\ Owned(p)' <=> Owned(p) \/ p = head
             /\ (\E d \in Consumers : pc'[d] = "move_out" /\ pos'[d] = p)
                  <=> (\E d \in Consumers : pc[d] = "move_out" /\ pos[d] = p) \/ p = head
  BY <1>1, <1>2 DEF Owned, Owns
<1>6. Counters' BY <1>1, <1>2 DEF IInv, Counters
<1>7. SequenceInv'
  BY <1>1, <1>5, WindowFacts DEF IInv, SequenceInv, Slot
<1>8. StorageInv'
  <2> SUFFICES ASSUME NEW p \in Window
               PROVE  storage[Slot(p)] =
                        IF p >= head + 1 \/ \E d \in Consumers : pc'[d] = "move_out" /\ pos'[d] = p
                        THEN p
                        ELSE IF pc[Producer] = "publish" /\ p = tail - Capacity THEN tail ELSE Raw
    BY <1>1 DEF StorageInv, Slot
  <2>1. p \in Int BY WindowFacts
  <2>2. storage[Slot(p)] =
          IF p >= head \/ \E d \in Consumers : pc[d] = "move_out" /\ pos[d] = p THEN p
          ELSE IF pc[Producer] = "publish" /\ p = tail - Capacity THEN tail ELSE Raw
    BY <1>1 DEF IInv, StorageInv
  <2> QED BY <1>1, <1>5, <2>1, <2>2
<1>9. ProducerInv' BY <1>1 DEF IInv, ProducerInv, Filling, Slot
<1>10. ASSUME NEW d \in Consumers PROVE LoopOK(d)'
  <2>1. CASE d = c BY <1>1, <2>1 DEF LoopOK, InLoop
  <2>2. CASE d # c
    <3>1. InLoop(d) => Horizon' <= pos[d] + MaxLag
      BY <1>1 DEF IInv, LoopInv, LoopOK
    <3>2. ProducerNotifies(Slot(pos[d])) => ProducerNotifies(Slot(pos[d]))'
      BY <1>1, <2>2 DEF ProducerNotifies, Slot
    <3> QED BY <1>1, <2>2, <3>1, <3>2, LoopKept
  <2> QED BY <2>1, <2>2
<1>11. /\ Holding(c)' /\ ~Holding(c)
       /\ \A d \in Consumers \ {c} : Holding(d)' <=> Holding(d)
  BY <1>1 DEF Holding
<1>12. HoldInv'
  <2>1. \A d \in Consumers : got[d] \subseteq 0 .. head - 1
    BY DEF IInv, HistoryInv
  <2>2. ASSUME NEW d \in Consumers, d # c
        PROVE  /\ pc'[d] \in {"move_out", "release"} => pos'[d] \in Window'
               /\ pc'[d] \in {"release", "notify"} => result'[d] = pos'[d]
               /\ Holding(d)' => /\ pos'[d] < head'
                                 /\ \A v \in got'[d] : v < pos'[d]
                                 /\ \A e \in Consumers :
                                      /\ pos'[d] \notin got'[e]
                                      /\ e # d /\ Holding(e)' => pos'[e] # pos'[d]
    <3>1. pos[d] \in Nat BY DEF IInv, TypeOK
    <3>2. Holding(d) => pos[d] < head /\ pos[d] # pos[c]
      BY <1>1, <1>2, <1>4, <3>1
    <3> QED BY <1>1, <1>11, <2>2, <3>1, <3>2 DEF IInv, HoldInv
  <2>3. \A e \in Consumers : e # c /\ Holding(e)' => pos'[e] # pos'[c]
    BY <1>1, <1>2, <1>4, <1>11 DEF IInv, TypeOK
  <2>4. pos'[c] < head' /\ pos'[c] \in Window' /\ \A e \in Consumers : pos'[c] \notin got'[e]
    BY <1>1, <1>2, <1>3, <2>1
  <2>5. \A v \in got'[c] : v < pos'[c]
    BY <1>1, <1>2, <2>1
  <2> QED BY <1>1, <2>2, <2>3, <2>4, <2>5 DEF HoldInv
<1>13. HistoryInv'
  <2>1. \A d \in Consumers : got'[d] \subseteq 0 .. head' - 1
    BY <1>1 DEF IInv, HistoryInv
  <2>2. ASSUME NEW v \in 0 .. head
        PROVE  \E d \in Consumers : v \in got[d] \/ (Holding(d)' /\ pos[d] = v)
    <3>1. CASE v = head BY <1>2, <1>11, <3>1
    <3>2. CASE v # head
      <4>1. v \in 0 .. head - 1 BY <1>1, <3>2
      <4> QED BY <1>11, <4>1 DEF IInv, HistoryInv
    <3> QED BY <3>1, <3>2
  <2> QED BY <1>1, <2>1, <2>2 DEF IInv, HistoryInv
<1> QED BY <1>1, <1>6, <1>7, <1>8, <1>9, <1>10, <1>12, <1>13 DEF IInv, LoopInv

(* What a consumer that owns a slot finds in it.                            *)
LEMMA OwnerFacts ==
  ASSUME IInv, NEW c \in Consumers, pc[c] \in {"move_out", "release"}
  PROVE  /\ alive /\ pos[c] \in Window /\ pos[c] \in Nat /\ pos[c] < head
         /\ \A d \in Consumers : d # c /\ Holding(d) => pos[d] # pos[c]
         /\ Owned(pos[c]) /\ sequence[Slot(pos[c])] = pos[c] + 1
         /\ storage[Slot(pos[c])] = IF pc[c] = "move_out" THEN pos[c] ELSE Raw
         /\ pc[Producer] \in {"construct", "publish"} => pos[c] # tail - Capacity
<1> USE SPMCAssumption DEF Threads
<1>1. /\ alive /\ pos[c] \in Window /\ pos[c] \in Nat /\ pos[c] < head /\ Owned(pos[c])
      /\ \A d \in Consumers : d # c /\ Holding(d) => pos[d] # pos[c]
  BY DEF IInv, DeadInv, HoldInv, TypeOK, Owned, Owns, Holding
<1>2. sequence[Slot(pos[c])] = pos[c] + 1
  BY <1>1 DEF IInv, SequenceInv
<1>3. pc[Producer] \in {"construct", "publish"} => pos[c] # tail - Capacity
  BY <1>1, ProducerReads DEF IInv, ProducerInv, Filling
<1>4. pc[c] = "release" => ~\E d \in Consumers : pc[d] = "move_out" /\ pos[d] = pos[c]
  BY <1>1 DEF Holding
<1>5. head \in Nat /\ ~(pos[c] >= head) BY <1>1 DEF IInv, TypeOK
<1>6. storage[Slot(pos[c])] = IF pc[c] = "move_out" THEN pos[c] ELSE Raw
  BY <1>1, <1>3, <1>4, <1>5 DEF IInv, StorageInv
<1> QED BY <1>1, <1>2, <1>3, <1>6

(* slot.move_out: the T leaves the slot for the local result.               *)
LEMMA MoveOutInv ==
  ASSUME IInv, TypeOK', NEW c \in Consumers, MoveOut(c)
  PROVE  IInv'
<1> USE SPMCAssumption DEF MoveOut, Goto, Threads
<1>1. /\ pc[c] = "move_out" /\ pc'[c] = "release" /\ pos' = pos
      /\ \A th \in Threads \ {c} : pc'[th] = pc[th]
      /\ Published' = Published /\ Horizon' = Horizon /\ Window' = Window
      /\ alive /\ DeadInv'
  BY StepOfLiving DEF IInv, TypeOK, Filling, Published, Horizon, Window
<1>2. /\ pos[c] \in Window /\ pos[c] < head /\ storage[Slot(pos[c])] = pos[c]
      /\ result'[c] = pos[c] /\ \A d \in Consumers \ {c} : result'[d] = result[d]
      /\ storage'[Slot(pos[c])] = Raw
  BY <1>1, OwnerFacts, SlotType DEF IInv, TypeOK
<1>3. \A d \in Consumers : Holding(d)' <=> Holding(d)
  BY <1>1 DEF Holding
<1>4. Counters' BY <1>1 DEF IInv, Counters
<1>5. SequenceInv'
  <2>1. \A p : Owned(p)' <=> Owned(p) BY <1>1 DEF Owned, Owns
  <2> QED BY <1>1, <2>1 DEF IInv, SequenceInv, Slot
<1>6. StorageInv'
  <2> SUFFICES ASSUME NEW p \in Window
               PROVE  storage'[Slot(p)] =
                        IF p >= head \/ \E d \in Consumers : pc'[d] = "move_out" /\ pos[d] = p
                        THEN p
                        ELSE IF pc[Producer] = "publish" /\ p = tail - Capacity THEN tail ELSE Raw
    BY <1>1 DEF StorageInv, Slot
  <2>1. CASE p = pos[c]
    <3>1. ~\E d \in Consumers : pc'[d] = "move_out" /\ pos[d] = p
      BY <1>1, <2>1, OwnerFacts DEF Holding
    <3>2. ~(pc[Producer] = "publish" /\ p = tail - Capacity)
      BY <1>1, <2>1, OwnerFacts
    <3>3. ~(p >= head) BY <1>2, <2>1, WindowFacts DEF IInv, TypeOK
    <3> QED BY <1>2, <2>1, <3>1, <3>2, <3>3
  <2>2. CASE p # pos[c]
    <3>1. storage'[Slot(p)] = storage[Slot(p)]
      BY <1>2, <2>2, WindowFacts DEF IInv, TypeOK
    <3>2. (\E d \in Consumers : pc'[d] = "move_out" /\ pos[d] = p)
            <=> (\E d \in Consumers : pc[d] = "move_out" /\ pos[d] = p)
      BY <1>1, <2>2
    <3> QED BY <1>1, <3>1, <3>2 DEF IInv, StorageInv
  <2> QED BY <2>1, <2>2
<1>7. ProducerInv' BY <1>1 DEF IInv, ProducerInv, Filling, Slot
<1>8. ASSUME NEW d \in Consumers PROVE LoopOK(d)'
  <2>1. CASE d = c BY <1>1, <2>1 DEF LoopOK, InLoop
  <2>2. CASE d # c
    <3>1. InLoop(d) => Horizon' <= pos[d] + MaxLag
      BY <1>1 DEF IInv, LoopInv, LoopOK
    <3>2. ProducerNotifies(Slot(pos[d])) => ProducerNotifies(Slot(pos[d]))'
      BY <1>1 DEF ProducerNotifies, Slot
    <3> QED BY <1>1, <2>2, <3>1, <3>2, LoopKept
  <2> QED BY <2>1, <2>2
<1>9. HoldInv' BY <1>1, <1>2, <1>3 DEF IInv, HoldInv
<1>10. HistoryInv' BY <1>1, <1>3 DEF IInv, HistoryInv
<1> QED BY <1>1, <1>4, <1>5, <1>6, <1>7, <1>8, <1>9, <1>10 DEF IInv, LoopInv

(* The store of sequence that hands the slot back to the producer.          *)
LEMMA ReleaseSlotInv ==
  ASSUME IInv, TypeOK', NEW c \in Consumers, ReleaseSlot(c)
  PROVE  IInv'
<1> USE SPMCAssumption DEF ReleaseSlot, Goto, Threads
<1>1. /\ pc[c] = "release" /\ pc'[c] = "notify" /\ pos' = pos
      /\ \A th \in Threads \ {c} : pc'[th] = pc[th]
      /\ Published' = Published /\ Horizon' = Horizon /\ Window' = Window
      /\ alive /\ DeadInv'
  BY StepOfLiving DEF IInv, TypeOK, Filling, Published, Horizon, Window
<1>2. /\ pos[c] \in Window /\ pos[c] < head
      /\ sequence'[Slot(pos[c])] = pos[c] + Capacity
  BY <1>1, OwnerFacts, SlotType DEF IInv, TypeOK
<1>3. \A d \in Consumers : Holding(d)' <=> Holding(d)
  BY <1>1 DEF Holding
<1>4. ASSUME NEW p \in Window, p # pos[c]
      PROVE  sequence'[Slot(p)] = sequence[Slot(p)]
  BY <1>2, <1>4, WindowFacts DEF IInv, TypeOK
<1>5. Counters' BY <1>1 DEF IInv, Counters
<1>6. SequenceInv'
  <2> SUFFICES ASSUME NEW p \in Window
               PROVE  sequence'[Slot(p)] = IF p >= head \/ Owned(p)' THEN p + 1 ELSE p + Capacity
    BY <1>1 DEF SequenceInv, Slot
  <2>1. CASE p = pos[c]
    <3>1. ~Owned(p)' BY <1>1, <2>1, OwnerFacts DEF Owned, Owns, Holding
    <3>2. ~(p >= head) BY <1>2, <2>1, WindowFacts DEF IInv, TypeOK
    <3> QED BY <1>2, <2>1, <3>1, <3>2
  <2>2. CASE p # pos[c]
    <3>1. Owned(p)' <=> Owned(p) BY <1>1, <2>2 DEF Owned, Owns
    <3> QED BY <1>4, <2>2, <3>1 DEF IInv, SequenceInv
  <2> QED BY <2>1, <2>2
<1>7. StorageInv'
  <2>1. \A p : (\E d \in Consumers : pc'[d] = "move_out" /\ pos[d] = p)
                 <=> (\E d \in Consumers : pc[d] = "move_out" /\ pos[d] = p)
    BY <1>1
  <2> QED BY <1>1, <2>1 DEF IInv, StorageInv, Slot
<1>8. ProducerInv'
  <2>1. ASSUME pc[Producer] \in {"construct", "publish"}
        PROVE  sequence'[Slot(tail)] = sequence[Slot(tail)]
    <3>1. pos[c] # tail - Capacity BY <1>1, <2>1, OwnerFacts
    <3>2. Published = tail /\ tail - Capacity \in Window /\ Slot(tail - Capacity) = Slot(tail)
      BY <2>1, ProducerReads, WindowFacts DEF Filling
    <3> QED BY <1>4, <3>1, <3>2
  <2> QED BY <1>1, <2>1 DEF IInv, ProducerInv, Filling, Slot
<1>9. ASSUME NEW d \in Consumers PROVE LoopOK(d)'
  <2>1. CASE d = c BY <1>1, <2>1 DEF LoopOK, InLoop
  <2>2. CASE d # c
    <3>1. InLoop(d) => Horizon' <= pos[d] + MaxLag
      BY <1>1 DEF IInv, LoopInv, LoopOK
    <3>2. ProducerNotifies(Slot(pos[d])) => ProducerNotifies(Slot(pos[d]))'
      BY <1>1 DEF ProducerNotifies, Slot
    <3> QED BY <1>1, <2>2, <3>1, <3>2, LoopKept
  <2> QED BY <2>1, <2>2
<1>10. HoldInv' BY <1>1, <1>3 DEF IInv, HoldInv
<1>11. HistoryInv' BY <1>1, <1>3 DEF IInv, HistoryInv
<1> QED BY <1>1, <1>5, <1>6, <1>7, <1>8, <1>9, <1>10, <1>11 DEF IInv, LoopInv

(* notify_one wakes at most one thread, and any one of those parked.        *)
LEMMA NotifyOneStep ==
  ASSUME TypeOK, NEW c \in Consumers, NotifyOne(c)
  PROVE  /\ pc[c] = "notify" /\ pc'[c] = "idle" /\ pos' = pos /\ seen' = seen
         /\ \A th \in Threads \ {c} :
              pc'[th] = pc[th] \/ (pc[th] = "parked" /\ pc'[th] = "wait")
<1> USE DEF Threads
<1>1. pc[c] = "notify" /\ pos' = pos /\ seen' = seen /\ pc \in [Threads -> ProducerLabels \cup ConsumerLabels]
  BY DEF NotifyOne, TypeOK
<1>2. CASE pc' = [pc EXCEPT ![c] = "idle"]
  BY <1>1, <1>2
<1>3. CASE \E th \in ParkedOn(Slot(pos[c])) : pc' = [pc EXCEPT ![c] = "idle", ![th] = "wait"]
  <2>1. PICK th \in Threads : pc[th] = "parked" /\ pc' = [pc EXCEPT ![c] = "idle", ![th] = "wait"]
    BY <1>3 DEF ParkedOn
  <2>2. th # c BY <1>1, <2>1
  <2> QED BY <1>1, <2>1, <2>2
<1> QED BY <1>2, <1>3 DEF NotifyOne, Goto

(* notify_one, and the return of the item.                                  *)
LEMMA NotifyOneInv ==
  ASSUME IInv, TypeOK', NEW c \in Consumers, NotifyOne(c)
  PROVE  IInv'
<1> USE SPMCAssumption DEF Threads
<1>1. /\ pc[c] = "notify" /\ pc'[c] = "idle" /\ pos' = pos /\ seen' = seen
      /\ \A th \in Threads \ {c} :
           pc'[th] = pc[th] \/ (pc[th] = "parked" /\ pc'[th] = "wait")
  BY NotifyOneStep DEF IInv
<1>2. /\ Published' = Published /\ Horizon' = Horizon /\ Window' = Window
      /\ alive /\ DeadInv'
  BY <1>1, StepOfLiving DEF NotifyOne, IInv, TypeOK, Filling, Published, Horizon, Window
<1>3. /\ result[c] = pos[c] /\ pos[c] \in Nat /\ pos[c] < head
      /\ got'[c] = got[c] \cup {pos[c]}
      /\ \A d \in Consumers \ {c} : got'[d] = got[d] /\ result'[d] = result[d]
      /\ \A d \in Consumers : pos[c] \notin got[d]
  BY <1>1 DEF NotifyOne, IInv, TypeOK, HoldInv, Holding
<1>4. \A l \in {"publish", "advance"} : pc[Producer] = l <=> pc'[Producer] = l
  BY <1>1
<1>5. ASSUME NEW d \in Consumers
      PROVE  /\ Holding(d)' <=> Holding(d) /\ d # c
             /\ pc'[d] \in {"move_out", "release"} <=> pc[d] \in {"move_out", "release"}
             /\ pc'[d] = "move_out" <=> pc[d] = "move_out"
             /\ pc'[d] = "release" <=> pc[d] = "release"
             /\ pc'[d] \in {"release", "notify"} => pc[d] \in {"release", "notify"} /\ d # c
  BY <1>1 DEF Holding
<1>6. \A d \in Consumers, l \in {"move_out", "release"} :
           /\ pc[d] = l <=> pc'[d] = l
           /\ pc[d] = l => pos'[d] = pos[d]
  BY <1>1, <1>5
<1>7. Counters' /\ SequenceInv' /\ StorageInv'
  BY <1>4, <1>6, SlotsKept DEF NotifyOne
<1>8. ProducerInv'
  BY <1>1 DEF NotifyOne, IInv, ProducerInv, Filling, Slot
<1>9. ASSUME NEW d \in Consumers PROVE LoopOK(d)'
  <2>1. LoopOK(d) BY DEF IInv, LoopInv
  <2>2. \A i : ProducerNotifies(i)' <=> ProducerNotifies(i)
    BY <1>1 DEF ProducerNotifies, Slot
  <2>3. head' = head /\ (ProducerNotifies(Slot(pos[d])) => ProducerNotifies(Slot(pos[d]))')
    BY <1>1, <2>2 DEF NotifyOne, Slot, ProducerNotifies
  <2>4. CASE d = c BY <1>1, <2>4 DEF LoopOK, InLoop
  <2>5. CASE d # c /\ pc'[d] = pc[d]
    BY <1>1, <1>2, <2>1, <2>3, <2>5 DEF LoopOK, InLoop
  <2>6. CASE d # c /\ pc[d] = "parked" /\ pc'[d] = "wait"
    BY <1>1, <1>2, <2>1, <2>3, <2>6 DEF LoopOK, InLoop
  <2> QED BY <1>1, <2>4, <2>5, <2>6
<1>10. HoldInv'
  <2> SUFFICES ASSUME NEW d \in Consumers
        PROVE  /\ pc'[d] \in {"move_out", "release"} => pos'[d] \in Window'
               /\ pc'[d] \in {"release", "notify"} => result'[d] = pos'[d]
               /\ Holding(d)' => /\ pos'[d] < head'
                                 /\ \A v \in got'[d] : v < pos'[d]
                                 /\ \A e \in Consumers :
                                      /\ pos'[d] \notin got'[e]
                                      /\ e # d /\ Holding(e)' => pos'[e] # pos'[d]
    BY DEF HoldInv
  <2>1. Holding(d)' => d # c /\ Holding(d) /\ pos[d] # pos[c]
    BY <1>1, <1>5 DEF IInv, HoldInv, Holding
  <2>2. head' = head BY DEF NotifyOne
  <2>3. Holding(d)' => \A e \in Consumers :
                         /\ pos'[d] \notin got'[e]
                         /\ e # d /\ Holding(e)' => pos'[e] # pos'[d]
    BY <1>1, <1>3, <1>5, <2>1 DEF IInv, HoldInv
  <2>4. Holding(d)' => pos'[d] < head' /\ \A v \in got'[d] : v < pos'[d]
    BY <1>1, <1>3, <2>1, <2>2 DEF IInv, HoldInv
  <2>5. /\ pc'[d] \in {"move_out", "release"} => pos'[d] \in Window'
        /\ pc'[d] \in {"release", "notify"} => result'[d] = pos'[d]
    BY <1>1, <1>2, <1>3, <1>5 DEF IInv, HoldInv
  <2> QED BY <2>3, <2>4, <2>5
<1>11. HistoryInv'
  <2>1. head' = head /\ head \in Nat BY DEF NotifyOne, IInv, TypeOK
  <2>2. \A d, e \in Consumers : d # e => got'[d] \cap got'[e] = {}
    BY <1>3 DEF IInv, HistoryInv
  <2>3. \A d \in Consumers : got'[d] \subseteq 0 .. head - 1
    BY <1>3, <2>1 DEF IInv, HistoryInv
  <2>4. ASSUME NEW v \in 0 .. head - 1
        PROVE  \E d \in Consumers : v \in got'[d] \/ (Holding(d)' /\ pos'[d] = v)
    <3>1. PICK d \in Consumers : v \in got[d] \/ (Holding(d) /\ pos[d] = v)
      BY DEF IInv, HistoryInv
    <3> QED BY <1>1, <1>3, <1>5, <3>1
  <2> QED BY <2>1, <2>2, <2>3, <2>4 DEF HistoryInv
<1> QED BY <1>2, <1>7, <1>8, <1>9, <1>10, <1>11 DEF IInv, LoopInv

(* The destructor's walk over [head_, tail_) meets exactly the slots with a *)
(* live T.                                                                  *)
LEMMA DrainedIsFull ==
  ASSUME IInv, Quiescent
  PROVE  Drained = {i \in Slots : storage[i] # Raw}
<1> USE SPMCAssumption DEF Threads
<1>1. /\ Published = tail /\ alive /\ head \in Nat /\ tail \in Nat
      /\ head <= tail /\ tail <= head + Capacity
      /\ \A p : ~Owned(p)
      /\ \A c \in Consumers : pc[c] # "move_out"
      /\ pc[Producer] # "publish"
  BY DEF Quiescent, Published, IInv, Counters, TypeOK, Owned, Owns
<1>2. ASSUME NEW i \in Drained PROVE i \in Slots /\ storage[i] # Raw
  <2>1. PICK p \in head .. tail - 1 : Slot(p) = i
    BY DEF Drained
  <2>2. p \in Window /\ p >= head /\ p \in Nat BY <1>1, <2>1 DEF Window
  <2>3. storage[i] = p BY <1>1, <2>1, <2>2 DEF IInv, StorageInv
  <2> QED BY <2>2, <2>3 DEF Drained, Raw
<1>3. ASSUME NEW i \in Slots, storage[i] # Raw PROVE i \in Drained
  <2>1. i \in Int /\ Slot(i) = i
    BY ModSmall DEF Slots, Slot
  <2>2. PICK p \in Window : Slot(p) = i
    BY <2>1, WindowFacts
  <2>3. p >= head
    BY <1>1, <1>3, <2>2 DEF IInv, StorageInv
  <2>4. p \in head .. tail - 1
    BY <1>1, <2>2, <2>3 DEF Window
  <2>5. sequence[i] = p + 1
    BY <2>2, <2>3 DEF IInv, SequenceInv
  <2>6. Same(sequence[i], p + 1) BY <2>5 DEF Same
  <2> QED BY <2>2, <2>4, <2>6 DEF Drained
<1> QED BY <1>2, <1>3

(* The destructor leaves a dead queue with raw slots.                       *)
LEMMA DestroyInv ==
  ASSUME IInv, TypeOK', Destroy
  PROVE  IInv'
<1> USE SPMCAssumption DEF Destroy
<1>1. Published' = Published /\ Window' = Window /\ Horizon' = Horizon
  BY DEF Published, Window, Horizon, Filling
<1>2. Counters' BY <1>1 DEF IInv, Counters
<1>3. SequenceInv' BY <1>1 DEF IInv, SequenceInv, Owned, Owns, Slot
<1>4. StorageInv' BY DEF StorageInv
<1>5. ProducerInv' BY DEF IInv, ProducerInv, Filling, Slot
<1>6. LoopInv' BY DEF LoopInv, LoopOK, InLoop, Quiescent, Threads
<1>7. HoldInv' BY <1>1 DEF IInv, HoldInv, Holding
<1>8. HistoryInv' BY DEF IInv, HistoryInv, Holding
<1>9. DeadInv'
  <2>1. \A i \in Slots : storage'[i] = Raw
    BY DrainedIsFull
  <2> QED BY <2>1 DEF DeadInv, Quiescent
<1> QED BY <1>2, <1>3, <1>4, <1>5, <1>6, <1>7, <1>8, <1>9 DEF IInv

(* The invariant depends on nothing but the variables.                      *)
LEMMA StutterInv == IInv /\ UNCHANGED vars => IInv'
<1> SUFFICES ASSUME IInv, UNCHANGED vars PROVE IInv'
  OBVIOUS
<1>1. TypeOK' BY DEF vars, IInv, TypeOK
<1>2. Published' = Published /\ Window' = Window /\ Horizon' = Horizon
  BY DEF vars, Published, Window, Horizon, Filling
<1>3. Counters' /\ SequenceInv' /\ StorageInv'
  BY <1>2 DEF vars, IInv, Counters, SequenceInv, StorageInv, Owned, Owns, Slot
<1>4. ProducerInv' BY DEF vars, IInv, ProducerInv, Filling, Slot
<1>5. LoopInv' BY <1>2 DEF vars, IInv, LoopInv, LoopOK, InLoop, ProducerNotifies, Slot
<1>6. HoldInv' /\ HistoryInv' BY <1>2 DEF vars, IInv, HoldInv, HistoryInv, Holding
<1>7. DeadInv' BY DEF vars, IInv, DeadInv
<1> QED BY <1>1, <1>3, <1>4, <1>5, <1>6, <1>7 DEF IInv

-----------------------------------------------------------------------------
(* The inductive invariant, for any capacity and any number of consumers.   *)
LEMMA NextInv == IInv /\ [Next]_vars => IInv'
<1> SUFFICES ASSUME IInv, [Next]_vars PROVE IInv'
  OBVIOUS
<1>0. TypeOK' BY TypeNext DEF IInv
<1> QED
  BY <1>0, NextCases, CallEmplaceInv, LoadForEmplaceInv, ConstructInv, ConstructThrowsInv,
     PublishSequenceInv, AdvanceTailInv, NotifyAllInv, WaitInv, CallPopInv, LoadForPopInv,
     ReloadInv, ClaimInv, MoveOutInv, ReleaseSlotInv, NotifyOneInv, DestroyInv, StutterInv

(* What relates sequence and storage of every slot to head_, tail_ and the  *)
(* threads' program counters holds in every state of the queue.             *)
THEOREM Invariance == Spec => []IInv
<1>1. Init => IInv BY InitInv
<1>2. IInv /\ [Next]_vars => IInv' BY NextInv
<1> QED BY <1>1, <1>2, PTL DEF Spec

-----------------------------------------------------------------------------
(* The safety properties of SPMCQueue.                                      *)

(* construct() and move_out() never touch one slot at the same time, so the *)
(* plain accesses to storage are free of data races.                        *)
THEOREM DataRaceFreedom == Spec => []NoDataRace
<1>1. IInv => NoDataRace
  <2> SUFFICES ASSUME IInv, NEW a \in Threads, NEW b \in Threads, a # b,
                      AccessesStorage(a), AccessesStorage(b), Slot(pos[a]) = Slot(pos[b])
               PROVE  FALSE
    BY DEF NoDataRace
  <2> USE SPMCAssumption DEF Threads
  <2>1. ASSUME NEW c \in Consumers, AccessesStorage(c)
        PROVE  pc[c] = "move_out"
    BY <2>1 DEF AccessesStorage, IInv, TypeOK, ConsumerLabels
  <2>2. ASSUME NEW c \in Consumers, AccessesStorage(c), AccessesStorage(Producer)
        PROVE  Slot(pos[c]) # Slot(pos[Producer])
    <3>1. pc[c] = "move_out" /\ pc[Producer] = "construct" /\ Filling
      BY <2>1, <2>2 DEF AccessesStorage, IInv, TypeOK, ProducerLabels, Filling
    <3>2. /\ pos[Producer] = tail /\ Published = tail
          /\ pos[c] \in Window /\ pos[c] # tail - Capacity
      BY <3>1, ProducerReads, OwnerFacts
    <3> QED BY <3>2, WindowFacts
  <2>3. CASE a = Producer BY <2>2, <2>3
  <2>4. CASE b = Producer BY <2>2, <2>4
  <2>5. CASE a \in Consumers /\ b \in Consumers
    <3>1. pc[a] = "move_out" /\ pc[b] = "move_out" BY <2>1, <2>5
    <3>2. pos[a] \in Window /\ pos[b] \in Window /\ pos[a] # pos[b]
      BY <2>5, <3>1, OwnerFacts DEF Holding
    <3> QED BY <3>2, WindowFacts
  <2> QED BY <2>3, <2>4, <2>5
<1> QED BY <1>1, Invariance, PTL

(* construct() finds raw storage, move_out() the item its CAS claimed.      *)
THEOREM LifetimeSafety == Spec => []LifetimesRespected
<1>1. IInv => LifetimesRespected
  <2> SUFFICES ASSUME IInv PROVE LifetimesRespected
    OBVIOUS
  <2>1. ASSUME pc[Producer] = "construct" PROVE storage[Slot(pos[Producer])] = Raw
    <3>1. /\ pos[Producer] = tail /\ Published = tail /\ alive
          /\ tail - Capacity < head /\ ~Owned(tail - Capacity)
          /\ head \in Nat /\ tail \in Nat
      BY <2>1, ProducerReads DEF Filling, IInv, ProducerInv, DeadInv, Threads, TypeOK
    <3>2. tail - Capacity \in Window /\ Slot(tail - Capacity) = Slot(tail)
      BY <3>1, WindowFacts
    <3>3. ~(tail - Capacity >= head) BY <3>1, SPMCAssumption
    <3> QED BY <2>1, <3>1, <3>2, <3>3 DEF IInv, StorageInv, Owned, Owns
  <2>2. ASSUME NEW c \in Consumers, pc[c] = "move_out" PROVE storage[Slot(pos[c])] = pos[c]
    BY <2>2, OwnerFacts
  <2> QED BY <2>1, <2>2 DEF LifetimesRespected
<1> QED BY <1>1, Invariance, PTL

(* What a consumer has in hand is the item at the position it claimed.      *)
LEMMA TakenItem ==
  ASSUME IInv, NEW c \in Consumers
  PROVE  /\ Taken(c) = IF Holding(c) THEN pos[c] ELSE Raw
         /\ pos[c] \in Nat
         /\ InHand(c) = IF Holding(c) THEN {pos[c]} ELSE {}
<1>1. pos[c] \in Nat BY DEF IInv, TypeOK, Threads
<1>2. Taken(c) = IF Holding(c) THEN pos[c] ELSE Raw
  BY OwnerFacts DEF Taken, Holding, IInv, HoldInv
<1> QED BY <1>1, <1>2 DEF InHand, Raw

(* No item is lost and none is handed out twice: the items below head_ are  *)
(* those consumers hold or have returned, each in one place only.           *)
THEOREM ExactlyOnceSafety == Spec => []ExactlyOnce
<1>1. IInv => ExactlyOnce
  <2> SUFFICES ASSUME IInv PROVE ExactlyOnce
    OBVIOUS
  <2>1. ASSUME NEW c \in Consumers
        PROVE  /\ InHand(c) = IF Holding(c) THEN {pos[c]} ELSE {}
               /\ pos[c] \in Nat /\ head \in Nat
               /\ Holding(c) => pos[c] < head
               /\ Holding(c) => \A d \in Consumers :
                    /\ pos[c] \notin got[d]
                    /\ d # c /\ Holding(d) => pos[d] # pos[c]
    BY TakenItem DEF IInv, TypeOK, HoldInv
  <2>2. UNION {got[c] \cup InHand(c) : c \in Consumers} \subseteq 0 .. head - 1
    BY <2>1 DEF IInv, HistoryInv
  <2>3. ASSUME NEW v \in 0 .. head - 1
        PROVE  v \in UNION {got[c] \cup InHand(c) : c \in Consumers}
    BY <2>1 DEF IInv, HistoryInv
  <2>4. ASSUME NEW c \in Consumers, NEW d \in Consumers
        PROVE  /\ got[c] \cap InHand(c) = {}
               /\ c # d => (got[c] \cup InHand(c)) \cap (got[d] \cup InHand(d)) = {}
    BY <2>1 DEF IInv, HistoryInv
  <2> QED BY <2>2, <2>3, <2>4 DEF ExactlyOnce
<1> QED BY <1>1, Invariance, PTL

(* try_pop returns std::nullopt only at an instant at which the queue is    *)
(* empty, however stale its h and however often the counters have wrapped.  *)
THEOREM EmptySafety == Spec => []EmptyIsTrue
<1>1. IInv => EmptyIsTrue
  <2> SUFFICES ASSUME IInv, NEW c \in Consumers, pc[c] = "load",
                      IsUnwritten(sequence[Slot(pos[c])], pos[c])
               PROVE  head = Published
    BY DEF EmptyIsTrue
  <2>1. InLoop(c) BY DEF InLoop
  <2>2. pos[c] = Published BY <2>1, ConsumerReads
  <2>3. pos[c] <= head /\ head <= Published BY <2>1 DEF IInv, LoopInv, LoopOK, Counters
  <2>4. head \in Nat /\ Published \in Nat BY WindowFacts DEF IInv, TypeOK
  <2> QED BY <2>2, <2>3, <2>4
<1> QED BY <1>1, Invariance, PTL

(* try_emplace returns false only while the item a turn earlier still       *)
(* occupies its slot.                                                       *)
THEOREM FullSafety == Spec => []FullIsTrue
<1>1. IInv => FullIsTrue
  <2> SUFFICES ASSUME IInv, pc[Producer] = "load",
                      ~Same(sequence[Slot(pos[Producer])], pos[Producer]),
                      ~(head <= pos[Producer] - Capacity)
               PROVE  \E c \in Consumers :
                        pc[c] \in {"move_out", "release"} /\ pos[c] = pos[Producer] - Capacity
    BY DEF FullIsTrue
  <2>1. Filling BY DEF Filling
  <2>2. Published = tail /\ pos[Producer] = tail /\ sequence[Slot(tail)] # tail
    BY <2>1, ProducerReads
  <2>3. tail - Capacity \in Window /\ Slot(tail - Capacity) = Slot(tail) /\ tail \in Nat
    BY <2>2, WindowFacts
  <2>4. ~(tail - Capacity >= head)
    BY <2>2, <2>3, SPMCAssumption DEF IInv, TypeOK
  <2>5. Owned(tail - Capacity)
    BY <2>2, <2>3, <2>4, SPMCAssumption DEF IInv, SequenceInv
  <2> QED BY <2>2, <2>5 DEF Owned, Owns
<1> QED BY <1>1, Invariance, PTL

(* notify_all strands no consumer in pop_wait.                              *)
THEOREM ConsumerWakeup == Spec => []ConsumersNeverStranded
<1>1. IInv => ConsumersNeverStranded
  <2> SUFFICES ASSUME IInv, NEW c \in Consumers, pc[c] = "parked", Ready(c)
               PROVE  ProducerNotifies(Slot(pos[c]))
    BY DEF ConsumersNeverStranded, NotifyPending
  <2>1. InLoop(c) BY DEF InLoop
  <2>2. ~IsUnwritten(sequence[Slot(pos[c])], pos[c])
    BY SPMCAssumption DEF Ready
  <2>3. pos[c] # Published BY <2>1, <2>2, ConsumerReads
  <2> QED BY <2>3 DEF IInv, LoopInv, LoopOK
<1> QED BY <1>1, Invariance, PTL

(* The destructor destroys every live T once, and leaves none.              *)
THEOREM DestructorSafety == Spec => []DestructorDrains
<1>1. IInv => DestructorDrains
  BY DrainedIsFull DEF DestructorDrains, IInv, DeadInv
<1> QED BY <1>1, Invariance, PTL

-----------------------------------------------------------------------------
(* Refinement: SPMCQueue implements WorkQueue.                              *)

Hand == [c \in Consumers |-> Taken(c)]
HandInv == Hand = [c \in Consumers |-> IF Holding(c) THEN pos[c] ELSE Raw]

(* What the invariant says of the items in hand, in WorkQueue's terms.      *)
LEMMA HandFacts == IInv => HandInv
  BY TakenItem DEF Hand, HandInv

(* Steps that neither publish, claim nor return an item are invisible.      *)
LEMMA InvisibleStep ==
  ASSUME HandInv, HandInv', Published' = Published, head' = head, got' = got,
         \A c \in Consumers : /\ Holding(c)' <=> Holding(c)
                              /\ Holding(c) => pos'[c] = pos[c]
  PROVE  UNCHANGED WQ!wvars
<1>1. Hand' = Hand BY DEF HandInv
<1> QED BY <1>1 DEF WQ!wvars, Hand

(* The store of sequence by the producer is an Enqueue.                     *)
LEMMA EnqueueStep ==
  ASSUME IInv, HandInv, HandInv', PublishSequence
  PROVE  WQ!Enqueue
<1> USE SPMCAssumption DEF PublishSequence, Goto, Threads
<1>1. /\ pc[Producer] = "publish" /\ pc'[Producer] = "advance"
      /\ \A c \in Consumers : pc'[c] = pc[c]
      /\ Published = tail /\ Published' = tail + 1 /\ tail \in Nat /\ head \in Nat
      /\ tail - Capacity < head
  BY ProducerReads DEF IInv, TypeOK, ProducerInv, Filling, Published
<1>2. Hand' = Hand BY <1>1 DEF HandInv, Holding
<1> QED BY <1>1, <1>2 DEF WQ!Enqueue, Hand

(* A successful CAS on head_ is a Dequeue.                                  *)
LEMMA DequeueStep ==
  ASSUME IInv, IInv', HandInv, HandInv', NEW c \in Consumers, Claim(c)
  PROVE  WQ!Dequeue(c)
<1> USE SPMCAssumption DEF Claim, Goto, Threads
<1>1. /\ pc[c] = "cas" /\ pc'[c] = "move_out" /\ pos' = pos /\ head' = head + 1
      /\ \A th \in Threads \ {c} : pc'[th] = pc[th]
      /\ Published' = Published /\ head \in Nat /\ pos[c] \in Nat /\ Published \in Nat
      /\ ~Holding(c) /\ Holding(c)'
      /\ \A d \in Consumers \ {c} : Holding(d)' <=> Holding(d)
  BY WindowFacts DEF IInv, TypeOK, Published, Holding
<1>2. pos[c] = head /\ head < Published
  <2>1. /\ pos[c] <= head /\ Horizon <= pos[c] + MaxLag /\ pos[c] < Published
        /\ head <= Published
    BY <1>1 DEF IInv, LoopInv, LoopOK, InLoop, Counters
  <2>2. Published <= Horizon /\ Horizon \in Nat
    BY DEF Horizon, Published, Filling, IInv, TypeOK
  <2>3. Same(head, pos[c]) <=> head = pos[c]
    BY <1>1, <2>1, <2>2, SameSize
  <2> QED BY <1>1, <2>1, <2>3
<1>3. Hand[c] = Raw BY <1>1 DEF HandInv
<1>4. Hand' = [Hand EXCEPT ![c] = head]
  BY <1>1, <1>2 DEF HandInv
<1> QED BY <1>1, <1>2, <1>3, <1>4 DEF WQ!Dequeue, WQ!Empty, Raw, Hand

(* The return of a pop is a Deliver.                                        *)
LEMMA DeliverStep ==
  ASSUME IInv, IInv', HandInv, HandInv', NEW c \in Consumers, NotifyOne(c)
  PROVE  WQ!Deliver(c)
<1> USE SPMCAssumption DEF Threads
<1>1. /\ pc[c] = "notify" /\ pc'[c] = "idle" /\ pos' = pos /\ head' = head
      /\ \A th \in Threads \ {c} :
           pc'[th] = pc[th] \/ (pc[th] = "parked" /\ pc'[th] = "wait")
      /\ Published' = Published
  BY NotifyOneStep DEF NotifyOne, Published, IInv
<1>2. /\ Holding(c) /\ ~Holding(c)'
      /\ \A d \in Consumers \ {c} : Holding(d)' <=> Holding(d)
  BY <1>1 DEF Holding
<1>3. /\ Hand[c] = pos[c] /\ pos[c] \in Nat /\ result[c] = pos[c]
      /\ \A v \in got[c] : v < pos[c]
      /\ \A d \in Consumers : pos[c] \notin got[d]
  BY <1>1, <1>2 DEF HandInv, IInv, HoldInv, TypeOK
<1>4. Hand' = [Hand EXCEPT ![c] = Raw]
  BY <1>1, <1>2 DEF HandInv
<1>5. got' = [got EXCEPT ![c] = @ \cup {Hand[c]}]
  BY <1>3 DEF NotifyOne
<1> QED BY <1>1, <1>3, <1>4, <1>5 DEF WQ!Deliver, WQ!Empty, Raw, Hand

(* Every step of the queue is a step of WorkQueue, or is invisible there.   *)
LEMMA StepRefines ==
  ASSUME IInv, IInv', HandInv, HandInv', [Next]_vars
  PROVE  [WQ!Next]_(WQ!wvars)
<1> USE SPMCAssumption DEF Threads, Goto
<1>1. CASE \E f \in ProducerCalls : CallEmplace(f)
  BY <1>1, InvisibleStep DEF CallEmplace, Published, Holding, IInv, TypeOK
<1>2. CASE LoadForEmplace
  BY <1>2, InvisibleStep DEF LoadForEmplace, Published, Holding, IInv, TypeOK
<1>3. CASE Construct \/ ConstructThrows
  BY <1>3, InvisibleStep DEF Construct, ConstructThrows, Published, Holding, IInv, TypeOK
<1>4. CASE PublishSequence
  BY <1>4, EnqueueStep DEF WQ!Next
<1>5. CASE AdvanceTail
  BY <1>5, InvisibleStep DEF AdvanceTail, Published, Holding, IInv, TypeOK, ProducerInv
<1>6. CASE NotifyAll
  BY <1>6, InvisibleStep DEF NotifyAll, ParkedOn, Published, Holding, IInv, TypeOK
<1>7. CASE \E th \in Threads : Wait(th) \/ SpuriousUnblock(th)
  <2>1. CASE \E th \in Threads : Wait(th)
    BY <2>1, InvisibleStep DEF Wait, Published, Holding, IInv, TypeOK
  <2>2. CASE \E th \in Threads : SpuriousUnblock(th)
    BY <2>2, InvisibleStep DEF SpuriousUnblock, Published, Holding, IInv, TypeOK
  <2> QED BY <1>7, <2>1, <2>2
<1>8. CASE \E c \in Consumers : \E f \in ConsumerCalls : CallPop(c, f)
  BY <1>8, InvisibleStep DEF CallPop, Published, Holding, IInv, TypeOK
<1>9. CASE \E c \in Consumers : LoadForPop(c)
  BY <1>9, InvisibleStep DEF LoadForPop, Published, Holding, IInv, TypeOK
<1>10. CASE \E c \in Consumers : ReloadHead(c) \/ ClaimFails(c)
  <2>1. CASE \E c \in Consumers : ReloadHead(c)
    BY <2>1, InvisibleStep DEF ReloadHead, Published, Holding, IInv, TypeOK
  <2>2. CASE \E c \in Consumers : ClaimFails(c)
    BY <2>2, InvisibleStep DEF ClaimFails, Published, Holding, IInv, TypeOK
  <2> QED BY <1>10, <2>1, <2>2
<1>11. CASE \E c \in Consumers : Claim(c)
  BY <1>11, DequeueStep DEF WQ!Next
<1>12. CASE \E c \in Consumers : MoveOut(c)
  BY <1>12, InvisibleStep DEF MoveOut, Published, Holding, IInv, TypeOK
<1>13. CASE \E c \in Consumers : ReleaseSlot(c)
  BY <1>13, InvisibleStep DEF ReleaseSlot, Published, Holding, IInv, TypeOK
<1>14. CASE \E c \in Consumers : NotifyOne(c)
  BY <1>14, DeliverStep DEF WQ!Next
<1>15. CASE Destroy
  BY <1>15, InvisibleStep DEF Destroy, Published, Holding
<1>16. CASE UNCHANGED vars
  BY <1>16, InvisibleStep DEF vars, Published, Holding
<1> QED
  BY NextCases, <1>1, <1>2, <1>3, <1>4, <1>5, <1>6, <1>7, <1>8, <1>9, <1>10,
     <1>11, <1>12, <1>13, <1>14, <1>15, <1>16

(* Every behaviour of the ring buffer is one of the abstract queue: FIFO    *)
(* claims, bounded by Capacity, each item returned once and in the order of *)
(* its claim.                                                               *)
THEOREM Refinement == Spec => ImplementsWorkQueue
<1>1. Init => WQ!Init
  BY SPMCAssumption DEF Init, WQ!Init, WQ!Empty, Published, Taken, Raw, Threads
<1>2. IInv /\ IInv' /\ HandInv /\ HandInv' /\ [Next]_vars => [WQ!Next]_(WQ!wvars)
  BY StepRefines
<1>3. IInv => HandInv BY HandFacts
<1> QED BY <1>1, <1>2, <1>3, Invariance, PTL DEF Spec, ImplementsWorkQueue, WQ!Spec

-----------------------------------------------------------------------------
(* What is known of the views that bound size_approx's relaxed loads: all   *)
(* are of the past, ...                                                     *)
ViewTypes ==
  /\ headSeen \in [Threads -> Nat] /\ tailSeen \in [Threads -> Nat]
  /\ slotHead \in [Slots -> Nat] /\ slotTail \in [Slots -> Nat]
  /\ headTail \in Nat
  /\ obsHead \in [Threads -> Nat \cup {NoCall}]

PastInv ==
  /\ \A th \in Threads : headSeen[th] <= head /\ tailSeen[th] <= tail
  /\ \A i \in Slots : slotHead[i] <= head /\ slotTail[i] <= tail
  /\ headTail <= tail

(* ... a sequence carries the claim of its position, or else the stores of  *)
(* tail_ before its item, ...                                               *)
SlotViewInv ==
  \A p \in Window : IF p >= head \/ Owned(p) THEN slotTail[Slot(p)] >= p
                    ELSE slotHead[Slot(p)] >= p + 1

(* ... the producer has seen the claim of the position a lap before the one *)
(* it fills, and a consumer what led to its own items.                      *)
Placing == pc[Producer] \in {"construct", "publish", "advance"}

ProducerSees ==
  /\ tailSeen[Producer] = tail
  /\ headSeen[Producer] >= tail - Capacity
  /\ Placing => headSeen[Producer] >= tail - Capacity + 1

ConsumerSees(c) ==
  /\ pc[c] = "cas" => tailSeen[c] >= pos[c]
  /\ Holding(c) => headSeen[c] >= pos[c] + 1 /\ tailSeen[c] >= pos[c]
  /\ \A v \in got[c] : headSeen[c] >= v + 1 /\ tailSeen[c] >= v

CallInv ==
  \A th \in Threads : obsHead[th] # NoCall => pc[th] = "idle" /\ obsHead[th] = headSeen[th]

ViewInv == /\ ViewTypes /\ PastInv /\ SlotViewInv /\ ProducerSees
           /\ \A c \in Consumers : ConsumerSees(c)
           /\ CallInv

(* head_ and tail_ only grow.                                               *)
LEMMA CountersGrow ==
  ASSUME IInv, [Next]_vars
  PROVE  head <= head' /\ tail <= tail'
<1>0. head \in Nat /\ tail \in Nat BY DEF IInv, TypeOK
<1> USE <1>0 DEF Goto
<1>1. CASE \E f \in ProducerCalls : CallEmplace(f)
  BY <1>1 DEF CallEmplace
<1>2. CASE LoadForEmplace \/ Construct \/ ConstructThrows \/ PublishSequence
  BY <1>2 DEF LoadForEmplace, Construct, ConstructThrows, PublishSequence
<1>3. CASE AdvanceTail
  BY <1>3 DEF AdvanceTail, IInv, ProducerInv
<1>4. CASE NotifyAll \/ \E th \in Threads : Wait(th) \/ SpuriousUnblock(th)
  BY <1>4 DEF NotifyAll, Wait, SpuriousUnblock
<1>5. CASE \E c \in Consumers : \E f \in ConsumerCalls : CallPop(c, f)
  BY <1>5 DEF CallPop
<1>6. CASE \E c \in Consumers : ReloadHead(c) \/ ClaimFails(c)
  BY <1>6 DEF ReloadHead, ClaimFails
<1>7. CASE \E c \in Consumers : Claim(c)
  BY <1>7 DEF Claim
<1>8. CASE \E c \in Consumers : LoadForPop(c)
  BY <1>8 DEF LoadForPop
<1>9. CASE \E c \in Consumers : MoveOut(c)
  BY <1>9 DEF MoveOut
<1>10. CASE \E c \in Consumers : ReleaseSlot(c)
  BY <1>10 DEF ReleaseSlot
<1>11. CASE \E c \in Consumers : NotifyOne(c)
  BY <1>11 DEF NotifyOne
<1>12. CASE Destroy \/ UNCHANGED vars
  BY <1>12 DEF Destroy, vars
<1> QED
  BY NextCases, <1>1, <1>2, <1>3, <1>4, <1>5, <1>6, <1>7, <1>8, <1>9, <1>10, <1>11, <1>12

(* Which steps make a thread learn or pass on something.                    *)
LEMMA LearningSteps ==
  ASSUME IInv, [Next]_vars, NEW th \in Threads
  PROVE  /\ pc[th] = "load" /\ pc'[th] \in {"construct", "cas"} =>
              \/ th = Producer /\ LoadForEmplace
              \/ th \in Consumers /\ LoadForPop(th)
         /\ pc[th] = "publish" /\ pc'[th] = "advance" => th = Producer /\ PublishSequence
         /\ pc[th] = "release" /\ pc'[th] = "notify" => th \in Consumers /\ ReleaseSlot(th)
         /\ pc[th] = "cas" /\ pc'[th] = "move_out" => th \in Consumers /\ Claim(th)
         /\ pc[th] = "advance" /\ pc'[th] = "notify" => AdvanceTail
<1>0. /\ pc \in [Threads -> ProducerLabels \cup ConsumerLabels]
      /\ pc[Producer] \in ProducerLabels /\ \A c \in Consumers : pc[c] \in ConsumerLabels
  BY DEF IInv, TypeOK
<1> USE <1>0, SPMCAssumption DEF Goto, Threads, ProducerLabels, ConsumerLabels
<1>1. CASE \E f \in ProducerCalls : CallEmplace(f)
  BY <1>1 DEF CallEmplace
<1>2. CASE LoadForEmplace
  BY <1>2 DEF LoadForEmplace
<1>3. CASE Construct \/ ConstructThrows
  BY <1>3 DEF Construct, ConstructThrows
<1>4. CASE PublishSequence
  <2>1. pc[Producer] = "publish" /\ \A d \in Consumers : pc'[d] = pc[d]
    BY <1>4 DEF PublishSequence
  <2> QED BY <1>4, <2>1
<1>5. CASE AdvanceTail
  <2>1. pc[Producer] = "advance" /\ \A d \in Consumers : pc'[d] = pc[d]
    BY <1>5 DEF AdvanceTail
  <2> QED BY <1>5, <2>1
<1>6. CASE NotifyAll
  BY <1>6 DEF NotifyAll, ParkedOn
<1>7. CASE \E t \in Threads : Wait(t) \/ SpuriousUnblock(t)
  BY <1>7 DEF Wait, SpuriousUnblock
<1>8. CASE \E c \in Consumers : \E f \in ConsumerCalls : CallPop(c, f)
  BY <1>8 DEF CallPop
<1>9. CASE \E c \in Consumers : LoadForPop(c)
  <2>1. PICK c \in Consumers : LoadForPop(c) BY <1>9
  <2>2. pc[c] = "load" /\ \A t \in Threads \ {c} : pc'[t] = pc[t]
    BY <2>1 DEF LoadForPop
  <2> QED BY <2>1, <2>2
<1>10. CASE \E c \in Consumers : ReloadHead(c) \/ ClaimFails(c)
  BY <1>10 DEF ReloadHead, ClaimFails
<1>11. CASE \E c \in Consumers : Claim(c)
  <2>1. PICK c \in Consumers : Claim(c) BY <1>11
  <2>2. pc[c] = "cas" /\ \A t \in Threads \ {c} : pc'[t] = pc[t]
    BY <2>1 DEF Claim
  <2> QED BY <2>1, <2>2
<1>12. CASE \E c \in Consumers : MoveOut(c)
  BY <1>12 DEF MoveOut
<1>13. CASE \E c \in Consumers : ReleaseSlot(c)
  <2>1. PICK c \in Consumers : ReleaseSlot(c) BY <1>13
  <2>2. pc[c] = "release" /\ \A t \in Threads \ {c} : pc'[t] = pc[t]
    BY <2>1 DEF ReleaseSlot
  <2> QED BY <2>1, <2>2
<1>14. CASE \E c \in Consumers : NotifyOne(c)
  BY <1>14 DEF NotifyOne, ParkedOn
<1>15. CASE Destroy \/ UNCHANGED vars
  BY <1>15 DEF Destroy, vars
<1> QED
  BY NextCases, <1>1, <1>2, <1>3, <1>4, <1>5, <1>6, <1>7, <1>8, <1>9, <1>10, <1>11,
     <1>12, <1>13, <1>14, <1>15

(* What the other steps leave as it is.                                     *)
Kept(c) ==
  /\ pc'[c] = "cas" => pc[c] = "cas" /\ pos'[c] = pos[c]
  /\ pc'[c] \in {"move_out", "release", "notify"} => Holding(c) /\ pos'[c] = pos[c]
  /\ pc'[c] \in {"move_out", "release"} <=> pc[c] \in {"move_out", "release"}
  /\ got'[c] = got[c] \/ (Holding(c) /\ got'[c] = got[c] \cup {pos[c]})

Quiet ==
  /\ head' = head /\ tail' = tail
  /\ pc'[Producer] = "advance" <=> pc[Producer] = "advance"
  /\ pc'[Producer] \in {"construct", "publish", "advance"} => Placing
  /\ \A c \in Consumers : Kept(c)

LEMMA QuietStep ==
  ASSUME IInv, [Next]_vars, LearnNothing
  PROVE  Quiet
<1>0. /\ pc \in [Threads -> ProducerLabels \cup ConsumerLabels]
      /\ pc[Producer] \in ProducerLabels /\ \A c \in Consumers : pc[c] \in ConsumerLabels
      /\ pos \in [Threads -> Nat] /\ got \in [Consumers -> SUBSET (Nat \cup {Raw})]
      /\ \A c \in Consumers : pc[c] = "notify" => result[c] = pos[c]
  BY DEF IInv, TypeOK, HoldInv
<1>00. \A th \in Threads :
         /\ pc[th] \in {"publish", "advance", "release"} => pc'[th] = pc[th]
         /\ pc[th] = "load" => pc'[th] \notin {"construct", "cas"}
         /\ pc[th] = "cas" => pc'[th] # "move_out"
  BY DEF LearnNothing
<1> USE <1>0, SPMCAssumption
    DEF Quiet, Kept, Holding, Placing, Goto, Threads, ProducerLabels, ConsumerLabels
<1>1. CASE \E f \in ProducerCalls : CallEmplace(f)
  BY <1>1 DEF CallEmplace
<1>2. CASE LoadForEmplace
  BY <1>00, <1>2 DEF LoadForEmplace
<1>3. CASE Construct \/ ConstructThrows
  BY <1>3 DEF Construct, ConstructThrows
<1>4. CASE PublishSequence \/ AdvanceTail
  BY <1>00, <1>4 DEF PublishSequence, AdvanceTail
<1>5. CASE NotifyAll
  BY <1>5 DEF NotifyAll, ParkedOn
<1>6. CASE \E t \in Threads : Wait(t) \/ SpuriousUnblock(t)
  BY <1>6 DEF Wait, SpuriousUnblock
<1>7. CASE \E c \in Consumers : \E f \in ConsumerCalls : CallPop(c, f)
  BY <1>7 DEF CallPop
<1>8. CASE \E c \in Consumers : LoadForPop(c)
  BY <1>00, <1>8 DEF LoadForPop
<1>9. CASE \E c \in Consumers : ReloadHead(c) \/ ClaimFails(c)
  BY <1>9 DEF ReloadHead, ClaimFails
<1>10. CASE \E c \in Consumers : Claim(c)
  BY <1>00, <1>10 DEF Claim
<1>11. CASE \E c \in Consumers : MoveOut(c)
  BY <1>11 DEF MoveOut
<1>12. CASE \E c \in Consumers : ReleaseSlot(c)
  BY <1>00, <1>12 DEF ReleaseSlot
<1>13. CASE \E c \in Consumers : NotifyOne(c)
  <2>1. PICK c \in Consumers : NotifyOne(c) BY <1>13
  <2>2. /\ head' = head /\ tail' = tail /\ pos' = pos
        /\ pc[c] = "notify" /\ pc'[c] = "idle" /\ got'[c] = got[c] \cup {pos[c]}
        /\ \A d \in Consumers \ {c} : got'[d] = got[d]
        /\ \A t \in Threads \ {c} :
             pc'[t] = pc[t] \/ (pc[t] = "parked" /\ pc'[t] = "wait")
    BY <2>1 DEF NotifyOne, ParkedOn
  <2> QED BY <2>2
<1>14. CASE Destroy \/ UNCHANGED vars
  BY <1>14 DEF Destroy, vars
<1> QED
  BY NextCases, <1>1, <1>2, <1>3, <1>4, <1>5, <1>6, <1>7, <1>8, <1>9, <1>10, <1>11,
     <1>12, <1>13, <1>14


(* A step that tells nobody anything keeps what is known of the views.      *)
LEMMA QuietView ==
  ASSUME IInv, ViewInv, [Next]_vars, LearnNothing, UNCHANGED obsHead,
         \A th \in Threads : obsHead[th] # NoCall => pc'[th] = pc[th]
  PROVE  ViewInv'
<1>1. Quiet BY QuietStep
<1>2. UNCHANGED <<headSeen, tailSeen, slotHead, slotTail, headTail>>
  BY DEF LearnNothing, views, slotViews
<1>3. Published' = Published /\ Window' = Window
  BY <1>1 DEF Quiet, Published, Window
<1>4. \A p : Owned(p)' <=> Owned(p)
  BY <1>1 DEF Quiet, Kept, Owned, Owns, Holding
<1>5. ViewTypes' BY <1>2 DEF ViewInv, ViewTypes
<1>6. PastInv' BY <1>1, <1>2 DEF ViewInv, PastInv, Quiet
<1>7. SlotViewInv' BY <1>1, <1>2, <1>3, <1>4 DEF ViewInv, SlotViewInv, Quiet, Slot
<1>8. ProducerSees' BY <1>1, <1>2 DEF ViewInv, ProducerSees, Quiet, Placing
<1>9. ASSUME NEW c \in Consumers PROVE ConsumerSees(c)'
  <2>1. Kept(c) /\ ConsumerSees(c) BY <1>1 DEF Quiet, ViewInv
  <2> QED BY <1>2, <2>1 DEF ConsumerSees, Kept, Holding
<1>10. CallInv' BY <1>2 DEF ViewInv, CallInv
<1> QED BY <1>5, <1>6, <1>7, <1>8, <1>9, <1>10 DEF ViewInv

(* A producer that finds its slot free has seen the claim of the position a *)
(* lap before; a consumer that finds its slot full has seen the stores of   *)
(* tail_ before the item.                                                   *)
LEMMA AcquireView ==
  ASSUME IInv, ViewInv, [Next]_vars, NEW th \in Threads, Acquire(th), UNCHANGED obsHead,
         \A t \in Threads : obsHead[t] # NoCall => pc'[t] = pc[t]
  PROVE  ViewInv'
<1> DEFINE i == Slot(pos[th])
<1> USE SPMCAssumption DEF Threads
<1>1. /\ pc[th] = "load" /\ pc'[th] \in {"construct", "cas"}
      /\ headSeen' = [headSeen EXCEPT ![th] = Later(@, slotHead[i])]
      /\ tailSeen' = [tailSeen EXCEPT ![th] = Later(@, slotTail[i])]
      /\ UNCHANGED <<slotHead, slotTail, headTail>>
  BY DEF Acquire, slotViews
<1>2. (th = Producer /\ LoadForEmplace) \/ (th \in Consumers /\ LoadForPop(th))
  BY <1>1, LearningSteps
<1>3. /\ UNCHANGED <<head, tail, pos, got>> /\ \A t \in Threads \ {th} : pc'[t] = pc[t]
      /\ head \in Nat /\ tail \in Nat /\ pos \in [Threads -> Nat]
      /\ pc \in [Threads -> ProducerLabels \cup ConsumerLabels]
      /\ i \in Slots
  <2>1. /\ head \in Nat /\ tail \in Nat /\ pos \in [Threads -> Nat]
        /\ pc \in [Threads -> ProducerLabels \cup ConsumerLabels]
    BY DEF IInv, TypeOK
  <2>2. UNCHANGED <<head, tail, pos, got>>
    BY <1>2 DEF LoadForEmplace, LoadForPop
  <2>3. \E label : Goto(th, label)
    BY <1>2 DEF LoadForEmplace, LoadForPop
  <2>4. \A t \in Threads \ {th} : pc'[t] = pc[t]
    BY <2>1, <2>3 DEF Goto
  <2> QED BY <2>1, <2>2, <2>4, SlotType
<1>4. /\ headSeen[th] \in Nat /\ headSeen[th] <= head
      /\ tailSeen[th] \in Nat /\ tailSeen[th] <= tail
      /\ slotHead[i] \in Nat /\ slotHead[i] <= head
      /\ slotTail[i] \in Nat /\ slotTail[i] <= tail
  BY <1>3 DEF ViewInv, ViewTypes, PastInv
<1> HIDE DEF i
<1>5. /\ headSeen'[th] \in Nat /\ headSeen'[th] <= head
      /\ headSeen'[th] >= headSeen[th] /\ headSeen'[th] >= slotHead[i]
      /\ tailSeen'[th] \in Nat /\ tailSeen'[th] <= tail
      /\ tailSeen'[th] >= tailSeen[th] /\ tailSeen'[th] >= slotTail[i]
      /\ \A t \in Threads \ {th} : headSeen'[t] = headSeen[t] /\ tailSeen'[t] = tailSeen[t]
  BY <1>1, <1>3, <1>4 DEF ViewInv, ViewTypes, Later
<1>6. Published' = Published /\ Window' = Window
  <2>1. pc'[Producer] = "advance" <=> pc[Producer] = "advance" BY <1>1, <1>3
  <2> QED BY <1>3, <2>1 DEF Published, Window
<1>7. \A p : Owned(p)' <=> Owned(p)
  BY <1>1, <1>3 DEF Owned, Owns
<1>8. ViewTypes' BY <1>1, <1>3, <1>5 DEF ViewInv, ViewTypes
<1>9. PastInv' BY <1>1, <1>3, <1>5 DEF ViewInv, PastInv
<1>10. SlotViewInv' BY <1>1, <1>3, <1>6, <1>7 DEF ViewInv, SlotViewInv, Slot
<1>11. ProducerSees'
  <2>1. CASE th = Producer
    <3>1. LoadForEmplace /\ Filling /\ pc'[Producer] = "construct"
      <4>1. LoadForEmplace BY <1>2, <2>1
      <4> QED BY <1>1, <1>3, <2>1, <4>1 DEF Filling, LoadForEmplace, Goto
    <3>2. Same(sequence[Slot(pos[Producer])], pos[Producer])
      BY <1>3, <2>1, <3>1 DEF LoadForEmplace, Goto
    <3>3. /\ Published = tail /\ pos[Producer] = tail
          /\ tail - Capacity < head /\ ~Owned(tail - Capacity)
      BY <3>1, <3>2, ProducerReads
    <3>4. /\ tail - Capacity \in Window /\ Slot(tail - Capacity) = i
          /\ ~(tail - Capacity >= head)
      BY <1>3, <2>1, <3>3, WindowFacts DEF i
    <3>5. slotHead[i] >= tail - Capacity + 1
      BY <3>3, <3>4 DEF ViewInv, SlotViewInv
    <3>6. tailSeen'[Producer] = tail
      BY <1>3, <1>5, <2>1 DEF ViewInv, ProducerSees
    <3> QED BY <1>3, <1>4, <1>5, <2>1, <3>5, <3>6 DEF ProducerSees
  <2>2. CASE th # Producer
    BY <1>3, <1>5, <2>2 DEF ViewInv, ProducerSees, Placing
  <2> QED BY <2>1, <2>2
<1>12. ASSUME NEW c \in Consumers PROVE ConsumerSees(c)'
  <2>1. got[c] \subseteq Nat BY <1>3 DEF IInv, HistoryInv
  <2>2. ConsumerSees(c) BY DEF ViewInv
  <2>3. CASE c = th
    <3>1. LoadForPop(c) /\ InLoop(c) /\ pc'[c] = "cas" /\ ~Holding(c)'
      BY <1>1, <1>2, <2>3 DEF InLoop, Holding, LoadForPop, Goto, IInv, TypeOK
    <3>2. IsFull(sequence[Slot(pos[c])], pos[c])
      BY <1>3, <3>1 DEF LoadForPop, Goto
    <3>3. pos[c] \in Window /\ (pos[c] >= head \/ Owned(pos[c]))
      BY <3>1, <3>2, ConsumerReads
    <3>4. slotTail[i] >= pos[c]
      BY <2>3, <3>3 DEF ViewInv, SlotViewInv, i
    <3>5. pos[c] \in Nat BY <1>3
    <3>6. tailSeen'[c] >= pos'[c] BY <1>3, <1>4, <1>5, <2>3, <3>4, <3>5
    <3>7. \A v \in got'[c] : headSeen'[c] >= v + 1 /\ tailSeen'[c] >= v
      BY <1>3, <1>4, <1>5, <2>1, <2>2, <2>3 DEF ConsumerSees
    <3> QED BY <3>1, <3>6, <3>7 DEF ConsumerSees
  <2>4. CASE c # th
    BY <1>3, <1>5, <2>2, <2>4 DEF ConsumerSees, Holding
  <2> QED BY <2>3, <2>4
<1>13. CallInv'
  BY <1>1, <1>3, <1>5 DEF ViewInv, CallInv
<1> QED BY <1>8, <1>9, <1>10, <1>11, <1>12, <1>13 DEF ViewInv

(* The view of whoever stores sequence goes with it.                        *)
LEMMA PublishView ==
  ASSUME IInv, IInv', ViewInv, [Next]_vars, pc[Producer] = "publish",
         pc'[Producer] = "advance", Release(Producer), UNCHANGED obsHead,
         \A t \in Threads : obsHead[t] # NoCall => pc'[t] = pc[t]
  PROVE  ViewInv'
<1> USE SPMCAssumption DEF Threads
<1>1. /\ pos[Producer] = tail /\ PublishSequence
      /\ UNCHANGED <<head, tail, pos, got>> /\ \A c \in Consumers : pc'[c] = pc[c]
      /\ head \in Nat /\ tail \in Nat
  BY LearningSteps DEF PublishSequence, Goto, IInv, TypeOK, ProducerInv, Filling
<1>2. /\ slotHead' = [slotHead EXCEPT ![Slot(tail)] = headSeen[Producer]]
      /\ slotTail' = [slotTail EXCEPT ![Slot(tail)] = tailSeen[Producer]]
      /\ UNCHANGED <<headSeen, tailSeen, headTail>>
  BY <1>1 DEF Release
<1>3. /\ headSeen[Producer] \in Nat /\ headSeen[Producer] <= head
      /\ tailSeen[Producer] = tail /\ Slot(tail) \in Slots
  BY <1>1, SlotType DEF ViewInv, ViewTypes, PastInv, ProducerSees
<1>4. /\ Window = tail - Capacity .. tail - 1 /\ Window' = tail + 1 - Capacity .. tail
      /\ Slot(tail - Capacity) = Slot(tail) /\ tail - Capacity \in Window
      /\ head <= tail
  BY <1>1, WindowFacts DEF Published, Window, IInv, Counters
<1>5. \A p : Owned(p)' <=> Owned(p)
  BY <1>1 DEF Owned, Owns
<1>6. ViewTypes' BY <1>1, <1>2, <1>3 DEF ViewInv, ViewTypes
<1>7. PastInv' BY <1>1, <1>2, <1>3 DEF ViewInv, ViewTypes, PastInv
<1>8. SlotViewInv'
  <2> SUFFICES ASSUME NEW p \in Window'
               PROVE  IF p >= head \/ Owned(p) THEN slotTail'[Slot(p)] >= p
                      ELSE slotHead'[Slot(p)] >= p + 1
    BY <1>1, <1>5 DEF SlotViewInv, Slot
  <2>1. CASE p = tail
    <3>1. slotTail'[Slot(tail)] = tail
      BY <1>2, <1>3 DEF ViewInv, ViewTypes
    <3> QED BY <1>1, <1>4, <2>1, <3>1
  <2>2. CASE p # tail
    <3>1. p \in Window /\ p # tail - Capacity BY <1>1, <1>4, <2>2
    <3>2. Slot(p) # Slot(tail) BY <1>4, <3>1, WindowFacts
    <3>3. slotTail'[Slot(p)] = slotTail[Slot(p)] /\ slotHead'[Slot(p)] = slotHead[Slot(p)]
      BY <1>2, <3>1, <3>2, WindowFacts DEF ViewInv, ViewTypes
    <3> QED BY <3>1, <3>3 DEF ViewInv, SlotViewInv
  <2> QED BY <2>1, <2>2
<1>9. ProducerSees' BY <1>1, <1>2 DEF ViewInv, ProducerSees, Placing
<1>10. \A c \in Consumers : ConsumerSees(c)'
  BY <1>1, <1>2 DEF ViewInv, ConsumerSees, Holding
<1>11. CallInv' BY <1>2 DEF ViewInv, CallInv
<1> QED BY <1>6, <1>7, <1>8, <1>9, <1>10, <1>11 DEF ViewInv

LEMMA ReleaseView ==
  ASSUME IInv, ViewInv, [Next]_vars, NEW c \in Consumers, pc[c] = "release",
         pc'[c] = "notify", Release(c), UNCHANGED obsHead,
         \A t \in Threads : obsHead[t] # NoCall => pc'[t] = pc[t]
  PROVE  ViewInv'
<1> DEFINE q == pos[c]
<1> USE SPMCAssumption DEF Threads
<1>1. /\ UNCHANGED <<head, tail, pos, got>> /\ \A t \in Threads \ {c} : pc'[t] = pc[t]
      /\ head \in Nat /\ tail \in Nat /\ q \in Window /\ q \in Int /\ Slot(q) \in Slots /\ q < head
  BY LearningSteps, WindowFacts DEF ReleaseSlot, Goto, IInv, TypeOK, HoldInv, Holding
<1>2. /\ slotHead' = [slotHead EXCEPT ![Slot(q)] = headSeen[c]]
      /\ slotTail' = [slotTail EXCEPT ![Slot(q)] = tailSeen[c]]
      /\ UNCHANGED <<headSeen, tailSeen, headTail>>
  BY DEF Release
<1>3. /\ headSeen[c] \in Nat /\ headSeen[c] <= head /\ headSeen[c] >= q + 1
      /\ tailSeen[c] \in Nat /\ tailSeen[c] <= tail
  BY DEF ViewInv, ViewTypes, PastInv, ConsumerSees, Holding
<1>4. Published' = Published /\ Window' = Window
  <2>1. pc'[Producer] = pc[Producer] BY <1>1
  <2> QED BY <1>1, <2>1 DEF Published, Window
<1>5. \A p : Owned(p)' <=> Owned(p) /\ p # q
  <2>1. \A d \in Consumers : d # c /\ Holding(d) => pos[d] # q
    BY DEF IInv, HoldInv, Holding
  <2> QED BY <1>1, <2>1 DEF Owned, Owns, Holding
<1> HIDE DEF q
<1>6. ViewTypes' BY <1>1, <1>2, <1>3 DEF ViewInv, ViewTypes
<1>7. PastInv' BY <1>1, <1>2, <1>3 DEF ViewInv, ViewTypes, PastInv
<1>8. SlotViewInv'
  <2> SUFFICES ASSUME NEW p \in Window
               PROVE  IF p >= head \/ Owned(p)' THEN slotTail'[Slot(p)] >= p
                      ELSE slotHead'[Slot(p)] >= p + 1
    BY <1>1, <1>4 DEF SlotViewInv, Slot
  <2>1. CASE p = q
    <3>1. slotHead'[Slot(q)] = headSeen[c]
      BY <1>1, <1>2 DEF ViewInv, ViewTypes
    <3>2. ~Owned(p)' /\ ~(p >= head) BY <1>1, <1>5, <2>1
    <3> QED BY <1>3, <2>1, <3>1, <3>2
  <2>2. CASE p # q
    <3>1. Slot(p) # Slot(q) /\ Slot(p) \in Slots BY <1>1, <2>2, WindowFacts
    <3>2. slotTail'[Slot(p)] = slotTail[Slot(p)] /\ slotHead'[Slot(p)] = slotHead[Slot(p)]
      BY <1>2, <3>1 DEF ViewInv, ViewTypes
    <3> QED BY <1>5, <2>2, <3>2 DEF ViewInv, SlotViewInv
  <2> QED BY <2>1, <2>2
<1>9. ProducerSees' BY <1>1, <1>2 DEF ViewInv, ProducerSees, Placing
<1>10. ASSUME NEW d \in Consumers PROVE ConsumerSees(d)'
  <2>1. ConsumerSees(d) /\ pos' = pos /\ got' = got BY <1>1 DEF ViewInv
  <2>2. /\ pc'[d] = "cas" => pc[d] = "cas"
        /\ Holding(d)' => Holding(d)
    BY <1>1 DEF Holding
  <2> QED BY <1>2, <2>1, <2>2 DEF ConsumerSees
<1>11. CallInv' BY <1>2 DEF ViewInv, CallInv
<1> QED BY <1>6, <1>7, <1>8, <1>9, <1>10, <1>11 DEF ViewInv

(* The CAS: what it claims it has seen claimed.                             *)
LEMMA ClaimView ==
  ASSUME IInv, ViewInv, [Next]_vars, NEW c \in Consumers, ClaimHead(c), UNCHANGED obsHead,
         \A t \in Threads : obsHead[t] # NoCall => pc'[t] = pc[t]
  PROVE  ViewInv'
<1> USE SPMCAssumption DEF Threads
<1>1. /\ pc[c] = "cas" /\ pc'[c] = "move_out" /\ Claim(c)
      /\ headSeen' = [headSeen EXCEPT ![c] = head']
      /\ tailSeen' = [tailSeen EXCEPT ![c] = Later(@, headTail)]
      /\ headTail' = tailSeen'[c] /\ UNCHANGED <<slotHead, slotTail>>
  BY LearningSteps DEF ClaimHead, slotViews
<1>2. /\ head' = head + 1 /\ UNCHANGED <<tail, pos, got>>
      /\ \A t \in Threads \ {c} : pc'[t] = pc[t]
      /\ head \in Nat /\ tail \in Nat /\ pos[c] = head
  BY <1>1, ClaimFacts DEF Claim, Goto, IInv, TypeOK
<1>3. /\ tailSeen[c] \in Nat /\ tailSeen[c] <= tail /\ headTail \in Nat /\ headTail <= tail
      /\ headSeen[c] \in Nat /\ headSeen[c] <= head /\ tailSeen[c] >= pos[c]
  BY <1>1 DEF ViewInv, ViewTypes, PastInv, ConsumerSees
<1>4. /\ headSeen'[c] = head + 1
      /\ tailSeen'[c] \in Nat /\ tailSeen'[c] <= tail /\ tailSeen'[c] >= tailSeen[c]
      /\ \A t \in Threads \ {c} : headSeen'[t] = headSeen[t] /\ tailSeen'[t] = tailSeen[t]
  BY <1>1, <1>2, <1>3 DEF ViewInv, ViewTypes, Later
<1>5. Published' = Published /\ Window' = Window
  <2>1. pc'[Producer] = pc[Producer] BY <1>2
  <2> QED BY <1>2, <2>1 DEF Published, Window
<1>6. \A p \in Window : (p >= head \/ Owned(p)) <=> (p >= head' \/ Owned(p)')
  <2>1. Window \subseteq Int BY WindowFacts
  <2>2. \A p : Owned(p)' <=> Owned(p) \/ p = head
    BY <1>1, <1>2 DEF Owned, Owns
  <2> QED BY <1>2, <2>1, <2>2
<1>7. ViewTypes' BY <1>1, <1>2, <1>4 DEF ViewInv, ViewTypes
<1>8. PastInv' BY <1>1, <1>2, <1>4 DEF ViewInv, ViewTypes, PastInv
<1>9. SlotViewInv' BY <1>1, <1>5, <1>6 DEF ViewInv, SlotViewInv, Slot
<1>10. ProducerSees' BY <1>2, <1>4 DEF ViewInv, ProducerSees, Placing
<1>11. ASSUME NEW d \in Consumers PROVE ConsumerSees(d)'
  <2>1. ConsumerSees(d) BY DEF ViewInv
  <2>2. got[d] \subseteq 0 .. head - 1 BY DEF IInv, HistoryInv
  <2>3. CASE d = c
    <3>1. \A v \in got'[c] : headSeen'[c] >= v + 1 /\ tailSeen'[c] >= v
      BY <1>2, <1>3, <1>4, <2>1, <2>2, <2>3 DEF ConsumerSees
    <3>2. headSeen'[c] >= pos'[c] + 1 /\ tailSeen'[c] >= pos'[c] /\ pc'[c] # "cas"
      BY <1>1, <1>2, <1>3, <1>4
    <3> QED BY <2>3, <3>1, <3>2 DEF ConsumerSees
  <2>4. CASE d # c
    BY <1>2, <1>4, <2>1, <2>4 DEF ConsumerSees, Holding
  <2> QED BY <2>3, <2>4
<1>12. CallInv' BY <1>1, <1>4 DEF ViewInv, CallInv
<1> QED BY <1>7, <1>8, <1>9, <1>10, <1>11, <1>12 DEF ViewInv

(* The producer has always seen the whole of tail_.                         *)
LEMMA TailView ==
  ASSUME IInv, ViewInv, [Next]_vars, StoreTail, UNCHANGED obsHead,
         \A t \in Threads : obsHead[t] # NoCall => pc'[t] = pc[t]
  PROVE  ViewInv'
<1> USE SPMCAssumption DEF Threads
<1>1. /\ pc[Producer] = "advance" /\ pc'[Producer] = "notify" /\ AdvanceTail
      /\ tailSeen' = [tailSeen EXCEPT ![Producer] = tail']
      /\ UNCHANGED <<headSeen, slotHead, slotTail, headTail>>
  BY LearningSteps DEF StoreTail, slotViews
<1>2. /\ tail' = tail + 1 /\ UNCHANGED <<head, pos, got>>
      /\ \A c \in Consumers : pc'[c] = pc[c]
      /\ head \in Nat /\ tail \in Nat
  BY <1>1 DEF AdvanceTail, Goto, IInv, TypeOK, ProducerInv
<1>3. Published' = Published /\ Window' = Window
  BY <1>1, <1>2 DEF Published, Window
<1>4. \A p : Owned(p)' <=> Owned(p) BY <1>2 DEF Owned, Owns
<1>5. /\ tailSeen'[Producer] = tail'
      /\ \A c \in Consumers : tailSeen'[c] = tailSeen[c]
  BY <1>1 DEF ViewInv, ViewTypes
<1>6. ViewTypes' BY <1>1, <1>2 DEF ViewInv, ViewTypes
<1>7. PastInv' BY <1>1, <1>2, <1>5 DEF ViewInv, ViewTypes, PastInv
<1>8. SlotViewInv' BY <1>1, <1>2, <1>3, <1>4 DEF ViewInv, SlotViewInv, Slot
<1>9. ProducerSees'
  <2>1. headSeen[Producer] >= tail - Capacity + 1 /\ ~Placing'
    BY <1>1 DEF ViewInv, ProducerSees, Placing
  <2>2. headSeen[Producer] \in Nat BY DEF ViewInv, ViewTypes
  <2> QED BY <1>1, <1>2, <1>5, <2>1, <2>2 DEF ProducerSees
<1>10. \A c \in Consumers : ConsumerSees(c)'
  BY <1>1, <1>2, <1>5 DEF ViewInv, ConsumerSees, Holding
<1>11. CallInv' BY <1>1 DEF ViewInv, CallInv
<1> QED BY <1>6, <1>7, <1>8, <1>9, <1>10, <1>11 DEF ViewInv

(* The loads of size_approx leave a thread with what it was given.          *)
LEMMA LoadView ==
  ASSUME IInv, ViewInv, NEW th \in Threads, LoadHead(th) \/ LoadTail(th)
  PROVE  ViewInv'
<1> USE SPMCAssumption DEF Threads
<1>1. PICK h \in Nat, t \in Nat :
        /\ headSeen[th] <= h /\ h <= head /\ tailSeen[th] <= t /\ t <= tail
        /\ headSeen' = [headSeen EXCEPT ![th] = h] /\ tailSeen' = [tailSeen EXCEPT ![th] = t]
        /\ \/ obsHead' = [obsHead EXCEPT ![th] = h] /\ pc[th] = "idle"
           \/ obsHead' = [obsHead EXCEPT ![th] = NoCall]
  <2>0. /\ headSeen \in [Threads -> Nat] /\ tailSeen \in [Threads -> Nat]
        /\ headSeen[th] <= head /\ tailSeen[th] <= tail /\ head \in Nat /\ tail \in Nat
    BY DEF ViewInv, ViewTypes, PastInv, IInv, TypeOK
  <2>1. CASE LoadHead(th)
    <3>1. PICK h \in headSeen[th] .. head : /\ obsHead' = [obsHead EXCEPT ![th] = h]
                                            /\ headSeen' = [headSeen EXCEPT ![th] = h]
      BY <2>1 DEF LoadHead
    <3>2. h \in Nat /\ tailSeen' = [tailSeen EXCEPT ![th] = tailSeen[th]] /\ pc[th] = "idle"
      BY <2>0, <2>1, <3>1 DEF LoadHead
    <3>3. headSeen[th] <= h /\ h <= head /\ tailSeen[th] \in Nat /\ tailSeen[th] <= tailSeen[th]
      BY <2>0, <3>1
    <3> QED BY <2>0, <3>1, <3>2, <3>3
  <2>2. CASE LoadTail(th)
    <3>1. PICK t \in tailSeen[th] .. tail : tailSeen' = [tailSeen EXCEPT ![th] = t]
      BY <2>2 DEF LoadTail, TailGiven
    <3>2. t \in Nat /\ headSeen' = [headSeen EXCEPT ![th] = headSeen[th]]
      BY <2>0, <2>2, <3>1 DEF LoadTail
    <3> QED BY <2>0, <2>2, <3>1, <3>2 DEF LoadTail
  <2> QED BY <2>1, <2>2
<1>2. UNCHANGED vars /\ UNCHANGED <<slotHead, slotTail, headTail>>
  BY DEF LoadHead, LoadTail, slotViews
<1>3. UNCHANGED <<head, tail, pc, pos, got>> /\ Published' = Published /\ Window' = Window
  BY <1>2 DEF vars, Published, Window
<1>4. \A p : Owned(p)' <=> Owned(p) BY <1>3 DEF Owned, Owns
<1>5. /\ headSeen'[th] = h /\ tailSeen'[th] = t
      /\ headSeen[th] \in Nat /\ tailSeen[th] \in Nat /\ head \in Nat /\ tail \in Nat
      /\ \A u \in Threads \ {th} : headSeen'[u] = headSeen[u] /\ tailSeen'[u] = tailSeen[u]
  BY <1>1 DEF ViewInv, ViewTypes, IInv, TypeOK
<1>6. ViewTypes' BY <1>1, <1>2 DEF ViewInv, ViewTypes, NoCall
<1>7. PastInv' BY <1>1, <1>2, <1>3, <1>5 DEF ViewInv, PastInv
<1>8. SlotViewInv' BY <1>2, <1>3, <1>4 DEF ViewInv, SlotViewInv, Slot
<1>9. ProducerSees'
  <2>1. CASE th = Producer
    BY <1>1, <1>3, <1>5, <2>1 DEF ViewInv, ProducerSees, Placing
  <2>2. CASE th # Producer
    BY <1>3, <1>5, <2>2 DEF ViewInv, ProducerSees, Placing
  <2> QED BY <2>1, <2>2
<1>10. ASSUME NEW c \in Consumers PROVE ConsumerSees(c)'
  <2>1. ConsumerSees(c) /\ got[c] \subseteq Nat /\ pos[c] \in Nat
    BY <1>5 DEF ViewInv, IInv, HistoryInv, TypeOK
  <2>2. CASE c = th BY <1>1, <1>3, <1>5, <2>1, <2>2 DEF ConsumerSees, Holding
  <2>3. CASE c # th BY <1>3, <1>5, <2>1, <2>3 DEF ConsumerSees, Holding
  <2> QED BY <2>2, <2>3
<1>11. CallInv'
  <2>1. obsHead \in [Threads -> Nat \cup {NoCall}] BY DEF ViewInv, ViewTypes
  <2>2. ASSUME NEW u \in Threads, obsHead'[u] # NoCall
        PROVE  pc'[u] = "idle" /\ obsHead'[u] = headSeen'[u]
    <3>1. CASE u = th BY <1>1, <1>3, <1>5, <2>1, <2>2, <3>1
    <3>2. CASE u # th BY <1>1, <1>3, <1>5, <2>1, <2>2, <3>2 DEF ViewInv, CallInv
    <3> QED BY <3>1, <3>2
  <2> QED BY <2>2 DEF CallInv
<1> QED BY <1>6, <1>7, <1>8, <1>9, <1>10, <1>11 DEF ViewInv

(* Nobody unlearns anything, and size_approx disturbs nobody.               *)
LEMMA SizeNextInv == IInv /\ ViewInv /\ [SizeNext]_sizeVars => IInv' /\ ViewInv'
<1> SUFFICES ASSUME IInv, ViewInv, [SizeNext]_sizeVars PROVE IInv' /\ ViewInv'
  OBVIOUS
<1>1. [Next]_vars BY DEF SizeNext, QueueStep, LoadHead, LoadTail, sizeVars
<1>2. IInv' BY <1>1, NextInv
<1>3. CASE QueueStep
  <2>1. /\ UNCHANGED obsHead
        /\ \A th \in Threads : obsHead[th] # NoCall => pc'[th] = pc[th]
    BY <1>3 DEF QueueStep
  <2>2. CASE \E th \in Threads : Acquire(th)
    <3>1. PICK th \in Threads : Acquire(th) BY <2>2
    <3> QED BY <1>1, <1>2, <2>1, <3>1, AcquireView
  <2>3. CASE \E th \in Threads : Release(th)
    <3>1. PICK th \in Threads : Release(th) BY <2>3
    <3>2. \/ pc[th] = "publish" /\ pc'[th] = "advance"
          \/ pc[th] = "release" /\ pc'[th] = "notify"
      BY <3>1 DEF Release
    <3>3. CASE pc[th] = "publish" /\ pc'[th] = "advance"
      <4>1. th = Producer BY <1>1, <3>3, LearningSteps
      <4> QED BY <1>1, <1>2, <2>1, <3>1, <3>3, <4>1, PublishView
    <3>4. CASE pc[th] = "release" /\ pc'[th] = "notify"
      <4>1. th \in Consumers BY <1>1, <3>4, LearningSteps
      <4> QED BY <1>1, <1>2, <2>1, <3>1, <3>4, <4>1, ReleaseView
    <3> QED BY <3>2, <3>3, <3>4
  <2>4. CASE \E c \in Consumers : ClaimHead(c) BY <1>1, <1>2, <2>1, <2>4, ClaimView
  <2>5. CASE StoreTail BY <1>1, <1>2, <2>1, <2>5, TailView
  <2>6. CASE LearnNothing BY <1>1, <1>2, <2>1, <2>6, QuietView
  <2> QED BY <1>2, <1>3, <2>2, <2>3, <2>4, <2>5, <2>6 DEF QueueStep
<1>4. CASE \E th \in Threads : LoadHead(th) \/ LoadTail(th)
  BY <1>2, <1>4, LoadView
<1>5. CASE UNCHANGED sizeVars
  <2>1. UNCHANGED obsHead /\ UNCHANGED views /\ pc' = pc BY <1>5 DEF sizeVars, vars
  <2>2. LearnNothing BY <2>1 DEF LearnNothing
  <2> QED BY <1>1, <1>2, <2>1, <2>2, QuietView
<1> QED BY <1>3, <1>4, <1>5 DEF SizeNext

(* The invariant of the queue holds beside any number of calls of           *)
(* size_approx, and so does what is known of the views.                     *)
THEOREM SizeInvariance == SizeSpec => [](IInv /\ ViewInv)
<1>1. SizeInit => IInv /\ ViewInv
  <2> SUFFICES ASSUME SizeInit PROVE IInv /\ ViewInv OBVIOUS
  <2>0. IInv BY InitInv DEF SizeInit
  <2>1. /\ head = 0 /\ tail = 0 /\ Published = 0 /\ pc = [th \in Threads |-> "idle"]
        /\ got = [c \in Consumers |-> {}]
    BY DEF SizeInit, Init, Published, Threads
  <2>2. ViewTypes /\ PastInv /\ CallInv /\ ProducerSees
    BY <2>1, SPMCAssumption
       DEF SizeInit, ViewTypes, PastInv, CallInv, ProducerSees, Placing, NoCall, Threads
  <2>3. SlotViewInv
    BY <2>0, <2>1, SPMCAssumption, WindowFacts DEF SizeInit, SlotViewInv, Window, Owned, Owns, Threads
  <2>4. \A c \in Consumers : ConsumerSees(c)
    BY <2>1 DEF ConsumerSees, Holding, Threads
  <2> QED BY <2>0, <2>2, <2>3, <2>4 DEF ViewInv
<1>2. IInv /\ ViewInv /\ [SizeNext]_sizeVars => IInv' /\ ViewInv'
  BY SizeNextInv
<1> QED BY <1>1, <1>2, PTL DEF SizeSpec

(* To the producer size_approx answers at least what is published and       *)
(* unclaimed, and never more than capacity_.                                *)
THEOREM ProducerSizeBound == SizeSpec => []ProducerSizeBounded
<1>1. IInv /\ ViewInv => ProducerSizeBounded
  <2> SUFFICES ASSUME IInv, ViewInv, obsHead[Producer] # NoCall, NEW t \in TailGiven(Producer)
               PROVE  Size(Producer, t) \in Published - head .. Capacity
    BY DEF ProducerSizeBounded, Answers
  <2> USE SPMCAssumption DEF Threads
  <2>1. /\ pc[Producer] = "idle" /\ obsHead[Producer] = headSeen[Producer]
        /\ headSeen[Producer] \in Nat /\ headSeen[Producer] <= head
        /\ headSeen[Producer] >= tail - Capacity /\ tailSeen[Producer] = tail
    BY DEF ViewInv, ViewTypes, CallInv, PastInv, ProducerSees
  <2>2. head \in Nat /\ tail \in Nat /\ Published = tail
    BY <2>1 DEF IInv, TypeOK, Published
  <2>3. t = tail BY <2>1, <2>2 DEF TailGiven
  <2> QED BY <2>1, <2>2, <2>3 DEF Size
<1> QED BY <1>1, SizeInvariance, PTL

(* To a consumer it is off by as much as others have claimed since its own  *)
(* last item, however old the values its two loads are given.               *)
THEOREM ConsumerSizeBound == SizeSpec => []ConsumerSizeBounded
<1>1. IInv /\ ViewInv => ConsumerSizeBounded
  <2> SUFFICES ASSUME IInv, ViewInv, NEW c \in Consumers, NEW v \in got[c],
                      obsHead[c] # NoCall, NEW t \in TailGiven(c)
               PROVE  Size(c, t) \in -1 - (head - (v + 1)) .. Capacity + (head - (v + 1))
    BY DEF ConsumerSizeBounded, Answers
  <2> USE SPMCAssumption DEF Threads
  <2>1. /\ obsHead[c] = headSeen[c] /\ headSeen[c] \in Nat /\ headSeen[c] <= head
        /\ tailSeen[c] \in Nat /\ headSeen[c] >= v + 1 /\ tailSeen[c] >= v
    BY DEF ViewInv, ViewTypes, CallInv, PastInv, ConsumerSees
  <2>2. /\ head \in Nat /\ tail \in Nat /\ v \in 0 .. head - 1
        /\ tail <= Published /\ Published <= head + Capacity /\ Published \in Nat
    BY DEF IInv, TypeOK, HistoryInv, Counters, Published
  <2>3. t \in Int /\ t >= tailSeen[c] /\ t <= tail BY <2>1, <2>2 DEF TailGiven
  <2> QED BY <2>1, <2>2, <2>3 DEF Size
<1> QED BY <1>1, SizeInvariance, PTL

-----------------------------------------------------------------------------
(* The capacities the constructors yield.  Induction, over a set.           *)
LEMMA SetInduction ==
  ASSUME NEW S, 0 \in S, \A n \in Nat : n \in S => n + 1 \in S
  PROVE  \A n \in Nat : n \in S
<1> DEFINE T == {n \in Nat : n \notin S}
<1> SUFFICES ASSUME T # {} PROVE FALSE OBVIOUS
<1>1. T \subseteq Nat OBVIOUS
<1> HIDE DEF T
<1>2. PICK x \in T : \A y \in T : ~(<<y, x>> \in OpToRel(<, Nat))
  BY <1>1, NatLessThanWellFounded, WFMin
<1> USE DEF T
<1>3. x \in Nat /\ x \notin S /\ x # 0 OBVIOUS
<1>4. PICK y \in Nat : x = y + 1
  <2>1. x - 1 \in Nat /\ x = (x - 1) + 1 BY <1>3
  <2> QED BY <2>1
<1>5. y \notin S BY <1>3, <1>4
<1>6. <<y, x>> \in OpToRel(<, Nat) BY <1>3, <1>4 DEF OpToRel
<1> QED BY <1>2, <1>5, <1>6

(* The powers of two up to n, and that the recursion defines all of them.   *)
Doubling(n) == {g \in [0 .. n -> Nat] : g[0] = 1 /\ \A k \in 1 .. n : g[k] = 2 * g[k - 1]}

LEMMA DoublingExists == \A n \in Nat : Doubling(n) # {}
<1> DEFINE S == {n \in Nat : Doubling(n) # {}}
<1>1. 0 \in S
  <2> DEFINE g == [k \in 0 .. 0 |-> 1]
  <2>1. g \in [0 .. 0 -> Nat] /\ g[0] = 1 /\ \A k \in 1 .. 0 : g[k] = 2 * g[k - 1] OBVIOUS
  <2> QED BY <2>1 DEF Doubling
<1>2. ASSUME NEW n \in Nat, n \in S PROVE n + 1 \in S
  <2>1. PICK g \in [0 .. n -> Nat] : g[0] = 1 /\ \A k \in 1 .. n : g[k] = 2 * g[k - 1]
    BY <1>2 DEF Doubling
  <2> DEFINE h == [k \in 0 .. n + 1 |-> IF k = n + 1 THEN 2 * g[n] ELSE g[k]]
  <2>2. h \in [0 .. n + 1 -> Nat]
    <3>1. \A k \in 0 .. n + 1 : k # n + 1 => k \in 0 .. n OBVIOUS
    <3> QED BY <2>1, <3>1
  <2>3. h[0] = 1 BY <2>1
  <2>4. \A k \in 1 .. n + 1 : h[k] = 2 * h[k - 1]
    <3> TAKE k \in 1 .. n + 1
    <3>1. CASE k = n + 1
      <4>1. k - 1 = n /\ n \in 0 .. n + 1 /\ n # n + 1 BY <3>1
      <4> QED BY <3>1, <4>1
    <3>2. CASE k # n + 1
      <4>1. /\ k \in 1 .. n /\ k \in 0 .. n + 1
            /\ k - 1 \in 0 .. n + 1 /\ k - 1 # n + 1
        BY <3>2
      <4> QED BY <2>1, <3>2, <4>1
    <3> QED BY <3>1, <3>2
  <2> HIDE DEF h
  <2>5. h \in Doubling(n + 1) BY <2>2, <2>3, <2>4 DEF Doubling
  <2> QED BY <2>5
<1> HIDE DEF S
<1>3. \A n \in Nat : n \in S BY <1>1, <1>2, SetInduction
<1> QED BY <1>3 DEF S

LEMMA DoublingUnique ==
  ASSUME NEW n \in Nat, NEW m \in Nat, n <= m, NEW g \in Doubling(n), NEW h \in Doubling(m)
  PROVE  g[n] = h[n]
<1> DEFINE S == {k \in Nat : k <= n => g[k] = h[k]}
<1>1. /\ g[0] = 1 /\ \A k \in 1 .. n : g[k] = 2 * g[k - 1]
      /\ h[0] = 1 /\ \A k \in 1 .. m : h[k] = 2 * h[k - 1]
  BY DEF Doubling
<1>2. 0 \in S BY <1>1
<1>3. ASSUME NEW k \in Nat, k \in S PROVE k + 1 \in S
  <2> SUFFICES ASSUME k + 1 <= n PROVE g[k + 1] = h[k + 1] OBVIOUS
  <2>1. g[k] = h[k] BY <1>3
  <2>2. k + 1 \in 1 .. n /\ k + 1 \in 1 .. m /\ (k + 1) - 1 = k OBVIOUS
  <2>3. g[k + 1] = 2 * g[k] BY <1>1, <2>2
  <2>4. h[k + 1] = 2 * h[k] BY <1>1, <2>2
  <2> QED BY <2>1, <2>3, <2>4
<1> HIDE DEF S
<1>4. \A k \in Nat : k \in S BY <1>2, <1>3, SetInduction
<1> QED BY <1>4 DEF S

LEMMA TwoToFacts ==
  /\ TwoTo[0] = 1
  /\ \A k \in Nat : TwoTo[k] \in Nat /\ TwoTo[k] >= 1 /\ TwoTo[k + 1] = 2 * TwoTo[k]
<1> DEFINE G(n) == CHOOSE g \in Doubling(n) : TRUE
           F == [n \in Nat |-> G(n)[n]]
<1>1. \A n \in Nat : G(n) \in Doubling(n) BY DoublingExists
<1> HIDE DEF G
<1>2. F[0] = 1
  <2>1. G(0) \in Doubling(0) BY <1>1
  <2> QED BY <2>1 DEF Doubling
<1>3. ASSUME NEW n \in Nat, n # 0 PROVE F[n] = 2 * F[n - 1]
  <2>1. n - 1 \in Nat /\ n - 1 <= n /\ n \in 1 .. n BY <1>3
  <2>2. G(n) \in Doubling(n) /\ G(n - 1) \in Doubling(n - 1) BY <1>1, <2>1
  <2>3. G(n - 1)[n - 1] = G(n)[n - 1] BY <2>1, <2>2, DoublingUnique
  <2>4. G(n)[n] = 2 * G(n)[n - 1] BY <2>1, <2>2 DEF Doubling
  <2> QED BY <2>1, <2>3, <2>4
<1>4. F = [k \in Nat |-> IF k = 0 THEN 1 ELSE 2 * F[k - 1]]
  <2> DEFINE E == [k \in Nat |-> IF k = 0 THEN 1 ELSE 2 * F[k - 1]]
  <2>1. \A k \in Nat : F[k] = E[k] BY <1>2, <1>3
  <2>2. F = [k \in Nat |-> F[k]] OBVIOUS
  <2>3. E = [k \in Nat |-> E[k]] OBVIOUS
  <2> HIDE DEF E, F
  <2>4. F = E BY <2>1, <2>2, <2>3
  <2> QED BY <2>4 DEF E
<1> HIDE DEF F
<1>5. TwoTo = [k \in Nat |-> IF k = 0 THEN 1 ELSE 2 * TwoTo[k - 1]]
  BY <1>4, Zenon DEF TwoTo
<1>6. TwoTo[0] = 1 BY <1>5
<1>7. ASSUME NEW k \in Nat PROVE TwoTo[k + 1] = 2 * TwoTo[k]
  <2>1. k + 1 \in Nat /\ k + 1 # 0 /\ (k + 1) - 1 = k OBVIOUS
  <2> QED BY <1>5, <2>1
<1> DEFINE S == {k \in Nat : TwoTo[k] \in Nat /\ TwoTo[k] >= 1}
<1>8. 0 \in S BY <1>6
<1>9. \A k \in Nat : k \in S => k + 1 \in S BY <1>7
<1> HIDE DEF S
<1>10. \A k \in Nat : k \in S BY <1>8, <1>9, SetInduction
<1> QED BY <1>6, <1>7, <1>10 DEF S

(* Powers of two double at least from one to a larger one, and divide it.   *)
LEMMA TwoToOrder ==
  ASSUME NEW k \in Nat, NEW l \in Nat
  PROVE  /\ k < l => 2 * TwoTo[k] <= TwoTo[l]
         /\ k <= l => TwoTo[k] <= TwoTo[l]
         /\ k <= l => \E m \in Nat : TwoTo[l] = TwoTo[k] * m
<1> DEFINE a == TwoTo[k]
           S == {n \in Nat : n >= k => TwoTo[n] >= a /\ \E m \in Nat : TwoTo[n] = a * m}
           R == {n \in Nat : n > k => 2 * a <= TwoTo[n]}
<1>1. a \in Nat /\ a >= 1 BY TwoToFacts
<1>2. ASSUME NEW n \in Nat, n + 1 = k PROVE n + 1 \in S
  <2>1. TwoTo[n + 1] = a * 1 /\ TwoTo[n + 1] >= a BY <1>1, <1>2
  <2> QED BY <2>1
<1>3. 0 \in S
  <2>1. 0 >= k => k = 0 /\ a = a * 1 /\ a >= a BY <1>1
  <2> QED BY <2>1
<1>4. ASSUME NEW n \in Nat, n \in S PROVE n + 1 \in S
  <2>1. CASE n + 1 = k BY <1>2, <2>1
  <2>2. CASE n >= k
    <3>1. PICK m \in Nat : TwoTo[n] = a * m /\ TwoTo[n] >= a BY <1>4, <2>2
    <3>2. TwoTo[n + 1] = 2 * TwoTo[n] /\ TwoTo[n] \in Nat BY TwoToFacts
    <3> DEFINE b == TwoTo[n]
    <3>3. 2 * b = a * (2 * m) /\ 2 * b >= a
      <4>1. b = a * m /\ b >= a /\ b \in Nat BY <3>1, <3>2
      <4> HIDE DEF a, b
      <4> QED BY <1>1, <4>1
    <3>4. TwoTo[n + 1] = a * (2 * m) /\ TwoTo[n + 1] >= a /\ 2 * m \in Nat BY <3>2, <3>3
    <3> HIDE DEF a, b
    <3> QED BY <3>4
  <2>3. CASE n + 1 < k BY <2>3
  <2> QED BY <2>1, <2>2, <2>3
<1>5. \A n \in Nat : n \in S
  <2> HIDE DEF S
  <2> QED BY <1>3, <1>4, SetInduction
<1>6. k <= l => TwoTo[k] <= TwoTo[l] /\ \E m \in Nat : TwoTo[l] = TwoTo[k] * m
  <2>1. l \in S BY <1>5
  <2>2. TwoTo[l] \in Nat BY TwoToFacts
  <2> QED BY <1>1, <2>1, <2>2
<1>7. k < l => 2 * TwoTo[k] <= TwoTo[l]
  <2> SUFFICES ASSUME k < l PROVE 2 * TwoTo[k] <= TwoTo[l] OBVIOUS
  <2>1. PICK n \in Nat : l = n + 1 /\ n >= k
    <3>1. l - 1 \in Nat /\ l = (l - 1) + 1 /\ l - 1 >= k OBVIOUS
    <3> QED BY <3>1
  <2>2. n \in S BY <1>5
  <2>3. TwoTo[n] >= a /\ TwoTo[n] \in Nat /\ TwoTo[l] = 2 * TwoTo[n]
    BY <2>1, <2>2, TwoToFacts
  <2> QED BY <1>1, <2>3
<1> QED BY <1>6, <1>7

LEMMA PowersDivide ==
  ASSUME NEW k \in Nat, NEW l \in Nat, k <= l
  PROVE  TwoTo[l] % TwoTo[k] = 0
<1>1. TwoTo[k] \in Nat /\ TwoTo[k] > 0 BY TwoToFacts
<1>2. PICK m \in Nat : TwoTo[l] = TwoTo[k] * m BY TwoToOrder
<1>3. PICK n \in Nat : n = TwoTo[k] /\ n > 0 BY <1>1
<1>4. (n * m + 0) % n = 0
  <2>1. 0 \in 0 .. n - 1 BY <1>3
  <2> QED BY <1>3, <2>1, Residue
<1>5. n * m + 0 = n * m OBVIOUS
<1> QED BY <1>2, <1>3, <1>4, <1>5

(* bit_ceil rounds a request that some power of two exceeds by less than    *)
(* its size.                                                                *)
LEMMA BitCeilFacts ==
  ASSUME NEW bits \in Nat, NEW k \in Nat, k < bits, NEW n \in Nat, 2 <= n, n <= TwoTo[k]
  PROVE  \E j \in 0 .. k : BitCeil(n, bits) = TwoTo[j] /\ n <= TwoTo[j] /\ TwoTo[j] < 2 * n
<1> DEFINE T == {j \in Nat : TwoTo[j] >= n}
<1>1. T \subseteq Nat /\ k \in T BY TwoToFacts
<1>2. PICK j \in T : \A i \in T : ~(<<i, j>> \in OpToRel(<, Nat))
  <2>1. T \subseteq Nat /\ T # {} BY <1>1
  <2> HIDE DEF T
  <2> QED BY <2>1, NatLessThanWellFounded, WFMin
<1>3. \A i \in T : j <= i
  <2> HIDE DEF T
  <2> TAKE i \in T
  <2>1. i \in Nat /\ j \in Nat BY <1>1
  <2>2. ASSUME i < j PROVE FALSE
    <3>1. <<i, j>> \in OpToRel(<, Nat) BY <2>1, <2>2 DEF OpToRel
    <3> QED BY <1>2, <3>1
  <2> QED BY <2>1, <2>2
<1>4. j \in Nat /\ j <= k /\ TwoTo[j] >= n /\ TwoTo[j] \in Nat BY <1>1, <1>3, TwoToFacts
<1>5. n <= TwoTo[j] /\ TwoTo[j] < 2 * n
  <2>1. j # 0 BY <1>4, TwoToFacts
  <2>2. PICK i \in Nat : j = i + 1
    <3>1. j - 1 \in Nat /\ j = (j - 1) + 1 BY <1>4, <2>1
    <3> QED BY <3>1
  <2>3. TwoTo[j] = 2 * TwoTo[i] /\ TwoTo[i] \in Nat BY <2>2, TwoToFacts
  <2>4. ~(TwoTo[i] >= n) BY <1>3, <2>2
  <2> QED BY <1>4, <2>3, <2>4
<1> DEFINE P == PowersOfTwo(bits)
           Ceil(p) == p >= n /\ \A q \in P : q >= n => p <= q
<1>6. \A q \in P : q \in Nat BY TwoToFacts DEF PowersOfTwo
<1>7. TwoTo[j] \in P
  <2>1. j \in 0 .. bits - 1 BY <1>4
  <2> QED BY <2>1 DEF PowersOfTwo
<1>8. Ceil(TwoTo[j])
  <2>1. ASSUME NEW q \in P, q >= n PROVE TwoTo[j] <= q
    <3>1. PICK i \in 0 .. bits - 1 : q = TwoTo[i] BY DEF PowersOfTwo
    <3>2. i \in Nat /\ i \in T BY <2>1, <3>1
    <3>3. j <= i BY <1>3, <3>2
    <3> QED BY <1>4, <3>1, <3>2, <3>3, TwoToOrder
  <2> QED BY <1>5, <1>4, <2>1
<1>9. \A p \in P : Ceil(p) => p = TwoTo[j]
  <2> TAKE p \in P
  <2> SUFFICES ASSUME Ceil(p) PROVE p = TwoTo[j] OBVIOUS
  <2>1. p <= TwoTo[j] /\ TwoTo[j] <= p BY <1>4, <1>7, <1>8
  <2>2. p \in Nat BY <1>6
  <2> QED BY <1>4, <2>1, <2>2
<1>10. BitCeil(n, bits) = CHOOSE p \in P : Ceil(p) BY DEF BitCeil
<1> HIDE DEF Ceil, P, T
<1>11. BitCeil(n, bits) = TwoTo[j] BY <1>7, <1>8, <1>9, <1>10
<1> QED BY <1>4, <1>5, <1>11

(* Whatever the width of std::size_t, the constructors yield capacities of  *)
(* the kind the queues' modules assume, or refuse a request beyond the      *)
(* limits they state.                                                       *)
THEOREM CapacityForEveryWord == \A bits \in Nat : bits >= 2 => CapacityIsRight(bits)
<1> SUFFICES ASSUME NEW bits \in Nat, bits >= 2, NEW n \in 0 .. TwoTo[bits] - 1
             PROVE
    /\ \A c \in {SPMCCapacity(n, bits), BroadcastCapacity(n, bits), OverwriteCapacity(n, bits)} :
         c # Refused => n <= c /\ c < 2 * n /\ c >= 2 /\ TwoTo[bits] % c = 0
    /\ n \in 2 .. TwoTo[bits - 1] => Refused \notin {SPMCCapacity(n, bits), BroadcastCapacity(n, bits)}
    /\ OverwriteCapacity(n, bits) # Refused <=> n \in 2 .. TwoTo[bits - 2]
    /\ 2 * OverwriteCapacity(n, bits) <= TwoTo[bits - 1]
    /\ SPSCCapacity(n, bits) # Refused => TwoTo[bits] % n = 0
  BY DEF CapacityIsRight
<1>1. TwoTo[bits] \in Nat /\ n \in Nat BY TwoToFacts
<1>2. ASSUME NEW k \in 0 .. bits - 1
      PROVE  LET c == CheckAndRound(n, bits, TwoTo[k]) IN
        \/ c = Refused /\ n \notin 2 .. TwoTo[k]
        \/ /\ n \in 2 .. TwoTo[k] /\ c \in Nat /\ c <= TwoTo[k]
           /\ n <= c /\ c < 2 * n /\ c >= 2 /\ TwoTo[bits] % c = 0
  <2>1. k \in Nat /\ k < bits /\ TwoTo[k] \in Nat BY TwoToFacts
  <2>2. CASE n < 2 \/ n > TwoTo[k]
    <3>1. n \notin 2 .. TwoTo[k] BY <1>1, <2>1, <2>2
    <3> QED BY <2>2, <3>1 DEF CheckAndRound
  <2>3. CASE ~(n < 2 \/ n > TwoTo[k])
    <3>1. 2 <= n /\ n <= TwoTo[k] /\ n \in 2 .. TwoTo[k] BY <1>1, <2>1, <2>3
    <3>2. PICK j \in 0 .. k :
            BitCeil(n, bits) = TwoTo[j] /\ n <= TwoTo[j] /\ TwoTo[j] < 2 * n
      BY <1>1, <2>1, <3>1, BitCeilFacts
    <3>3. j \in Nat /\ j <= k /\ j <= bits /\ TwoTo[j] \in Nat BY <2>1, TwoToFacts
    <3>4. TwoTo[bits] % TwoTo[j] = 0 BY <3>3, PowersDivide
    <3>5. TwoTo[j] <= TwoTo[k] BY <2>1, <3>3, TwoToOrder
    <3>6. CheckAndRound(n, bits, TwoTo[k]) = TwoTo[j] BY <2>3, <3>2 DEF CheckAndRound
    <3>7. TwoTo[j] >= 2 BY <1>1, <3>1, <3>2, <3>3
    <3> QED BY <3>1, <3>2, <3>3, <3>4, <3>5, <3>6, <3>7
  <2> QED BY <2>2, <2>3
<1>3. bits - 1 \in 0 .. bits - 1 /\ bits - 2 \in 0 .. bits - 1 /\ bits - 1 \in Nat /\ bits - 2 \in Nat
  OBVIOUS
<1>4. PICK s : s = SPMCCapacity(n, bits) /\ s = BroadcastCapacity(n, bits)
               /\ s = CheckAndRound(n, bits, TwoTo[bits - 1])
  BY DEF SPMCCapacity, BroadcastCapacity
<1>5. PICK o : o = OverwriteCapacity(n, bits) /\ o = CheckAndRound(n, bits, TwoTo[bits - 2])
  BY DEF OverwriteCapacity
<1>6. \/ s = Refused /\ n \notin 2 .. TwoTo[bits - 1]
      \/ /\ n \in 2 .. TwoTo[bits - 1] /\ s \in Nat
         /\ n <= s /\ s < 2 * n /\ s >= 2 /\ TwoTo[bits] % s = 0
  BY <1>2, <1>3, <1>4
<1>7. \/ o = Refused /\ n \notin 2 .. TwoTo[bits - 2]
      \/ /\ n \in 2 .. TwoTo[bits - 2] /\ o \in Nat /\ o <= TwoTo[bits - 2]
         /\ n <= o /\ o < 2 * n /\ o >= 2 /\ TwoTo[bits] % o = 0
  BY <1>2, <1>3, <1>5
<1>8. Refused = 0 BY DEF Refused
<1>9. 2 * o <= TwoTo[bits - 1]
  <2>1. TwoTo[bits - 1] \in Nat /\ TwoTo[bits - 2] \in Nat BY <1>3, TwoToFacts
  <2>2. bits - 2 < bits - 1 OBVIOUS
  <2>3. 2 * TwoTo[bits - 2] <= TwoTo[bits - 1] BY <1>3, <2>2, TwoToOrder
  <2> QED BY <1>7, <1>8, <2>1, <2>3
<1>10. SPSCCapacity(n, bits) # Refused => TwoTo[bits] % n = 0
  <2> SUFFICES ASSUME SPSCCapacity(n, bits) # Refused PROVE TwoTo[bits] % n = 0 OBVIOUS
  <2>1. PICK k \in 0 .. bits - 1 : n = TwoTo[k] BY DEF SPSCCapacity, PowersOfTwo
  <2>2. k \in Nat /\ k <= bits OBVIOUS
  <2> QED BY <2>1, <2>2, PowersDivide
<1> HIDE DEF Refused
<1>11. o # Refused <=> n \in 2 .. TwoTo[bits - 2] BY <1>7, <1>8
<1> QED BY <1>4, <1>5, <1>6, <1>7, <1>8, <1>9, <1>10, <1>11

=============================================================================
