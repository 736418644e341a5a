------------------------------ MODULE SPMCQueue ------------------------------
(****************************************************************************)
(* SPMCQueue<T> of include/SPMCLockFreeQueue.h: a ring of slots, each with  *)
(* a sequence number, filled by one producer and emptied by many consumers  *)
(* that race for head_ with a compare-and-swap.                             *)
(*                                                                          *)
(* One action per access to an atomic shared between threads; steps of a    *)
(* thread on its own locals are merged into the access they follow.  The    *)
(* atomics are sequentially consistent here.  A T is named by the order in  *)
(* which it was emplaced: the n-th one, counting from 0, is the number n.   *)
(*                                                                          *)
(* Counters hold the mathematical value and every comparison the code makes *)
(* on a std::size_t is made modulo SizeRange: the code only adds constants, *)
(* copies and compares, all of which commute with taking the residue.       *)
(****************************************************************************)
EXTENDS Integers, FiniteSets

CONSTANTS
  Producer,       \* the one thread that emplaces
  Consumers,      \* the threads that pop
  Capacity,       \* capacity_, a power of two
  SizeRange,      \* how many values a std::size_t has
  Items,          \* bound: how many items are ever emplaced
  MaxLag,         \* bound: how far tail_ runs ahead of a thread inside a pop
  ProducerCalls,  \* which of try_emplace, emplace_wait the producer calls
  ConsumerCalls   \* which of try_pop, pop_wait the consumers call

Threads == Consumers \cup {Producer}

(* check_and_round_capacity returns at least 2, and both the capacity and   *)
(* the range of std::size_t are powers of two.  The last conjunct excludes  *)
(* a thread that sleeps between two of its steps while 2^63 items go by.    *)
ASSUME SPMCAssumption ==
  /\ Consumers # {} /\ Producer \notin Consumers
  /\ Capacity \in Nat /\ Capacity >= 2
  /\ SizeRange \in Nat /\ SizeRange % Capacity = 0
  /\ Items \in Nat
  /\ MaxLag \in Nat /\ MaxLag > Capacity
  /\ 2 * (MaxLag + Capacity) <= SizeRange
  /\ ProducerCalls \subseteq {"try_emplace", "emplace_wait"}
  /\ ConsumerCalls \subseteq {"try_pop", "pop_wait"}

VARIABLES
  head,      \* head_
  tail,      \* tail_
  sequence,  \* Slot::sequence of each slot
  storage,   \* Slot::storage: the item whose T is alive there, or Raw
  pc,        \* where each thread is in its call
  call,      \* the member function a thread is in
  pos,       \* the local t of the producer, h of a consumer
  seen,      \* the local seq a blocking call waits on
  result,    \* the local result of a pop
  got,       \* history: what each consumer's calls have returned
  alive      \* FALSE once ~SPMCQueue has run

queueVars == <<head, tail, sequence, storage, alive>>
vars == <<head, tail, sequence, storage, pc, call, pos, seen, result, got, alive>>

Raw  == -1
Slots == 0 .. Capacity - 1

Slot(p) == p % Capacity
Wrap(n) == n % SizeRange
Same(a, b) == Wrap(a) = Wrap(b)

(* How a consumer at position h reads sequence number s: diff = s - (h + 1) *)
(* as an unsigned number.                                                   *)
Diff(s, h)      == Wrap(s - (h + 1))
IsFull(s, h)    == Diff(s, h) = 0
IsMismatch(s, h) == Diff(s, h) # 0      \* variant: a stale h looks unwritten
IsUnwritten(s, h) == Diff(s, h) > (SizeRange - 1) \div 2

ParkedOn(i) == {th \in Threads : pc[th] = "parked" /\ Slot(pos[th]) = i}

(* A consumer whose local h may still be compared with head_ or a sequence. *)
InLoop(c) == pc[c] \in {"load", "reload", "cas", "wait", "parked"}

Goto(th, label) == pc' = [pc EXCEPT ![th] = label]

Init ==
  /\ head = 0
  /\ tail = 0
  /\ sequence = [i \in Slots |-> i]
  /\ storage = [i \in Slots |-> Raw]
  /\ pc = [th \in Threads |-> "idle"]
  /\ call = [th \in Threads |-> "none"]
  /\ pos = [th \in Threads |-> 0]
  /\ seen = [th \in Threads |-> 0]
  /\ result = [c \in Consumers |-> Raw]
  /\ got = [c \in Consumers |-> {}]
  /\ alive = TRUE

-----------------------------------------------------------------------------
(* The producer: try_emplace and emplace_wait.                              *)

(* tail_ is written by the producer only, so its load is a local step.      *)
CallEmplace(f) ==
  /\ alive /\ pc[Producer] = "idle" /\ tail < Items
  /\ \A c \in Consumers : InLoop(c) => tail - pos[c] < MaxLag
  /\ call' = [call EXCEPT ![Producer] = f]
  /\ pos' = [pos EXCEPT ![Producer] = tail]
  /\ Goto(Producer, "load")
  /\ UNCHANGED <<head, tail, sequence, storage, seen, result, got, alive>>

(* Variant: the sequence is not looked at.                                  *)
LoadForEmplaceUnchecked ==
  /\ pc[Producer] = "load"
  /\ Goto(Producer, "construct")
  /\ UNCHANGED <<head, tail, sequence, storage, call, pos, seen, result, got, alive>>

(* Load the slot's sequence: t means free.  Anything else makes try_emplace *)
(* return false and emplace_wait wait for a change.                         *)
LoadForEmplace ==
  LET s == sequence[Slot(pos[Producer])] IN
  /\ pc[Producer] = "load"
  /\ \/ /\ Same(s, pos[Producer])
        /\ Goto(Producer, "construct")
        /\ UNCHANGED seen
     \/ /\ ~Same(s, pos[Producer]) /\ call[Producer] = "try_emplace"
        /\ Goto(Producer, "idle")
        /\ UNCHANGED seen
     \/ /\ ~Same(s, pos[Producer]) /\ call[Producer] = "emplace_wait"
        /\ seen' = [seen EXCEPT ![Producer] = s]
        /\ Goto(Producer, "wait")
  /\ UNCHANGED <<head, tail, sequence, storage, call, pos, result, got, alive>>

(* slot.construct: placement new into the slot.                             *)
Construct ==
  /\ pc[Producer] = "construct"
  /\ storage' = [storage EXCEPT ![Slot(pos[Producer])] = pos[Producer]]
  /\ Goto(Producer, "publish")
  /\ UNCHANGED <<head, tail, sequence, call, pos, seen, result, got, alive>>

(* T's constructor throws: neither the sequence nor tail_ has changed.      *)
ConstructThrows ==
  /\ pc[Producer] = "construct"
  /\ Goto(Producer, "idle")
  /\ UNCHANGED <<head, tail, sequence, storage, call, pos, seen, result, got, alive>>

PublishSequence ==
  /\ pc[Producer] = "publish"
  /\ sequence' = [sequence EXCEPT ![Slot(pos[Producer])] = pos[Producer] + 1]
  /\ Goto(Producer, "advance")
  /\ UNCHANGED <<head, tail, storage, call, pos, seen, result, got, alive>>

AdvanceTail ==
  /\ pc[Producer] = "advance"
  /\ tail' = pos[Producer] + 1
  /\ Goto(Producer, "notify")
  /\ UNCHANGED <<head, sequence, storage, call, pos, seen, result, got, alive>>

(* Variant: notify_one.                                                     *)
NotifyOnlyOne ==
  LET parked == ParkedOn(Slot(pos[Producer])) IN
  /\ pc[Producer] = "notify"
  /\ \/ parked = {} /\ Goto(Producer, "idle")
     \/ \E th \in parked : pc' = [pc EXCEPT ![Producer] = "idle", ![th] = "wait"]
  /\ UNCHANGED <<head, tail, sequence, storage, call, pos, seen, result, got, alive>>

(* Variant: no notification.                                                *)
NotifyNobody ==
  /\ pc[Producer] = "notify"
  /\ Goto(Producer, "idle")
  /\ UNCHANGED <<head, tail, sequence, storage, call, pos, seen, result, got, alive>>

(* slot.sequence.notify_all(); return.                                      *)
NotifyAll ==
  LET woken == ParkedOn(Slot(pos[Producer])) IN
  /\ pc[Producer] = "notify"
  /\ pc' = [th \in Threads |-> IF th = Producer THEN "idle"
                               ELSE IF th \in woken THEN "wait" ELSE pc[th]]
  /\ UNCHANGED <<head, tail, sequence, storage, call, pos, seen, result, got, alive>>

-----------------------------------------------------------------------------
(* std::atomic::wait(seen): park if the slot's sequence still is the value  *)
(* seen, atomically with the comparison; a woken thread compares again.     *)

(* Variant: park without comparing.                                         *)
WaitUncompared(th) ==
  /\ pc[th] = "wait"
  /\ Goto(th, "parked")
  /\ UNCHANGED <<head, tail, sequence, storage, call, pos, seen, result, got, alive>>

Wait(th) ==
  LET s == sequence[Slot(pos[th])] IN
  /\ pc[th] = "wait"
  /\ \/ Same(s, seen[th]) /\ Goto(th, "parked")
     \/ ~Same(s, seen[th]) /\ Goto(th, "load")
  /\ UNCHANGED <<head, tail, sequence, storage, call, pos, seen, result, got, alive>>

(* atomic::wait may be unblocked without a notification.                    *)
SpuriousUnblock(th) ==
  /\ pc[th] = "parked"
  /\ Goto(th, "wait")
  /\ UNCHANGED <<head, tail, sequence, storage, call, pos, seen, result, got, alive>>

-----------------------------------------------------------------------------
(* The consumers: try_pop (and try_pop_expected, which wraps it), pop_wait. *)

CallPop(c, f) ==
  /\ alive /\ pc[c] = "idle"
  /\ call' = [call EXCEPT ![c] = f]
  /\ pos' = [pos EXCEPT ![c] = head]
  /\ Goto(c, "load")
  /\ UNCHANGED <<head, tail, sequence, storage, seen, result, got, alive>>

(* Load the sequence of the slot at h: full, not yet written, or h is stale.*)
LoadForPop(c) ==
  LET s == sequence[Slot(pos[c])] IN
  /\ pc[c] = "load"
  /\ \/ /\ IsFull(s, pos[c])
        /\ Goto(c, "cas")
        /\ UNCHANGED seen
     \/ /\ IsUnwritten(s, pos[c]) /\ call[c] = "try_pop"
        /\ Goto(c, "idle")
        /\ UNCHANGED seen
     \/ /\ IsUnwritten(s, pos[c]) /\ call[c] = "pop_wait"
        /\ seen' = [seen EXCEPT ![c] = s]
        /\ Goto(c, "wait")
     \/ /\ ~IsFull(s, pos[c]) /\ ~IsUnwritten(s, pos[c])
        /\ Goto(c, "reload")
        /\ UNCHANGED seen
  /\ UNCHANGED <<head, tail, sequence, storage, call, pos, result, got, alive>>

ReloadHead(c) ==
  /\ pc[c] = "reload"
  /\ pos' = [pos EXCEPT ![c] = head]
  /\ Goto(c, "load")
  /\ UNCHANGED <<head, tail, sequence, storage, call, seen, result, got, alive>>

(* Variant: a plain store of h + 1 instead of the compare-and-swap.         *)
ClaimUncompared(c) ==
  /\ pc[c] = "cas"
  /\ head' = pos[c] + 1
  /\ Goto(c, "move_out")
  /\ UNCHANGED <<tail, sequence, storage, call, pos, seen, result, got, alive>>

(* Variant: the counter runs down.                                          *)
ClaimDownwards(c) ==
  /\ pc[c] = "cas"
  /\ Same(head, pos[c])
  /\ head' = head - 1
  /\ Goto(c, "move_out")
  /\ UNCHANGED <<tail, sequence, storage, call, pos, seen, result, got, alive>>

(* compare_exchange_weak(h, h + 1) succeeds: the slot is this consumer's.   *)
Claim(c) ==
  /\ pc[c] = "cas"
  /\ Same(head, pos[c])
  /\ head' = head + 1
  /\ Goto(c, "move_out")
  /\ UNCHANGED <<tail, sequence, storage, call, pos, seen, result, got, alive>>

(* It fails, because head_ moved or spuriously: h becomes the value found.  *)
ClaimFails(c) ==
  /\ pc[c] = "cas"
  /\ pos' = [pos EXCEPT ![c] = head]
  /\ Goto(c, "load")
  /\ UNCHANGED <<head, tail, sequence, storage, call, seen, result, got, alive>>

(* slot.move_out(): move the T out, then destroy it.                        *)
MoveOut(c) ==
  /\ pc[c] = "move_out"
  /\ result' = [result EXCEPT ![c] = storage[Slot(pos[c])]]
  /\ storage' = [storage EXCEPT ![Slot(pos[c])] = Raw]
  /\ Goto(c, "release")
  /\ UNCHANGED <<head, tail, sequence, call, pos, seen, got, alive>>

(* Variant: one past the sequence the next lap waits for.                   *)
ReleaseSlotOneTooFar(c) ==
  /\ pc[c] = "release"
  /\ sequence' = [sequence EXCEPT ![Slot(pos[c])] = pos[c] + 1 + Capacity]
  /\ Goto(c, "notify")
  /\ UNCHANGED <<head, tail, storage, call, pos, seen, result, got, alive>>

ReleaseSlot(c) ==
  /\ pc[c] = "release"
  /\ sequence' = [sequence EXCEPT ![Slot(pos[c])] = pos[c] + Capacity]
  /\ Goto(c, "notify")
  /\ UNCHANGED <<head, tail, storage, call, pos, seen, result, got, alive>>

(* Variant: no notification.                                                *)
NotifyNone(c) ==
  /\ pc[c] = "notify"
  /\ Goto(c, "idle")
  /\ got' = [got EXCEPT ![c] = @ \cup {result[c]}]
  /\ result' = [result EXCEPT ![c] = Raw]
  /\ UNCHANGED <<head, tail, sequence, storage, call, pos, seen, alive>>

(* slot.sequence.notify_one(): any one of the threads parked on the slot,   *)
(* whichever call it is in; then return the result.                         *)
NotifyOne(c) ==
  LET parked == ParkedOn(Slot(pos[c])) IN
  /\ pc[c] = "notify"
  /\ \/ /\ parked = {}
        /\ Goto(c, "idle")
     \/ \E th \in parked : pc' = [pc EXCEPT ![c] = "idle", ![th] = "wait"]
  /\ got' = [got EXCEPT ![c] = @ \cup {result[c]}]
  /\ result' = [result EXCEPT ![c] = Raw]
  /\ UNCHANGED <<head, tail, sequence, storage, call, pos, seen, alive>>

-----------------------------------------------------------------------------
(* ~SPMCQueue: destroy every T still in a full slot of [head_, tail_).  The *)
(* owner runs it once every thread has left its call.                       *)
Quiescent == alive /\ \A th \in Threads : pc[th] = "idle"

(* Variants: the newest item is left out; a loop over h < tail_ instead of  *)
(* h != tail_.                                                              *)
DrainedButLast == {i \in Slots : \E p \in head .. tail - 2 :
                                   Slot(p) = i /\ Same(sequence[i], p + 1)}
DrainedByValue == {i \in Slots : \E p \in head .. tail - 1 :
                     Slot(p) = i /\ Same(sequence[i], p + 1) /\ Wrap(p) < Wrap(tail)}

Drained == {i \in Slots : \E p \in head .. tail - 1 :
                            Slot(p) = i /\ Same(sequence[i], p + 1)}

Destroy ==
  /\ Quiescent
  /\ storage' = [i \in Slots |-> IF i \in Drained THEN Raw ELSE storage[i]]
  /\ alive' = FALSE
  /\ UNCHANGED <<head, tail, sequence, pc, call, pos, seen, result, got>>

-----------------------------------------------------------------------------
ProducerStep ==
  \/ LoadForEmplace \/ Construct \/ PublishSequence \/ AdvanceTail \/ NotifyAll
  \/ Wait(Producer)

ConsumerStep(c) ==
  \/ LoadForPop(c) \/ ReloadHead(c) \/ Claim(c) \/ MoveOut(c) \/ ReleaseSlot(c)
  \/ NotifyOne(c) \/ Wait(c)

Next ==
  \/ \E f \in ProducerCalls : CallEmplace(f)
  \/ ProducerStep
  \/ ConstructThrows
  \/ \E c \in Consumers : \/ \E f \in ConsumerCalls : CallPop(c, f)
                          \/ ConsumerStep(c)
                          \/ ClaimFails(c)
  \/ \E th \in Threads : SpuriousUnblock(th)
  \/ Destroy

Spec == Init /\ [][Next]_vars

(* Threads inside a call keep running, and both sides call again: the loops *)
(* of the tests and benchmarks.  A weak compare-and-swap on an unchanged    *)
(* head_ may fail now and then but not for ever.  Nothing is assumed of     *)
(* spurious unblocking, of throwing constructors or of the destructor.      *)
Fairness ==
  /\ WF_vars(\E f \in ProducerCalls : CallEmplace(f))
  /\ WF_vars(ProducerStep)
  /\ \A c \in Consumers : /\ WF_vars(\E f \in ConsumerCalls : CallPop(c, f))
                          /\ WF_vars(ConsumerStep(c) \/ ClaimFails(c))
                          /\ SF_vars(Claim(c))

FairSpec == Spec /\ Fairness
-----------------------------------------------------------------------------
(* Properties.                                                              *)

ProducerLabels == {"idle", "load", "wait", "parked", "construct", "publish",
                   "advance", "notify"}
ConsumerLabels == {"idle", "load", "wait", "parked", "cas", "reload", "move_out",
                   "release", "notify"}

(* Every variable keeps its type, and each side stays in its own code.      *)
TypeOK ==
  /\ head \in Nat /\ tail \in Nat
  /\ sequence \in [Slots -> Nat]
  /\ storage \in [Slots -> Nat \cup {Raw}]
  /\ pc \in [Threads -> ProducerLabels \cup ConsumerLabels]
  /\ pc[Producer] \in ProducerLabels
  /\ \A c \in Consumers : pc[c] \in ConsumerLabels
  /\ call \in [Threads -> {"none", "try_emplace", "emplace_wait", "try_pop", "pop_wait"}]
  /\ pos \in [Threads -> Nat]
  /\ seen \in [Threads -> Nat]
  /\ result \in [Consumers -> Nat \cup {Raw}]
  /\ got \in [Consumers -> SUBSET (Nat \cup {Raw})]
  /\ alive \in BOOLEAN

(* How many items are visible to consumers: the producer's release store of *)
(* sequence is what publishes an item, tail_ follows one step later.        *)
Published == IF pc[Producer] = "advance" THEN tail + 1 ELSE tail

(* No two threads touch one slot's storage at the same time: a thread about *)
(* to construct or to move out is alone on its slot.  This is what makes    *)
(* the plain accesses to storage in construct() and move_out() free of      *)
(* data races.                                                              *)
AccessesStorage(th) == pc[th] \in {"construct", "move_out"}
NoDataRace ==
  \A a, b \in Threads :
    a # b /\ AccessesStorage(a) /\ AccessesStorage(b) => Slot(pos[a]) # Slot(pos[b])

(* construct() never overwrites a T that is still alive, and move_out()     *)
(* never moves from storage that holds none, nor from the wrong item.       *)
LifetimesRespected ==
  /\ pc[Producer] = "construct" => storage[Slot(pos[Producer])] = Raw
  /\ \A c \in Consumers : pc[c] = "move_out" => storage[Slot(pos[c])] = pos[c]

(* The item a consumer has claimed by its CAS and not yet returned, or Raw. *)
Taken(c) == CASE pc[c] = "move_out" -> storage[Slot(pos[c])]
              [] pc[c] \in {"release", "notify"} -> result[c]
              [] OTHER -> Raw
InHand(c) == {Taken(c)} \ {Raw}

(* "Every item must be received by exactly one consumer, with none lost or  *)
(* duplicated": the items below head_ are exactly those in the hands of a   *)
(* consumer or returned by one, and no item is in two places.               *)
ExactlyOnce ==
  /\ UNION {got[c] \cup InHand(c) : c \in Consumers} = 0 .. head - 1
  /\ \A c \in Consumers : got[c] \cap InHand(c) = {}
  /\ \A c, d \in Consumers :
       c # d => (got[c] \cup InHand(c)) \cap (got[d] \cup InHand(d)) = {}

(* try_pop's std::nullopt is linearizable: at the load on which it decides  *)
(* that the queue is empty, no item is published and unclaimed.             *)
EmptyIsTrue ==
  \A c \in Consumers :
    pc[c] = "load" /\ IsUnwritten(sequence[Slot(pos[c])], pos[c]) => head = Published

(* try_emplace's false means full: the slot it needs is still occupied by   *)
(* the item Capacity places earlier, published and not yet released.        *)
FullIsTrue ==
  pc[Producer] = "load" /\ ~Same(sequence[Slot(pos[Producer])], pos[Producer]) =>
    LET p == pos[Producer] - Capacity IN
      \/ head <= p
      \/ \E c \in Consumers : pc[c] \in {"move_out", "release"} /\ pos[c] = p

(* A parked thread whose slot is ready for it, or has gone past it.         *)
Ready(th) ==
  IF th = Producer THEN Same(sequence[Slot(pos[th])], pos[th])
                   ELSE ~IsUnwritten(sequence[Slot(pos[th])], pos[th])

(* Whoever stored that sequence has yet to notify.                          *)
ProducerNotifies(i) == pc[Producer] \in {"advance", "notify"} /\ Slot(pos[Producer]) = i
NotifyPending(i) ==
  ProducerNotifies(i) \/ \E c \in Consumers : pc[c] = "notify" /\ Slot(pos[c]) = i

(* A consumer is never left asleep on a slot that holds an item for it: the *)
(* reason notify_all is used in try_emplace and emplace_wait.               *)
ConsumersNeverStranded ==
  \A c \in Consumers : pc[c] = "parked" /\ Ready(c) => NotifyPending(Slot(pos[c]))

(* "Wake producer blocked in emplace_wait on this slot": the producer is    *)
(* never left asleep on a slot that has been freed.                         *)
ProducerNeverStranded ==
  pc[Producer] = "parked" /\ Ready(Producer) => NotifyPending(Slot(pos[Producer]))

(* The destructor destroys the Ts that are alive, every one and no other.   *)
DestructorDrains ==
  /\ Quiescent => Drained = {i \in Slots : storage[i] # Raw}
  /\ ~alive => \A i \in Slots : storage[i] = Raw

(* Refinement: the store of sequence enqueues, the CAS dequeues.            *)
WQ == INSTANCE WorkQueue WITH
        enqueued <- Published,
        dequeued <- head,
        hand <- [c \in Consumers |-> Taken(c)],
        delivered <- got
ImplementsWorkQueue == WQ!Spec

(* A call of emplace_wait returns.                                          *)
EmplaceWaitReturns ==
  pc[Producer] = "load" /\ call[Producer] = "emplace_wait" ~> pc[Producer] = "idle"

(* A published item is eventually returned by a pop, unless the queue is    *)
(* destroyed with the item inside.                                          *)
EveryItemDelivered ==
  \A v \in 0 .. Items - 1 :
    Published > v ~> (~alive \/ \E c \in Consumers : v \in got[c])
=============================================================================
