-------------------------- MODULE SPMCOverwriteQueue -------------------------
(****************************************************************************)
(* SPMCOverwriteQueue<T> of include/SPMCOverwriteQueue.h: a producer that   *)
(* overwrites a ring without asking anybody, and consumers that copy items  *)
(* out under a seqlock and learn from it when they have been lapped.        *)
(*                                                                          *)
(* Every shared location has one writer, and is the set of the values       *)
(* stored in it so far, numbered in the order of the stores.  A load may be *)
(* given any of them that is not older than what happens before the load:   *)
(* what the thread was given before, and what it has learnt through fences  *)
(* and acquire loads.  A payload is a set of words that memcpy copies one   *)
(* by one, in any order; a word holds the position it was written for.  The *)
(* copies race with each other, as the header says; a racing word is either *)
(* old or new here.                                                         *)
(****************************************************************************)
EXTENDS Integers

CONSTANTS
  Consumers,
  Words,       \* the words of a T
  Capacity,    \* capacity_, a power of two
  Items        \* bound: how often publish is called

ASSUME OverwriteAssumption ==
  /\ Words # {}
  /\ Capacity \in Nat /\ Capacity >= 2
  /\ Items \in Nat

VARIABLES
  seq,        \* Slot::seq, for each slot
  data,       \* Slot::data, for each slot and word
  published,  \* published_
  writePos,   \* write_pos_
  ppc,        \* where the producer is
  toWrite,    \* the words publish has yet to copy
  thrown,     \* history: the positions whose publish threw
  pos,        \* pos_ of each consumer, 0 before make_consumer
  missed,     \* missed_
  cpc,        \* where each consumer is
  s1,         \* the local s1
  newest,     \* the parameter of lapped_to
  toRead,     \* the words try_read has yet to copy
  out,        \* the caller's out
  seqSeen,    \* per consumer and slot, the oldest seq a load may be given
  pubSeen,    \* per consumer, the oldest published_ a load may be given
  received    \* history: the contents of out whenever try_read returned Ok

producerVars == <<seq, data, published, writePos, ppc, toWrite, thrown>>
consumerVars == <<pos, missed, cpc, s1, newest, toRead, out, seqSeen, pubSeen, received>>
vars == <<producerVars, consumerVars>>

Slots == 0 .. Capacity - 1
Slot(p) == p % Capacity

(* (p << 1) | 1 is stored before p << 1 is; Busy(p) and Stable(p) number    *)
(* them in that order.                                                      *)
Busy(p)       == 2 * p - 1
Stable(p)     == 2 * p
InProgress(s) == s % 2 = 1
Position(s)   == (s + 1) \div 2

Latest(values)     == CHOOSE v \in values : \A u \in values : u <= v
Given(loc, oldest) == {v \in loc : v >= oldest}

(* Variant: without the fence between marking the slot and copying.         *)
SeqBeforeUnfenced(i, p) == {v \in seq[i] : v < Busy(p)}

(* The stores that happen before a fence of the publication of p.           *)
SeqBefore(i, p) == {v \in seq[i] : v <= Busy(p)}
PubBefore(p)    == {v \in published : v < p}

(* What consumer c must not be given anything older than, once it has       *)
(* synchronized with a fence of the publication of p.                       *)
SeqKnown(c, p) == [i \in Slots |-> Latest({seqSeen[c][i]} \cup SeqBefore(i, p))]
PubKnown(c, p) == Latest({pubSeen[c]} \cup PubBefore(p))

Init ==
  /\ seq = [i \in Slots |-> {0}]
  /\ data = [i \in Slots |-> [w \in Words |-> {0}]]
  /\ published = {0}
  /\ writePos = 0
  /\ ppc = "idle"
  /\ toWrite = {}
  /\ thrown = {}
  /\ pos = [c \in Consumers |-> 0]
  /\ missed = [c \in Consumers |-> 0]
  /\ cpc = [c \in Consumers |-> "absent"]
  /\ s1 = [c \in Consumers |-> 0]
  /\ newest = [c \in Consumers |-> 0]
  /\ toRead = [c \in Consumers |-> {}]
  /\ out = [c \in Consumers |-> [w \in Words |-> 0]]
  /\ seqSeen = [c \in Consumers |-> [i \in Slots |-> 0]]
  /\ pubSeen = [c \in Consumers |-> 0]
  /\ received = [c \in Consumers |-> {}]

-----------------------------------------------------------------------------
(* publish.                                                                 *)
MarkBusy ==
  /\ ppc = "idle" /\ writePos < Items
  /\ writePos' = writePos + 1
  /\ seq' = [seq EXCEPT ![Slot(writePos')] = @ \cup {Busy(writePos')}]
  /\ toWrite' = Words
  /\ ppc' = "construct"
  /\ UNCHANGED <<data, published, thrown, consumerVars>>

(* Constructing tmp throws: the slot stays marked, the position is spent.   *)
ConstructThrows ==
  /\ ppc = "construct"
  /\ thrown' = thrown \cup {writePos}
  /\ ppc' = "idle"
  /\ UNCHANGED <<seq, data, published, writePos, toWrite, consumerVars>>

CopyIn(w) ==
  /\ ppc \in {"construct", "copy"} /\ w \in toWrite
  /\ data' = [data EXCEPT ![Slot(writePos)][w] = @ \cup {writePos}]
  /\ toWrite' = toWrite \ {w}
  /\ ppc' = IF toWrite' = {} THEN "mark_stable" ELSE "copy"
  /\ UNCHANGED <<seq, published, writePos, thrown, consumerVars>>

(* Variant: the in-progress bit is not cleared.                             *)
MarkStableStillBusy ==
  /\ ppc = "mark_stable"
  /\ ppc' = "store_published"
  /\ UNCHANGED <<seq, data, published, writePos, toWrite, thrown, consumerVars>>

MarkStable ==
  /\ ppc = "mark_stable"
  /\ seq' = [seq EXCEPT ![Slot(writePos)] = @ \cup {Stable(writePos)}]
  /\ ppc' = "store_published"
  /\ UNCHANGED <<data, published, writePos, toWrite, thrown, consumerVars>>

StorePublished ==
  /\ ppc = "store_published"
  /\ published' = published \cup {writePos}
  /\ ppc' = "idle"
  /\ UNCHANGED <<seq, data, writePos, toWrite, thrown, consumerVars>>

-----------------------------------------------------------------------------
(* make_consumer: start behind the published_ that is loaded.               *)
MakeConsumer(c) ==
  /\ cpc[c] = "absent"
  /\ \E v \in published :
       /\ pos' = [pos EXCEPT ![c] = v + 1]
       /\ pubSeen' = [pubSeen EXCEPT ![c] = v]
  /\ cpc' = [cpc EXCEPT ![c] = "idle"]
  /\ UNCHANGED <<producerVars, missed, s1, newest, toRead, out, seqSeen, received>>

(* try_read: the acquire load of seq and what it leads to.  A stable value  *)
(* synchronizes with the fence before it, a busy one with the fences of the *)
(* position before.                                                         *)
LoadSeq(c) ==
  LET i == Slot(pos[c]) IN
  /\ cpc[c] = "idle"
  /\ \E v \in Given(seq[i], seqSeen[c][i]) :
       /\ s1' = [s1 EXCEPT ![c] = v]
       /\ seqSeen' = [seqSeen EXCEPT ![c] = [SeqKnown(c, v \div 2) EXCEPT ![i] = v]]
       /\ pubSeen' = [pubSeen EXCEPT ![c] = PubKnown(c, v \div 2)]
       /\ \/ /\ InProgress(v) \/ Position(v) < pos[c]
             /\ UNCHANGED <<cpc, newest, toRead>>
          \/ /\ ~InProgress(v) /\ Position(v) > pos[c]
             /\ newest' = [newest EXCEPT ![c] = Position(v)]
             /\ cpc' = [cpc EXCEPT ![c] = "lapped"]
             /\ UNCHANGED toRead
          \/ /\ ~InProgress(v) /\ Position(v) = pos[c]
             /\ toRead' = [toRead EXCEPT ![c] = Words]
             /\ cpc' = [cpc EXCEPT ![c] = "copy"]
             /\ UNCHANGED newest
  /\ UNCHANGED <<producerVars, pos, missed, out, received>>

CopyOut(c, w) ==
  /\ cpc[c] = "copy" /\ w \in toRead[c]
  /\ \E p \in Given(data[Slot(pos[c])][w], Position(s1[c])) :
       out' = [out EXCEPT ![c][w] = p]
  /\ toRead' = [toRead EXCEPT ![c] = @ \ {w}]
  /\ cpc' = [cpc EXCEPT ![c] = IF toRead'[c] = {} THEN "check" ELSE "copy"]
  /\ UNCHANGED <<producerVars, pos, missed, s1, newest, seqSeen, pubSeen, received>>

(* The acquire fence synchronizes with the first fence of every publication *)
(* a word was copied from; then seq is loaded again and compared.           *)
LoadSeqAgain(c) ==
  LET i == Slot(pos[c])
      p == Latest({out[c][w] : w \in Words})
  IN
  /\ cpc[c] = "check"
  /\ pubSeen' = [pubSeen EXCEPT ![c] = PubKnown(c, p)]
  /\ \E v \in Given(seq[i], SeqKnown(c, p)[i]) :
       /\ seqSeen' = [seqSeen EXCEPT ![c] = [SeqKnown(c, p) EXCEPT ![i] = v]]
       /\ \/ /\ v = s1[c]
             /\ pos' = [pos EXCEPT ![c] = @ + 1]
             /\ received' = [received EXCEPT ![c] = @ \cup {out[c]}]
             /\ cpc' = [cpc EXCEPT ![c] = "idle"]
             /\ UNCHANGED newest
          \/ /\ v # s1[c]
             /\ newest' = [newest EXCEPT ![c] = Position(v)]
             /\ cpc' = [cpc EXCEPT ![c] = "lapped"]
             /\ UNCHANGED <<pos, received>>
  /\ UNCHANGED <<producerVars, missed, s1, toRead, out>>

(* Variant: one position too new.                                           *)
OldestTooNew(pub) == IF pub > Capacity THEN pub - Capacity + 2 ELSE 1

(* lapped_to: where to resume, given the value pub of published_.           *)
Oldest(pub) == IF pub > Capacity THEN pub - Capacity + 1 ELSE 1

(* Variants: without the fallback; past newest.                             *)
TargetNoFallback(c, pub) == Oldest(pub)
TargetPastNewest(c, pub) == IF Oldest(pub) <= pos[c] THEN newest[c] + 1 ELSE Oldest(pub)

Target(c, pub) == IF Oldest(pub) <= pos[c] THEN newest[c] ELSE Oldest(pub)

LappedTo(c) ==
  /\ cpc[c] = "lapped"
  /\ \E pub \in Given(published, pubSeen[c]) :
       /\ pubSeen' = [pubSeen EXCEPT ![c] = pub]
       /\ seqSeen' = [seqSeen EXCEPT ![c] = SeqKnown(c, pub)]
       /\ LET target == IF Target(c, pub) > pos[c] THEN Target(c, pub) ELSE pos[c] IN
          /\ missed' = [missed EXCEPT ![c] = @ + (target - pos[c])]
          /\ pos' = [pos EXCEPT ![c] = target]
  /\ cpc' = [cpc EXCEPT ![c] = "idle"]
  /\ UNCHANGED <<producerVars, s1, newest, toRead, out, received>>

-----------------------------------------------------------------------------
ProducerStep == (\E w \in Words : CopyIn(w)) \/ MarkStable \/ StorePublished

ConsumerStep(c) ==
  LoadSeq(c) \/ (\E w \in Words : CopyOut(c, w)) \/ LoadSeqAgain(c) \/ LappedTo(c)

Next ==
  \/ MarkBusy \/ ConstructThrows \/ ProducerStep
  \/ \E c \in Consumers : MakeConsumer(c) \/ ConsumerStep(c)

Spec == Init /\ [][Next]_vars

(* The queue of a T whose construction does not throw.                      *)
NothrowSpec == Init /\ [][Next /\ ~ConstructThrows]_vars

-----------------------------------------------------------------------------
(* Properties.                                                              *)

(* Every variable keeps its type.                                           *)
TypeOK ==
  /\ seq \in [Slots -> SUBSET Nat]
  /\ data \in [Slots -> [Words -> SUBSET Nat]]
  /\ published \subseteq Nat
  /\ writePos \in Nat
  /\ ppc \in {"idle", "construct", "copy", "mark_stable", "store_published"}
  /\ toWrite \subseteq Words /\ thrown \subseteq Nat
  /\ pos \in [Consumers -> Nat] /\ missed \in [Consumers -> Nat]
  /\ cpc \in [Consumers -> {"absent", "idle", "copy", "check", "lapped"}]
  /\ s1 \in [Consumers -> Nat] /\ newest \in [Consumers -> Nat]
  /\ toRead \in [Consumers -> SUBSET Words]
  /\ out \in [Consumers -> [Words -> Nat]]
  /\ seqSeen \in [Consumers -> [Slots -> Nat]] /\ pubSeen \in [Consumers -> Nat]
  /\ received \in [Consumers -> SUBSET [Words -> Nat]]

(* "The seqlock must never hand out a torn payload": whatever try_read      *)
(* returned with Ok was written by a single call of publish.                *)
NoTornReads ==
  /\ TypeOK
  /\ \A c \in Consumers : \A item \in received[c] : \A v, w \in Words : item[v] = item[w]

(* "newest is always ahead of pos_ on every path that lands here": Lapped   *)
(* is never returned without moving the cursor forward.                     *)
LappedAdvances == [][\A c \in Consumers : LappedTo(c) => pos'[c] > pos[c]]_vars

(* A position whose slot has been marked for a later one.  If its publish   *)
(* threw, it has no item to overwrite, but is not to be skipped either.     *)
Overwritten(p) == Latest(seq[Slot(p)]) > Stable(p)
Skipped(c) == pos[c] .. pos'[c] - 1

(* try_read skips an item that is still in the ring only if the published_  *)
(* it went by was behind write_pos_.                                        *)
LossIsExactWhenCurrent ==
  [][\A c \in Consumers :
       LappedTo(c) /\ pubSeen'[c] = writePos => \A p \in Skipped(c) : Overwritten(p)]_vars

(* lapped_to's comment: resuming from the oldest position "loses only what  *)
(* was genuinely overwritten", if there was something to lose.              *)
LosesOnlyOverwritten ==
  [][\A c \in Consumers :
       LappedTo(c) => \A p \in Skipped(c) \ thrown : Overwritten(p)]_vars

(* "Once the producer is finished, an Empty is final": with no publish in   *)
(* progress, an unread position has its item or a later one in its slot,    *)
(* unless the publish of that position, or of a later one there, threw.     *)
EmptyIsFinal ==
  ppc = "idle" =>
    \A c \in Consumers : pos[c] \in 1 .. writePos =>
      LET s == Latest(seq[Slot(pos[c])]) IN
        /\ Position(s) >= pos[c]
        /\ InProgress(s) => Position(s) \in thrown

(* Refinement: marking the slot stable appends, the second load of seq      *)
(* receives, lapped_to skips.  A publish that throws appends an item that   *)
(* nobody will receive.                                                     *)
LL == INSTANCE LossyLog WITH
        appended <- IF ppc \in {"idle", "store_published"} THEN writePos ELSE writePos - 1,
        position <- pos,
        received <- [c \in Consumers |->
                       {p \in 1 .. writePos : [w \in Words |-> p] \in received[c]}]
ImplementsLossyLog == LL!Spec
=============================================================================
