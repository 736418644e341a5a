--------------------------- MODULE SPMCSizeApprox ----------------------------
(****************************************************************************)
(* size_approx() and empty() of SPMCQueue, called by the producer and the   *)
(* consumers between their other calls; a thread that only looks is a       *)
(* consumer that has not popped yet.                                        *)
(*                                                                          *)
(* Both loads are relaxed: each may be given any value not older than what  *)
(* happens before it.  What does is what the thread has stored or claimed   *)
(* itself, what a load of size_approx was given before, and what it learns  *)
(* from the acquire load of a sequence (or the CAS on head_) whose value a  *)
(* release has put there.  The queue's own loads of head_, and of a         *)
(* sequence that is not the one waited for, are current in SPMCQueue but    *)
(* need not be: nothing is taken to be learnt from them.                    *)
(****************************************************************************)
EXTENDS SPMCQueue

VARIABLES
  headSeen,   \* per thread, the oldest head_ that a load may be given
  tailSeen,   \* per thread, the oldest tail_
  slotHead,   \* per slot, the headSeen of whoever stored sequence last, then
  slotTail,   \* the tailSeen, likewise
  headTail,   \* the tailSeen of the thread whose CAS stored head_ last, then
  obsHead     \* per thread, the local h of size_approx, or NoCall

slotViews == <<slotHead, slotTail>>
views == <<headSeen, tailSeen, slotViews, headTail>>
sizeVars == <<vars, views, obsHead>>

NoCall == -1

SizeInit ==
  /\ Init
  /\ headSeen = [th \in Threads |-> 0] /\ tailSeen = [th \in Threads |-> 0]
  /\ slotHead = [i \in Slots |-> 0] /\ slotTail = [i \in Slots |-> 0]
  /\ headTail = 0
  /\ obsHead = [th \in Threads |-> NoCall]

-----------------------------------------------------------------------------
(* What the threads learn from the steps of the queue.                      *)
Later(a, b) == IF a >= b THEN a ELSE b

(* Variant: the load of sequence is relaxed.                                *)
AcquireNothing(th) ==
  /\ pc[th] = "load" /\ pc'[th] \in {"construct", "cas"}
  /\ UNCHANGED views

(* The load of the sequence the thread is waiting for, acquire.             *)
Acquire(th) ==
  LET i == Slot(pos[th]) IN
  /\ pc[th] = "load" /\ pc'[th] \in {"construct", "cas"}
  /\ headSeen' = [headSeen EXCEPT ![th] = Later(@, slotHead[i])]
  /\ tailSeen' = [tailSeen EXCEPT ![th] = Later(@, slotTail[i])]
  /\ UNCHANGED <<slotViews, headTail>>

(* The CAS that claims, acq_rel.                                            *)
ClaimHead(c) ==
  /\ pc[c] = "cas" /\ pc'[c] = "move_out"
  /\ headSeen' = [headSeen EXCEPT ![c] = head']
  /\ tailSeen' = [tailSeen EXCEPT ![c] = Later(@, headTail)]
  /\ headTail' = tailSeen'[c]
  /\ UNCHANGED slotViews

(* The store of sequence, release.                                          *)
Release(th) ==
  /\ \/ pc[th] = "publish" /\ pc'[th] = "advance"
     \/ pc[th] = "release" /\ pc'[th] = "notify"
  /\ slotHead' = [slotHead EXCEPT ![Slot(pos[th])] = headSeen[th]]
  /\ slotTail' = [slotTail EXCEPT ![Slot(pos[th])] = tailSeen[th]]
  /\ UNCHANGED <<headSeen, tailSeen, headTail>>

(* The store of tail_, relaxed.                                             *)
StoreTail ==
  /\ pc[Producer] = "advance" /\ pc'[Producer] = "notify"
  /\ tailSeen' = [tailSeen EXCEPT ![Producer] = tail']
  /\ UNCHANGED <<headSeen, slotViews, headTail>>

(* Any other step.                                                          *)
LearnNothing ==
  /\ \A th \in Threads :
       /\ pc[th] \in {"publish", "advance", "release"} => pc'[th] = pc[th]
       /\ pc[th] = "load" => pc'[th] \notin {"construct", "cas"}
       /\ pc[th] = "cas" => pc'[th] # "move_out"
  /\ UNCHANGED views

(* A thread inside size_approx does nothing else, and the owner does not    *)
(* destroy a queue somebody is looking at.                                  *)
QueueStep ==
  /\ Next
  /\ \A th \in Threads : obsHead[th] # NoCall => pc'[th] = pc[th]
  /\ Destroy => \A th \in Threads : obsHead[th] = NoCall
  /\ \/ \E th \in Threads : Acquire(th) \/ Release(th)
     \/ \E c \in Consumers : ClaimHead(c)
     \/ StoreTail
     \/ LearnNothing
  /\ UNCHANGED obsHead

-----------------------------------------------------------------------------
(* size_approx.                                                             *)
LoadHead(th) ==
  /\ alive /\ pc[th] = "idle" /\ obsHead[th] = NoCall
  /\ \E h \in headSeen[th] .. head :
       /\ obsHead' = [obsHead EXCEPT ![th] = h]
       /\ headSeen' = [headSeen EXCEPT ![th] = h]
  /\ UNCHANGED <<vars, tailSeen, slotViews, headTail>>

(* Variant: the difference of two slot indices.                             *)
SizeMasked(th, t) == (t - obsHead[th]) % Capacity

(* t - h on std::size_t, before it wraps: -1 stands for the largest value.  *)
Size(th, t) == t - obsHead[th]

TailGiven(th) == tailSeen[th] .. tail

LoadTail(th) ==
  /\ obsHead[th] # NoCall
  /\ \E t \in TailGiven(th) : tailSeen' = [tailSeen EXCEPT ![th] = t]
  /\ obsHead' = [obsHead EXCEPT ![th] = NoCall]
  /\ UNCHANGED <<vars, headSeen, slotViews, headTail>>

SizeNext == QueueStep \/ \E th \in Threads : LoadHead(th) \/ LoadTail(th)

SizeSpec == SizeInit /\ [][SizeNext]_sizeVars

-----------------------------------------------------------------------------
(* Properties: of every answer a call in progress may get.                  *)
Answers(th) == IF obsHead[th] = NoCall THEN {} ELSE {Size(th, t) : t \in TailGiven(th)}

(* For the producer "|t - h| <= capacity_" does hold, and its size_approx   *)
(* never falls short of the number of items published and unclaimed: its    *)
(* empty() is never wrong when it says true.  That it has seen enough of    *)
(* head_ comes with the sequence it found in the slot of its last item.     *)
ProducerSizeBounded ==
  Answers(Producer) \subseteq Published - head .. Capacity

(* For a consumer the error depends on how many items others have claimed   *)
(* since its own last one, v: size_approx exceeds capacity_ by no more, and *)
(* is less than -1 by no more.  The -1 is that item itself, whose tail_ the *)
(* consumer need not see.                                                   *)
ConsumerSizeBounded ==
  \A c \in Consumers : \A v \in got[c] :
    LET others == head - (v + 1) IN Answers(c) \subseteq -1 - others .. Capacity + others
=============================================================================
