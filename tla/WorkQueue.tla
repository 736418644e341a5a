------------------------------ MODULE WorkQueue ------------------------------
(****************************************************************************)
(* What SPMCQueue promises its users: items are handed out in the order in  *)
(* which they were enqueued, each to exactly one consumer, and at most      *)
(* Capacity of them wait at any time.  Items are named by their place in    *)
(* the order of enqueueing, so that two counters describe the queue: it     *)
(* holds dequeued .. enqueued - 1.                                          *)
(****************************************************************************)
EXTENDS Integers

CONSTANTS Consumers, Capacity

VARIABLES
  enqueued,    \* how many items were ever enqueued
  dequeued,    \* how many were ever taken
  hand,        \* the item a consumer has taken and not yet returned, or Empty
  delivered    \* the items each consumer has returned

wvars == <<enqueued, dequeued, hand, delivered>>

Empty == -1

Init ==
  /\ enqueued = 0
  /\ dequeued = 0
  /\ hand = [c \in Consumers |-> Empty]
  /\ delivered = [c \in Consumers |-> {}]

Enqueue ==
  /\ enqueued - dequeued < Capacity
  /\ enqueued' = enqueued + 1
  /\ UNCHANGED <<dequeued, hand, delivered>>

(* Take the oldest item.                                                    *)
Dequeue(c) ==
  /\ hand[c] = Empty
  /\ dequeued < enqueued
  /\ hand' = [hand EXCEPT ![c] = dequeued]
  /\ dequeued' = dequeued + 1
  /\ UNCHANGED <<enqueued, delivered>>

(* Return it: newer than everything this consumer returned before, and      *)
(* returned by nobody else.                                                 *)
Deliver(c) ==
  /\ hand[c] # Empty
  /\ \A v \in delivered[c] : v < hand[c]
  /\ \A d \in Consumers : hand[c] \notin delivered[d]
  /\ delivered' = [delivered EXCEPT ![c] = @ \cup {hand[c]}]
  /\ hand' = [hand EXCEPT ![c] = Empty]
  /\ UNCHANGED <<enqueued, dequeued>>

Next == Enqueue \/ \E c \in Consumers : Dequeue(c) \/ Deliver(c)

Spec == Init /\ [][Next]_wvars
=============================================================================
