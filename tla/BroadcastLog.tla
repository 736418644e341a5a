----------------------------- MODULE BroadcastLog ----------------------------
(****************************************************************************)
(* What SPMCBroadcastQueue promises: every consumer is handed every item,   *)
(* in the order of publication and once each, and the producer is never     *)
(* more than Capacity items ahead of the slowest consumer.  Items are named *)
(* by their place in that order.                                            *)
(****************************************************************************)
EXTENDS Integers

CONSTANTS Consumers, Capacity

VARIABLES
  published,   \* how many items were published
  consumed,    \* how many of them each consumer is done with
  handed       \* the items each consumer has been handed and is done with

bvars == <<published, consumed, handed>>

Init ==
  /\ published = 0
  /\ consumed = [c \in Consumers |-> 0]
  /\ handed = [c \in Consumers |-> {}]

Publish ==
  /\ \A c \in Consumers : published - consumed[c] < Capacity
  /\ published' = published + 1
  /\ UNCHANGED <<consumed, handed>>

Consume(c) ==
  /\ consumed[c] < published
  /\ handed' = [handed EXCEPT ![c] = @ \cup {consumed[c]}]
  /\ consumed' = [consumed EXCEPT ![c] = @ + 1]
  /\ UNCHANGED published

Next == Publish \/ \E c \in Consumers : Consume(c)

Spec == Init /\ [][Next]_bvars
=============================================================================
