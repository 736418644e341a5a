------------------------------- MODULE LossyLog ------------------------------
(****************************************************************************)
(* What SPMCOverwriteQueue promises: the producer appends without asking    *)
(* anybody, each consumer receives items whole and in order, and whatever   *)
(* it does not receive is counted as missed.  Items are named by their      *)
(* positions, which start at 1.                                             *)
(****************************************************************************)
EXTENDS Integers

CONSTANT Consumers

VARIABLES
  appended,    \* how many items were appended
  position,    \* the position each consumer reads next, or 0 if not created
  missed,      \* how many items each consumer was told it missed
  received     \* the items each consumer received

lvars == <<appended, position, missed, received>>

Init ==
  /\ appended = 0
  /\ position = [c \in Consumers |-> 0]
  /\ missed = [c \in Consumers |-> 0]
  /\ received = [c \in Consumers |-> {}]

Append ==
  /\ appended' = appended + 1
  /\ UNCHANGED <<position, missed, received>>

Join(c) ==
  /\ position[c] = 0
  /\ \E p \in 1 .. appended + 1 : position' = [position EXCEPT ![c] = p]
  /\ UNCHANGED <<appended, missed, received>>

Receive(c) ==
  /\ position[c] \in 1 .. appended
  /\ received' = [received EXCEPT ![c] = @ \cup {position[c]}]
  /\ position' = [position EXCEPT ![c] = @ + 1]
  /\ UNCHANGED <<appended, missed>>

(* Skip forward, to the item being appended now at the furthest.            *)
Skip(c) ==
  /\ position[c] # 0
  /\ \E p \in position[c] + 1 .. appended + 1 :
       /\ missed' = [missed EXCEPT ![c] = @ + (p - position[c])]
       /\ position' = [position EXCEPT ![c] = p]
  /\ UNCHANGED <<appended, received>>

Next == Append \/ \E c \in Consumers : Join(c) \/ Receive(c) \/ Skip(c)

Spec == Init /\ [][Next]_lvars
=============================================================================
