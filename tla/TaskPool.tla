------------------------------- MODULE TaskPool ------------------------------
(****************************************************************************)
(* What ThreadPool promises: tasks start in the order in which they were    *)
(* enqueued, each one once; a task that has finished makes its future       *)
(* ready; and the pool is gone only when nothing is left to run.  Tasks are *)
(* named by their place in the order of enqueueing.                         *)
(****************************************************************************)
EXTENDS Integers

VARIABLES
  submitted,   \* how many tasks were ever enqueued
  started,     \* how many of them a worker has taken
  ready,       \* the tasks whose futures are ready
  open         \* FALSE once the pool has been destroyed

tvars == <<submitted, started, ready, open>>

Init ==
  /\ submitted = 0
  /\ started = 0
  /\ ready = {}
  /\ open = TRUE

Submit ==
  /\ open
  /\ submitted' = submitted + 1
  /\ UNCHANGED <<started, ready, open>>

Start ==
  /\ open /\ started < submitted
  /\ started' = started + 1
  /\ UNCHANGED <<submitted, ready, open>>

Finish ==
  /\ open
  /\ \E t \in 0 .. started - 1 : t \notin ready /\ ready' = ready \cup {t}
  /\ UNCHANGED <<submitted, started, open>>

Close ==
  /\ open /\ ready = 0 .. submitted - 1
  /\ open' = FALSE
  /\ UNCHANGED <<submitted, started, ready>>

Next == Submit \/ Start \/ Finish \/ Close

Spec == Init /\ [][Next]_tvars
=============================================================================
