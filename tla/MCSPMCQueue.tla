----------------------------- MODULE MCSPMCQueue -----------------------------
(* Instances of SPMCQueue for TLC, and the capacities it may be built with. *)
EXTENDS SPMCQueue, QueueCapacity, TLC

(* The consumers run the same code; safety runs treat them alike.           *)
Symmetry == Permutations(Consumers)
=============================================================================
