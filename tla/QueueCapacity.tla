----------------------------- MODULE QueueCapacity ---------------------------
(****************************************************************************)
(* The capacity the constructor of each queue in include/ ends up with when *)
(* it is asked for n, std::size_t having the given number of bits; Refused  *)
(* stands for std::invalid_argument.                                        *)
(****************************************************************************)
EXTENDS Integers

Refused == 0

TwoTo[k \in Nat] == IF k = 0 THEN 1 ELSE 2 * TwoTo[k - 1]
PowersOfTwo(bits) == {TwoTo[k] : k \in 0 .. bits - 1}

(* std::bit_ceil: the smallest power of two that is no smaller.             *)
BitCeil(n, bits) ==
  CHOOSE p \in PowersOfTwo(bits) : p >= n /\ \A q \in PowersOfTwo(bits) : q >= n => p <= q

CheckAndRound(n, bits, maxCap) ==
  IF n < 2 \/ n > maxCap THEN Refused ELSE BitCeil(n, bits)

SPMCCapacity(n, bits) == CheckAndRound(n, bits, TwoTo[bits - 1])
BroadcastCapacity(n, bits) == CheckAndRound(n, bits, TwoTo[bits - 1])
OverwriteCapacity(n, bits) == CheckAndRound(n, bits, TwoTo[bits - 2])
SPSCCapacity(n, bits) == IF n \in PowersOfTwo(bits) THEN n ELSE Refused

(* What the modules of the queues assume of their capacity, for every n:    *)
(* rounding less than doubles a request, nothing within the limits is       *)
(* refused, slots stay the same across the wrap of the positions, and a     *)
(* position of the overwrite queue has a bit to spare.                      *)
CapacityIsRight(bits) ==
  \A n \in 0 .. TwoTo[bits] - 1 :
    /\ \A c \in {SPMCCapacity(n, bits), BroadcastCapacity(n, bits), OverwriteCapacity(n, bits)} :
         c # Refused => n <= c /\ c < 2 * n /\ c >= 2 /\ TwoTo[bits] % c = 0
    /\ n \in 2 .. TwoTo[bits - 1] => Refused \notin {SPMCCapacity(n, bits), BroadcastCapacity(n, bits)}
    /\ OverwriteCapacity(n, bits) # Refused <=> n \in 2 .. TwoTo[bits - 2]
    /\ 2 * OverwriteCapacity(n, bits) <= TwoTo[bits - 1]
    /\ SPSCCapacity(n, bits) # Refused => TwoTo[bits] % n = 0

(* Checked by TLC for small words, and proved for all in SPMCQueueProofs.   *)
ASSUME SmallWords == \A bits \in 2 .. 8 : CapacityIsRight(bits)
=============================================================================
