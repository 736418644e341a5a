------------------------------- MODULE TscClock ------------------------------
(****************************************************************************)
(* benchmark/TscClock.hpp: nanoseconds from the time stamp counter, with    *)
(* std::uint64_t as the integers below WordRange and 1'000'000'000 as       *)
(* NsPerSec.                                                                *)
(****************************************************************************)
EXTENDS Integers

CONSTANTS
  WordRange,   \* 2^64
  NsPerSec     \* nanoseconds per second

ASSUME TscAssumption ==
  /\ WordRange \in Nat /\ NsPerSec \in Nat \ {0}
  /\ NsPerSec < WordRange

Word(n) == n % WordRange

(* calibrate: cycles per second, from the cycles and the nanoseconds that   *)
(* went by during a sleep.                                                  *)
Calibrated(cycles, ns) == Word(cycles * NsPerSec) \div ns

(* to_ns: the product is cut to a word before it is divided.                *)
ToNs(hz, cycles) == Word(cycles * NsPerSec) \div hz

(* epoch_ns.                                                                *)
EpochNs(hz, epoch, cycles) == ToNs(hz, Word(cycles - epoch))
=============================================================================
