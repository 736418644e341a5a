---------------------------- MODULE LatencyRecorder --------------------------
(****************************************************************************)
(* LatencyRecorder of benchmark/LatencyRecorder.hpp, as operators on its    *)
(* two members.                                                             *)
(****************************************************************************)
EXTENDS Integers, Sequences, FiniteSets

CONSTANT Hundred   \* 100 percent: 100000 if 99.999 percent is written 99999

NoSamples == [samples |-> <<>>, sorted |-> FALSE]

Record(r, ns) == [samples |-> Append(r.samples, ns), sorted |-> FALSE]

MergeFrom(r, other) == [samples |-> r.samples \o other.samples, sorted |-> FALSE]

(* std::sort, by the place every sample ends up at.                         *)
Rank(s, i) == Cardinality({j \in DOMAIN s : s[j] < s[i] \/ (s[j] = s[i] /\ j <= i)})
Sort(s) == [k \in DOMAIN s |-> s[CHOOSE i \in DOMAIN s : Rank(s, i) = k]]

(* Variant: the flag is read the wrong way round.                           *)
EnsureSortedInverted(r) ==
  IF r.sorted THEN [samples |-> Sort(r.samples), sorted |-> TRUE] ELSE r

EnsureSorted(r) ==
  IF r.sorted THEN r ELSE [samples |-> Sort(r.samples), sorted |-> TRUE]

(* The index percentile computes for p percent of n samples: p / 100.0 * n  *)
(* rounded down, and one less where the product is a whole number that the  *)
(* floating-point division just misses.  (It cannot miss the next one above *)
(* before n nears 2^53 / Hundred.)                                          *)
Indices(p, n) ==
  LET floor == (p * n) \div Hundred
      missed == IF (p * n) % Hundred = 0 THEN {floor - 1} ELSE {}
  IN {IF i >= n THEN n - 1 ELSE i : i \in ({floor} \cup missed) \cap Nat}

(* What percentile, min_ns and max_ns may return for a recorder with        *)
(* samples.                                                                 *)
Percentile(r, p) == {EnsureSorted(r).samples[i + 1] : i \in Indices(p, Len(r.samples))}
MinNs(r) == EnsureSorted(r).samples[1]
MaxNs(r) == EnsureSorted(r).samples[Len(r.samples)]
=============================================================================
