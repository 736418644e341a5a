----------------------------- MODULE TscBenchmark ----------------------------
(****************************************************************************)
(* The measured runs of benchmark/TscBenchmarkMain.cpp: a producer that     *)
(* stamps items with epoch_ns and keeps a fixed pace by it, consumers that  *)
(* subtract the stamp from their own reading, and the report of main.  The  *)
(* queue is what SPMCBroadcastQueue is shown to implement, a BroadcastLog;  *)
(* with one consumer it is also what run_benchmark has.                     *)
(*                                                                          *)
(* The counter is read by all cores alike and kept modulo the word.  A read *)
(* in the pacing loop takes at least a cycle; besides, any amount of time   *)
(* may pass between two steps, as long as no item gets older than MaxAge.   *)
(* The producer waits for go, before which nothing happens.                 *)
(****************************************************************************)
EXTENDS TscClock, LatencyRecorder, FiniteSetsExt

CONSTANTS
  Consumers,
  Capacity,      \* of the queue
  Warmup, Total, \* how many items are not measured; how many there are
  Rates,         \* the values of rate_limit_ns, 0 for none
  SpinLimit,     \* 1'000'000
  SleepCycles, SleepNs,   \* what calibrate may measure
  Epoch,         \* the counter when set_epoch reads it
  MaxAge,        \* bound: the cycles an item may spend in the queue
  Percents       \* the percentiles reported, as parts of Hundred

VARIABLES
  tsc,           \* the time stamp counter
  hz,            \* g_tsc_hz
  rate,          \* rate_limit_ns
  ppc,           \* where the producer is: "start", "pace", "publish", "left"
  nextNs,        \* next_ns
  spins,         \* spins
  item,          \* the producer's item: its stamp, and the counter it is from
  inQueue,       \* for each item in the queue, the same
  published, consumed, handed,   \* the queue
  recs,          \* recs
  merged, unmerged,   \* merged; the recorders that are not in it yet
  report,        \* what print_report was called with and prints
  wrapped        \* history: epoch_ns has gone back since the pace was last set

queueVars == <<published, consumed, handed, inQueue>>
producerVars == <<ppc, nextNs, spins, item>>
mainVars == <<merged, unmerged, report>>
vars == <<tsc, hz, rate, producerVars, queueVars, recs, mainVars, wrapped>>

Queue == INSTANCE BroadcastLog

Hz == {Calibrated(cycles, SleepNs) : cycles \in SleepCycles}
NsAt(t) == EpochNs(hz, Epoch, t)
Age(stamp) == Word(tsc - stamp.at)
(* main's joins have returned.                                             *)
Joined == ppc = "left" /\ \A c \in Consumers : consumed[c] = Total

NoItem == [ns |-> -1, at |-> -1]
NoReport == [low |-> -1, high |-> -1, at |-> [p \in Percents |-> -1]]

(* No item gets as old as what is left of a wrap of the product after the   *)
(* last nanosecond, and SpinLimit passes take as long as an interval.        *)
ASSUME BenchmarkAssumption ==
  /\ Consumers # {} /\ IsFiniteSet(Consumers)
  /\ Capacity \in Nat /\ Capacity >= 2
  /\ Warmup \in Nat /\ Total \in Nat /\ Warmup < Total
  /\ Rates \subseteq Nat /\ SpinLimit \in Nat
  /\ SleepCycles \subseteq Nat /\ SleepNs \in Nat \ {0} /\ 0 \notin Hz
  /\ Epoch \in 0 .. WordRange - 1
  /\ MaxAge \in Nat \ {0}
  /\ \A h \in Hz : NsPerSec * MaxAge + h <= WordRange
  /\ \A r \in Rates, h \in Hz : r * h <= SpinLimit * NsPerSec
  /\ Hundred \in Nat \ {0} /\ Percents \subseteq 0 .. Hundred

Init ==
  /\ tsc = Epoch
  /\ hz \in Hz
  /\ rate \in Rates
  /\ ppc = "start" /\ nextNs = 0 /\ spins = 0
  /\ item = NoItem
  /\ Queue!Init /\ inQueue = <<>>
  /\ recs = [c \in Consumers |-> NoSamples]
  /\ merged = NoSamples /\ unmerged = Consumers
  /\ report = NoReport
  /\ wrapped = FALSE

-----------------------------------------------------------------------------
(* A cycle goes by.                                                         *)
Cycle ==
  /\ tsc' = Word(tsc + 1)
  /\ \A n \in DOMAIN inQueue : Age(inQueue[n]) < MaxAge
  /\ ppc = "publish" => Age(item) < MaxAge

WrapSeen == wrapped \/ NsAt(tsc') < NsAt(tsc)

Wait ==
  /\ ~Joined
  /\ Cycle
  /\ wrapped' = WrapSeen
  /\ UNCHANGED <<hz, rate, producerVars, queueVars, recs, mainVars>>

(* The producer sets out from the present.                                  *)
Start ==
  /\ ppc = "start"
  /\ nextNs' = IF rate > 0 THEN NsAt(tsc) ELSE 0
  /\ ppc' = "pace"
  /\ UNCHANGED <<tsc, hz, rate, spins, item, queueVars, recs, mainVars, wrapped>>

(* Variant: the loop of run_benchmark, which has no bound.                  *)
KeepsSpinningUnbounded(ns) == ns < nextNs

KeepsSpinning(ns) == ns < nextNs /\ spins + 1 < SpinLimit

(* A pass of the pacing loop that does not leave it.                        *)
Spin ==
  /\ ppc = "pace" /\ rate > 0
  /\ Cycle /\ KeepsSpinning(NsAt(tsc'))
  /\ spins' = IF spins < SpinLimit THEN spins + 1 ELSE spins
  /\ wrapped' = WrapSeen
  /\ UNCHANGED <<hz, rate, ppc, nextNs, item, queueVars, recs, mainVars>>

(* Variant: the target is kept.                                             *)
TargetNotResynced(ns) == nextNs + rate

TargetAfter(ns) == (IF ns < nextNs THEN ns ELSE nextNs) + rate

(* The pass that leaves it, in time or because there were too many.         *)
StampPaced ==
  /\ ppc = "pace" /\ rate > 0
  /\ Cycle /\ ~KeepsSpinning(NsAt(tsc'))
  /\ item' = [ns |-> NsAt(tsc'), at |-> tsc']
  /\ nextNs' = TargetAfter(item'.ns)
  /\ spins' = 0
  /\ wrapped' = (WrapSeen /\ item'.ns >= nextNs)
  /\ ppc' = "publish"
  /\ UNCHANGED <<hz, rate, queueVars, recs, mainVars>>

(* Without a rate limit.                                                    *)
StampAtOnce ==
  /\ ppc = "pace" /\ rate = 0
  /\ item' = [ns |-> NsAt(tsc), at |-> tsc]
  /\ ppc' = "publish"
  /\ UNCHANGED <<tsc, hz, rate, nextNs, spins, queueVars, recs, mainVars, wrapped>>

(* The call of try_publish that succeeds.                                   *)
Publish ==
  /\ ppc = "publish"
  /\ Queue!Publish
  /\ inQueue' = Append(inQueue, item)
  /\ item' = NoItem
  /\ ppc' = IF published' = Total THEN "left" ELSE "pace"
  /\ UNCHANGED <<tsc, hz, rate, nextNs, spins, recs, mainVars, wrapped>>

-----------------------------------------------------------------------------
Oldest == Min({consumed[d] : d \in Consumers})
Received(c) == inQueue[consumed[c] - Oldest + 1]
Latency(c) == NsAt(tsc) - Received(c).ns

(* Variant: the difference is recorded whatever its sign.                   *)
MeasuredUnsigned(c) == consumed[c] >= Warmup

(* Is the item the consumer has been handed recorded?                       *)
Measured(c) == consumed[c] >= Warmup /\ Latency(c) >= 0

Consume(c) ==
  /\ Queue!Consume(c)
  /\ recs' = IF Measured(c) THEN [recs EXCEPT ![c] = Record(@, Word(Latency(c)))] ELSE recs
  /\ inQueue' = IF \A d \in Consumers : consumed'[d] > Oldest THEN Tail(inQueue) ELSE inQueue
  /\ UNCHANGED <<tsc, hz, rate, producerVars, mainVars, wrapped>>

-----------------------------------------------------------------------------
(* main joins everybody, merges the recorders one by one ...                *)
Merge(c) ==
  /\ Joined /\ c \in unmerged
  /\ merged' = MergeFrom(merged, recs[c])
  /\ unmerged' = unmerged \ {c}
  /\ UNCHANGED <<tsc, hz, rate, producerVars, queueVars, recs, report, wrapped>>

(* ... and prints; print_report sorts first, if there is anything to sort.  *)
Report ==
  /\ Joined /\ unmerged = {} /\ report = NoReport
  /\ \/ /\ merged.samples = <<>>
        /\ report' = [NoReport EXCEPT !.low = 0]
        /\ merged' = merged
     \/ /\ merged.samples # <<>>
        /\ merged' = EnsureSorted(merged)
        /\ \E at \in [Percents -> UNION {Percentile(merged', p) : p \in Percents}] :
             /\ \A p \in Percents : at[p] \in Percentile(merged', p)
             /\ report' = [low |-> MinNs(merged'), high |-> MaxNs(merged'), at |-> at]
  /\ UNCHANGED <<tsc, hz, rate, producerVars, queueVars, recs, unmerged, wrapped>>

-----------------------------------------------------------------------------
ProducerStep == Start \/ Spin \/ StampPaced \/ StampAtOnce \/ Publish

MainStep == Report \/ \E c \in Consumers : Merge(c)

Next == Wait \/ ProducerStep \/ MainStep \/ \E c \in Consumers : Consume(c)

(* Every thread keeps running.                                              *)
Fairness ==
  /\ WF_vars(ProducerStep) /\ WF_vars(MainStep)
  /\ \A c \in Consumers : WF_vars(Consume(c))

Spec == Init /\ [][Next]_vars /\ Fairness
-----------------------------------------------------------------------------
(* Properties.                                                              *)

(* The bound of the pacing loop is reached only if epoch_ns has gone back   *)
(* since the producer last set its target by a reading: a wrap of the       *)
(* product in to_ns costs one delay, not one for every later item.          *)
ResyncOnlyAfterWrap ==
  [][StampPaced /\ item'.ns < nextNs => WrapSeen]_vars

(* "Difference of two calls gives the true elapsed time": a recorded sample *)
(* is within a nanosecond of the time the item took, and a measured item is *)
(* left out only if epoch_ns has gone back in the meantime.                 *)
TrueLatency(c) == ToNs(hz, Age(Received(c)))
SamplesAreTrue ==
  [][\A c \in Consumers : Consume(c) /\ consumed[c] >= Warmup =>
       IF recs'[c] = recs[c]
         THEN NsAt(tsc) < Received(c).ns
         ELSE LET s == recs'[c].samples IN
                s[Len(s)] - TrueLatency(c) \in {0, 1}]_vars

(* What is printed are quantiles of all consumers' samples: p percent of    *)
(* them are no larger, the rest no smaller; and the extremes are those of   *)
(* some consumer.                                                           *)
AllSamples == {s \in Consumers \X (1 .. Total) : s[2] <= Len(recs[s[1]].samples)}
Ns(s) == recs[s[1]].samples[s[2]]
ReportedAreQuantiles ==
  report.high # -1 =>
    /\ \A s \in AllSamples : report.low <= Ns(s) /\ Ns(s) <= report.high
    /\ {report.low, report.high} \subseteq {Ns(s) : s \in AllSamples}
    /\ \A p \in Percents : LET v == report.at[p] IN
         /\ Hundred * Cardinality({s \in AllSamples : Ns(s) <= v})
              >= p * Cardinality(AllSamples)
         /\ Hundred * Cardinality({s \in AllSamples : Ns(s) >= v})
              >= (Hundred - p) * Cardinality(AllSamples)

(* A rate-limited run ends: the producer publishes everything, whatever     *)
(* epoch_ns does, the consumers receive it, and main gets to its report.    *)
BenchmarkEnds == <>(report # NoReport)
=============================================================================
