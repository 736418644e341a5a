# Verification of the CPP Concurrency Toolbox

TLA+ specifications of the four lock-free queues and the thread pool in
`src/include`, of the benchmarks that drive them and of the host tuning script, the TLC
runs that check them on small instances, and proofs, checked by TLAPS, that all of them
keep their safety properties for every capacity, every number of threads, every number of
items and every width of the words.  Line numbers are those of the files under `src/`.

## 1. The system

| Component | State | Operations | What makes it correct |
|---|---|---|---|
| `SPMCQueue<T>` (`SPMCLockFreeQueue.h`) | `head_`, `tail_`, a ring of slots (`sequence`, `storage`) | producer: `try_emplace`, `emplace_wait`; consumers: `try_pop`, `try_pop_expected`, `pop_wait`; anybody: `size_approx`, `empty`; constructor, destructor | every item to exactly one consumer, in order; `empty`/`full` answers true when given; no two threads in one slot's storage; the destructor destroys what is alive; no thread asleep on a slot that is ready for it |
| `SPSCQueue<T>` (`SPSCLockFreeQueue.h`) | `head`, `tail` (wrapped indices), `buffer` | `try_emplace`, `try_pop` | order, capacity - 1 items, no access of both sides to one element, although each sees the other's index late |
| `SPMCBroadcastQueue<T, N>` | `slots_`, `tail_`, one cursor per consumer, `cached_min_` | `try_publish`; `try_consume`, `try_copy` per consumer | every consumer sees every item; a slot is overwritten only after every read of it |
| `SPMCOverwriteQueue<T>` | slots (`seq`, `data`), `published_`, `write_pos_`; per consumer `pos_`, `missed_` | `publish`; `make_consumer`, `try_read` with `lapped_to` | no torn payload; items in order; what is lost is counted, and only what was overwritten is lost |
| `ThreadPool` | `tasks`, `queue_mutex`, `condition`, `workers` (`std::jthread`) | constructor, `enqueue`, worker loop, destructor | tasks start in order, once, and all of them; no task waits while every worker sleeps; construction and destruction come to an end |
| Capacity rounding (`check_and_round_capacity`, `SPSCQueue`'s constructor) | none | pure | a power of two, at least 2, not less than asked for, within the range of the positions |
| Host tuning (`scripts/tune-benchmark-host.sh`) | governor, irqbalance, minimum frequencies, C-states, RT throttling, kernel command line; state files under `/run` | apply, `--undo`, reboot in between | undo restores what was there before apply |
| `TscClock` | the calibrated frequency, the epoch | cycles to nanoseconds | the difference of two readings is the time between them |
| `LatencyRecorder` | samples, sorted flag | record, merge, percentiles | quantiles of all samples, whatever the order of calls |
| Benchmark programs (`TscBenchmarkMain.cpp`) | `go`, `done`; the producer's `next_ns` and `spins`; each consumer's `n`, `draining`, recorder | start, pace, publish, consume, drain, join, report | every run ends and accounts for every item; samples are true |

The queues and the pool do not call one another; the benchmarks compose a queue, the
clock and the recorders, and the tests call everything.  What interacts are threads,
through the atomics, the mutex and the condition variable of one object.  The hard behaviours follow from that:
interleavings of single atomic accesses; loads that return old values; local
copies of shared counters used laps later; blocking waits whose notification
reaches the wrong thread, or nobody; counters and products that wrap; constructors and moves
that throw half way.  `PROJECT.json` lists them, each at its line, with the
properties that look for them.

## 2. Modules

A specification module has the component's state as variables and one action per
access to something shared; steps on a thread's own locals are merged with the
access they follow.  An abstract module says what the component promises and is
the target of the refinement.

| Module | Models | Refines |
|---|---|---|
| `SPMCQueue` | `SPMCLockFreeQueue.h` 112-376, 393-411 | `WorkQueue` |
| `SPMCSizeApprox` (extends `SPMCQueue`) | `SPMCLockFreeQueue.h` 380-387: `size_approx`, `empty` beside all the rest | |
| `SPSCQueue` | `SPSCLockFreeQueue.h` | `WorkQueue`, one consumer, capacity - 1 |
| `SPMCBroadcastQueue` | `SPMCBroadcastQueue.h` | `BroadcastLog` |
| `SPMCOverwriteQueue` | `SPMCOverwriteQueue.h` | `LossyLog` |
| `OverwriteBenchmark` (extends `SPMCOverwriteQueue`) | `run_overwrite_benchmark`: `TscBenchmarkMain.cpp` 265-349 | |
| `ThreadPool` | `ThreadPool.h` | `TaskPool` |
| `TscClock` | `TscClock.hpp` 95-149 | |
| `LatencyRecorder` | `LatencyRecorder.hpp` | |
| `TscBenchmark` (extends `TscClock`, `LatencyRecorder`; instantiates `BroadcastLog`) | `run_broadcast_benchmark`: `TscBenchmarkMain.cpp` 87-92, 178-256 | |
| `QueueCapacity` | `check_and_round_capacity` of the three headers, `SPSCLockFreeQueue.h` 36-43 | |
| `HostTuning` | `scripts/tune-benchmark-host.sh` | |
| `MCSPMCQueue` | symmetry for TLC; brings in `QueueCapacity` | |
| `Residues` | lemmas on `%`: when two positions share a slot | |
| `SPMCQueueProofs` | theorems about `SPMCQueue`, `SPMCSizeApprox` and `QueueCapacity` | |
| `SPSCQueueProofs`, `SPMCBroadcastQueueProofs`, `ThreadPoolProofs`, `HostTuningProofs`, `TscBenchmarkProofs` | theorems about the module each is named after; the last covers the clock and the recorder too | |
| `SPMCOverwriteQueueProofs` | theorems about `SPMCOverwriteQueue` and `OverwriteBenchmark` | |

**SPMCQueue.** `head`, `tail`, `sequence`, `storage` are the members; `pc`,
`call`, `pos`, `seen`, `result` the position and the locals of each thread.
`CallEmplace`, `LoadForEmplace`, `Construct` (or `ConstructThrows`),
`PublishSequence`, `AdvanceTail`, `NotifyAll` are `try_emplace` from top to
bottom, and with `Wait` they are `emplace_wait`; `CallPop`, `LoadForPop`, `ReloadHead`,
`Claim`/`ClaimFails`, `MoveOut`, `ReleaseSlot`, `NotifyOne` are the pops.
`atomic::wait` is two steps: compare-and-park, and being unparked by a
notification or spuriously.  `notify_one` unparks any one thread parked on the
slot, whichever call it is in.  Counters hold the mathematical value and are
compared modulo `SizeRange`, which stands for 2^64: the code only adds
constants, copies and compares, and all of these commute with taking residues.
Atomics are sequentially consistent in this module.

**SPMCSizeApprox.** The two loads of `size_approx` are relaxed loads of different atomics:
`LoadHead` and `LoadTail` are given any value that is not older than what happens before
them.  That is a view, per thread, of `head_` and `tail_` (`headSeen`, `tailSeen`).  A thread
extends its own by what it stores, claims or is given in `size_approx`; the store of
`sequence`, a release, leaves the thread's view with the slot (`Release`), and whoever
finds the sequence it waits for takes it over (`Acquire`), as does a consumer whose CAS
follows another's (`ClaimHead`).  No other step teaches a thread anything.  Any thread
may call `size_approx` between its other calls, and a thread that only looks is a
consumer that has not popped yet.

**SPSCQueue, SPMCBroadcastQueue.** Every shared index has one writer and only
grows, so an acquire load is a choice among the values stored since the one this
thread was given last.  What a thread was given is also what it has
synchronized with, so the properties can speak of happens-before: the producer
may overwrite a slot only if the *value it was given* shows that the reads of
the slot are over.

**SPMCOverwriteQueue.** Each shared location is the set of the values stored in
it; a load is given any one not older than what happens before it.  The two
fences of `publish` and the acquire fence of `try_read` decide what happens
before: a thread that copied a word of publication `p` and then passes the
fence can no longer be given a `seq` older than the mark for `p`.  The payload
is copied word by word, in any order, while it may be overwritten.

**OverwriteBenchmark.** The composition of the concrete queue with the threads of
`run_overwrite_benchmark`: every step of the queue is taken inside the producer's or a
consumer's loop.  A consumer that gets `Empty` loads `done`; if it is set it drains, which
takes one more `Empty`, and then it leaves.  The acquire load of `done` is what makes the
last items visible: `SeesDone` moves up what the consumer may still be given.

**ThreadPool.** Critical sections are single steps, except that stop tokens are
not guarded by the mutex: the worker evaluates the predicate of `condition.wait`
in one step and blocks in another, holding the mutex in between.  The owner's
constructor may fail after some of the workers have started (`SpawnFails`), and
then unwinds as C++ does: `~ThreadPool` does not run, the `jthread`s are
destroyed one by one.  A task may call `enqueue`, and (in half of the initial states,
`chained`) it waits for the future of the task enqueued before it.

**TscClock, LatencyRecorder, TscBenchmark.** The counter is one number modulo the word,
read alike by every core.  `to_ns` cuts the product to a word before it divides, so that
`epoch_ns` climbs to `WordRange / hz` and starts again from 0.  Time passes in `Wait`,
and in every pass of the producer's pacing loop, which reads the counter each time.  The
queue between producer and consumers is `BroadcastLog`, which `SPMCBroadcastQueue` is
proved to implement: the benchmark uses nothing of it but what that module promises.
Percentiles are counted in parts of `Hundred`: with `Hundred` 100000, those of `print_report`,
99.999 included, are whole numbers.
`std::sort` is `Sort`, which puts every sample at its `Rank`, the number of those it does
not come before.  `Percentile` gives the set of the values `percentile` may return, since
`p / 100.0 * n` is computed in floating point.  After the joins main merges the recorders,
one `Merge` each; the model lets them come in any order, the code has that of `recs`.
`Report` sorts what was merged, once, and reads the percentiles off.

**QueueCapacity.** Operators with the width of `std::size_t` as a parameter.
`CapacityIsRight(bits)` compares them with what the queue modules assume of
`Capacity`, for all requests.  TLC evaluates it for widths of 2 to 8 bits (`SmallWords`) at
the start of every run of `MCSPMCQueue`; `CapacityForEveryWord` is about the others.
Powers of two are a recursive function, `TwoTo`, so that one can prove about them.

**HostTuning.** `pc` is the next command of the script; `host` holds the settings in
force, `boot` those after a boot; the state files under `/run`, `/etc/default/grub`, its
backup, what `update-grub` made of it and the running kernel's command line are variables of
their own.  `Abort` ends a run between any two commands (`set -e`, an interrupt), and
`Reboot` may come at any time.  A missing `FREQ_STATE_FILE` is an empty one, to which the
script reacts alike.  All CPUs share one governor, as the script assumes when it saves
that of cpu0.

A definition marked `Variant:` in a comment is not part of the specification.  It
is a plausible slip in the code next to it; substituting it for the definition it
stands before makes a property fail, which shows that the property depends on
that line of the code.  `PROJECT.json` pairs each property with one.

## 3. Runs

| Run | What it shows | Bounds |
|---|---|---|
| `SPMCQueue_safety` | All four calls with throwing constructors, spurious unblocking and destruction at any quiet moment: no data race, lifetimes, exactly one consumer per item, true `empty` and `full`, consumers woken, destructor exact, refinement of `WorkQueue` | 2 consumers, ring of 2, 4 items |
| `SPMCQueue_blocking` | `emplace_wait` against `pop_wait`: both return, every item is delivered, while the counters wrap | 1 consumer, ring of 2, `SizeRange` 10, 11 items |
| `SPMCQueue_lost_wakeup` | *violation*, see 5 | 2 consumers |
| `SPMCSizeApprox` | `size_approx` with loads as old as they may be: bounds that hold for the producer, and for a consumer that has popped | as `safety`, non-blocking calls |
| `SPSCQueue` | no race, elements intact, refinement, neither side starves | capacity 4, 7 items |
| `SPMCBroadcastQueue` | overwrites ordered after reads, references stable, refusals justified, refinement, everyone sees everything | 2 consumers, ring of 2, 6 items |
| `OverwriteBenchmark` | no torn reads, `Empty` final, `lapped_to` moves on, loss exact when `published_` is current, refinement; received and missed add up to what was published; every consumer leaves | 1 consumer, 2 words, ring of 2, 5 items |
| `SPMCOverwriteQueue_loss` | *violation*, see 5 | |
| `ThreadPool` | no idle worker beside a task, refinement of `TaskPool`, every future ready, also when tasks wait for each other | 2 workers, 2 clients, 5 tasks |
| `ThreadPool_destructor` | *violation*, see 5 | 2 workers, 1 task |
| `HostTuning` | what undo needs is on record at every moment, a complete undo restores the host after any sequence of runs, a cancelled apply has had no effect | 2 cores, 4 runs of the script, any reboots |
| `TscBenchmark` | samples are true or left out because of a wrap, the pace recovers after a wrap, the report gives quantiles of all samples, every run ends | 2 consumers, ring of 2, 1 + 2 items, word of 16, 3 ns per second, two calibrations, with and without a rate; percentiles 50, 90 and 99.99 |

Why the bounds are enough.  *Capacity* 2 is the smallest `check_and_round_capacity`
returns and the one with the most collisions; `SPSCQueue` needs 4 to tell "one
slot free" from "empty".  *Items* is at least twice the capacity, so that every
slot is used, freed, used and freed again, and a thread that slept through a lap
meets the next one; `OverwriteBenchmark` needs a fifth item for a consumer to be
lapped, resume, and be lapped again.  *Consumers*: two to race for `head_`, and
two parked on one slot; consumers of the other queues share nothing but the
producer, and the scan of `SPMCBroadcastQueue` needs two cursors that move while
it runs.  *Workers* and *tasks*: two workers and five tasks, so that one worker can be between
the halves of its wait while the other runs or sleeps, and both can be occupied while
tasks that others wait for are still queued, which an order other than the queue's turns into a deadlock.  *The
clock*: with a word of 16 the product wraps every five or six cycles, in a run of three items
several times and at any point of the producer's and the consumers' loops; `MaxAge` keeps an
item from staying in the queue for a whole wrap, or for so much of one that its end is less
than a nanosecond away: `NsPerSec * MaxAge + h <= WordRange`, with the code's numbers 6 s
(an item older than that could be handed out with a positive latency a wrap too short); and
`SpinLimit` is just enough for one interval, as 1'000'000 spins are more than 500 ns.  *Runs of
the script*: four allow apply, a reboot, apply, apply and undo, with some of them cut short.
*SizeRange* 10 with 11 items makes `std::size_t` run over in
mid-lap.  *MaxLag* keeps a thread from sleeping inside a pop for half the range of
`std::size_t`, after which the three-way comparison of line 283 cannot be right;
with 64 bits that is 2^63 items.

`CHECK_DEADLOCK FALSE` in every run: the items and tasks are bounded, and when
all of them are through nothing is left to do.  A thread that waits for ever is
what the liveness properties look for.

### Fairness

A thread inside a call keeps running, and each side calls again after a refusal:
the loops of the tests and benchmarks.  On top of that:

* `SPMCQueue`: strong fairness of `Claim`, since `compare_exchange_weak` on an unchanged `head_`
  fails now and then but not always.
* `SPSCQueue`, `SPMCBroadcastQueue`, `OverwriteBenchmark`: a load is given the latest value
  sooner or later, which the standard asks of implementations ("in a finite
  period of time"); elements do not throw for ever.  In `OverwriteBenchmark` this goes for
  the loads of `seq` and `done`; the producer publishes its items and stops, as its loop does.
* `ThreadPool`: a thread that wants the mutex gets it if it is released again and again;
  a task body returns once the future it waits for is ready.  Nobody need call `enqueue` or
  destroy the pool.
* `TscBenchmark`: weak fairness of each thread; time need not pass but where a thread reads
  the counter.

Nothing is assumed of spurious wakeups, so no property is owed to one.

## 4. Proofs

Every safety property, action property and refinement that a passing run checks is also a
theorem about its specification, for all values
of the constants that satisfy the module's `ASSUME`.  A theorem covers what the run's bounds
leave out: any capacity, any number of consumers, workers or cores, any number of items,
any word, frequency and rate, and values that are as old as a load may return.

| Module | Assumed of the constants | Theorems |
|---|---|---|
| `SPMCQueueProofs` | capacity at least 2 and a divisor of `SizeRange`, twice `MaxLag + Capacity` within `SizeRange`, some consumer | `TypeOK`, `NoDataRace`, `LifetimesRespected`, `ExactlyOnce`, `EmptyIsTrue`, `FullIsTrue`, `ConsumersNeverStranded`, `DestructorDrains`, refinement of `WorkQueue`; for `SizeSpec` `ProducerSizeBounded`, `ConsumerSizeBounded` |
| `SPMCQueueProofs`, at its end | nothing | `CapacityIsRight(bits)` for every width from 2 on |
| `SPSCQueueProofs` | capacity at least 1 | `ElementsIntact`, refinement of `WorkQueue` |
| `SPMCBroadcastQueueProofs` | at least one consumer, capacity at least 2 | `OverwriteIsOrdered`, `ReferenceIsStable`, `RefusedWhenFull`, refinement of `BroadcastLog` |
| `SPMCOverwriteQueueProofs` | a payload of at least one word, capacity at least 2; any set of consumers | `NoTornReads`, `EmptyIsFinal`, `LappedAdvances`, `LossIsExactWhenCurrent`, refinement of `LossyLog`, all of them for `Spec` and for `BenchSpec`; `LossAddsUp` for `BenchSpec` |
| `ThreadPoolProofs` | finitely many workers, at least one; any set of clients | `NoIdleWorker`, refinement of `TaskPool` |
| `HostTuningProofs` | finitely many cores | `Recoverable`, `UndoRestores`, `CancelledChangesNothing` |
| `TscBenchmarkProofs` | finitely many consumers, at least one; capacity at least 2; a frequency that is not 0; percentiles in whole parts of `Hundred`, whatever that is; items in the queue for less than a wrap; `SpinLimit` passes at least an interval | `ReportedAreQuantiles`, `ResyncOnlyAfterWrap`, `SamplesAreTrue` |

The code sees to these: `check_and_round_capacity` returns powers of two from 2 on, and
`SizeRange` stands for 2^64, so that `MaxLag` may be almost 2^63; the constructor of the
pool makes at least one worker.  That the constructors return what the queues assume is
itself proved (`CapacityForEveryWord`).

Each module is laid out alike.  None of the properties is inductive, since they speak of
what the user sees and not of how it comes about; the operator `IInv` is the strengthening
that is, a conjunction of named parts.  There is a lemma for each action, and under it a
step for each part of `IInv` the action can disturb; `Invariance` collects them.  Every
property follows from `IInv` (or from `IInv` before the step, for action properties), and a
refinement from one lemma that maps each step to a step of the abstract module or a stutter.

**Residues.**  The rings are indexed with `%`, in the code by masking.  The lemmas say that
positions in a run of `Capacity` have different residues, that adding `Capacity` keeps the
slot, and that a difference of less than half the range keeps its sign when it wraps.

**SPMCQueue.**  All of the properties rest on what a sequence number tells about its slot.
The `Capacity` positions below `Published` (tail, or one more between the store of
`sequence` and that of `tail_`) each own a slot.  `SequenceInv`: the sequence of a position
`p` is `p + 1` from publication until its consumer's release and `p + Capacity` from then
on.  `StorageInv` says the same of the storage, with the producer's construction in
progress as the exception.  `LoopInv` bounds how stale a consumer's `h` may be, and says
that what a sleeping consumer compared with was "unwritten".  `HoldInv` and
`HistoryInv` relate the items in hand and returned to `head`.  `Counters`,
`ProducerInv` and `DeadInv` are the remaining small parts.  `ConsumerReads` and
`ProducerReads` derive what each of the two comparisons in the code means: `diff == 0` that
`h` is published and not released, `diff` above half the range that `h = Published`,
`seq == t` that the slot is free.

**SPMCSizeApprox.**  `ViewInv` says what views carry.  `SlotViewInv`: a sequence that says
"full" or "claimed" comes with the stores of `tail_` before its item, one that says
"released" with the claim of the position it was released from.  Hence the producer, which
fills a slot only after it has found it released, has seen at most `Capacity` unclaimed
positions (`ProducerSees`), and a consumer what led to each item it has returned
(`ConsumerSees`).  `LearningSteps` and `QuietStep` sort the steps of the queue into those
that change a view and those that do not.

**QueueCapacity.**  `TwoToFacts` shows that the recursive definition of `TwoTo` defines a
function: for every `k` one that satisfies the equation up to `k`, by induction over the set
of such `k`, and any two of them agree.  With it powers of two are ordered (`TwoToOrder`)
and the smaller divide the larger (`PowersDivide`).  `BitCeilFacts`: what `CHOOSE` gets has
`n <= 2^k < 2n`, as `2^(k-1)` would do otherwise.

**SPSCQueue.**  `CountInv` is the argument for wrapped indices: what either side knows of the
other is behind it, and `pushed < seenPops + Capacity`, hence equal indices can only mean
equal counts.  `BufferInv` says which elements hold an item, in terms of the counts.

**SPMCBroadcastQueue.**  `CursorInv`: `cachedMin <= cursorSeen[c] <= cursor[c] <= tail <=
cachedMin + Capacity`, so that a write that passes the test against the cached minimum is
ordered after every read.  `ScanInv` is the loop invariant of the scan: the minimum so far is
one of the values loaded and not above any of them.  That the cursors move during the scan
does no harm, as they only grow.

**SPMCOverwriteQueue.**  The marks in a slot's `seq` are `Busy(p)` and `Stable(p)` for the
slot's own positions (`SeqInv`), and a word of publication `p` is stored only after `Busy(p)`
(`DataInv`).  `CopyInv` is about a copy in progress: the words copied are not older than the
position, and the slot was marked for each of them.  `SecondLoad` is the seqlock's argument:
if a word was newer, the fence makes the second load return its mark or a later value, so
that a load equal to the first proves that all words are of one publication.  `LappedInv`
gives that lapped_to moves on, and `ExactLoss` that nothing intact is skipped when
`published_` is current: the producer is then at most marking the slot of one position.
`Latest` takes the maximum of a set; that it exists, `LatestFacts`, comes from the
well-foundedness of `<` on the naturals.

**OverwriteBenchmark.**  `BenchInv` adds the loops.  `CountInv`: `start + received +
missed` is the position, which needs that an item received is a new one, hence the clause of
`ReadInv` that places every item received below `pos`.  `DrainInv`: a consumer that has seen
`done` is given the latest mark of every slot from then on; `EmptyAtEnd` derives that an
`Empty` then means the end, unless a slot was left marked.  The theorems of the queue are
proved for `Spec` and, through `InUse`, for `BenchSpec`: the benchmark keeps the queue's
invariant because its steps are steps of the queue.

**ThreadPool.**  `WakeInv`: while somebody waits, each task is matched by a worker that will
look at the queue or a notification that is on its way, and a worker about to block has the
mutex and has seen the queue empty.  Pushing and taking a task change
both sides of the inequality by one, and a notification that wakes a worker turns one of
the sum's terms into the other.  A queue that is not empty has a worker
alive, since a worker leaves only on an empty queue, and only a task that runs, on a worker, can push
after that.  `TaskInv`: a task before the queue's front has finished or is run by exactly
one worker.  Both hold through construction that fails half way and through destruction.

**HostTuning.**  There is one part per step of the script, which says what each value of `pc`
implies of the settings, the files and the boot; a run may be cut short anywhere, hence "not
as at boot" must imply "on record" at every `pc`.  `dropped` excepts the floors whose record
a second apply has deleted (section 5).

**TscBenchmark.**  The clock first.  Quotients keep the order, and the quotient of a sum is
that of the summands or one more (`QuotientOrder`, `QuotientSum`); residues of sums and
products do not depend on where they are taken (`WordOfWords`).  Hence a later
reading's product is the earlier one's plus that of the cycles in between, less a whole
word if it wraps (`LaterReading`).  Without a wrap, the difference of the two readings is
the time between them or a nanosecond more.  With one it is negative: what is missing to the
word is more than a nanosecond's worth, and this is what `MaxAge` has to leave.  The proof
settled that bound: a first version of the assumption, which only kept an item from
staying for a whole wrap, did not imply `SamplesAreTrue`.

None of the three properties is inductive.  `ClockInv` and `QueueInv` say that a stamp is
the reading of its time and not older than `MaxAge`, from the producer's hand until the slowest
consumer has received it.  `PaceInv` measures the loop: while `epoch_ns` has not gone back,
the product has advanced by `NsPerSec` for every pass since the last target, so that
`SpinLimit` passes reach the next one; had it given up short of the target, there was a wrap.
`MergeInv` is about the report: there is a bijection from the places of the merged vector to
the samples of the recorders merged so far that keeps the values.  `Merge` extends it by those of one recorder
(`MergeInvStep`), and `Report` composes it with the permutation of `std::sort`.
`SortFacts`: no two samples have one rank and ranks are at most as many as samples, hence `Sort` is a
permutation and ascending.  `IndexFacts` bounds the place `percentile` reads, the rounding
of the floating-point product included, and `CountFacts` counts the samples on either side of
a place.  Through the bijection both carry over to the samples the consumers recorded.

*Induction.*  The library's induction theorems have an operator as a parameter, which none of
the provers can instantiate.  Where a proof needs induction over the naturals, `SetInduction`
takes a set instead: one that holds 0 and with each `n` its successor is all of `Nat`, since
of what it lacks there would be a least element (`WellFoundedInduction`).

*Only model-checked.*

* Liveness (`EmplaceWaitReturns`, `EveryItemDelivered`, `EveryItemLeaves`, `EmplaceSucceeds`,
  `EveryoneSeesEverything`, `EveryoneLeaves`, `EveryFutureReady`, `BenchmarkEnds`): it rests on
  fairness, and the provers do not reason about `ENABLED`.
* `ProducerNeverStranded`, `LosesOnlyOverwritten` and `DestructorReturns`, which are false.

## 5. Where code and comments disagree

Shown by a run:

* `SPMCQueue`, line 300 (and 364): a pop ends with `notify_one`, which may wake a consumer
  parked on the same slot for a later lap instead of the producer.  The
  producer sleeps on a free slot.  It takes two blocking consumers and a
  producer in `emplace_wait`; with one consumer it cannot happen
  (`SPMCQueue_blocking`).
* `SPMCOverwriteQueue`, line 193: when `published_` lags, the fallback to `newest` skips items
  still in the ring and counts them as missed.  The run is of `NothrowSpec`, in which no
  construction throws, so that every position it skips held an item.  (`Overwritten` has a
  position whose publish threw still count as in the ring, which is what makes
  `LossIsExactWhenCurrent` the stronger statement.)
* `ThreadPool`, line 117: stop request and notification can both fall between a worker's
  test and its wait, since neither takes the mutex; the destructor does not return.

Without a run of their own:

* `tune-benchmark-host.sh:245`: a second apply empties the file with the original frequency
  floors, and `--undo` leaves the cores pinned.  `Recoverable` and `UndoRestores` except the
  cores to which this has happened (`dropped`).
* `TscBenchmarkMain.cpp:149`: `run_benchmark` paces without the bound that its two sisters
  have, and spins for ever when its target lies beyond the largest value of `epoch_ns`.
  Substituting that loop (`KeepsSpinningUnbounded`) makes `BenchmarkEnds` fail.  The comment
  on lines 228-231 suspects the hardware; the wrap of the product in `to_ns` is enough.
* `TscClock.hpp:126`: 5.4e19 is not below 2^63; the product wraps after 2^64 / 10^9 cycles,
  about 6 s at 3 GHz.  Lines 135 and 146 therefore hold only between wraps.  The
  benchmarks drop a sample that comes out negative, so that a wrap costs the samples of the
  items in the queue; `SamplesAreTrue` states this.
* `SPMCLockFreeQueue.h:89`: `bit_ceil(SIZE_MAX/2 + 1)` does not wrap, it is 2^63, and line 91
  accepts it.  `SPMCAssumption` needs the capacity to be less than a quarter of the range; a
  ring that violates it does not fit into memory.
* `SPMCLockFreeQueue.h:384`: "|t - h| <= capacity_ always holds" is true for the producer
  (`ProducerSizeBounded`).  Another thread may be given a `tail_` that is any number of items
  behind the `head_` it was just given, or ahead of it, and then `size_approx` is near
  2^64, or `empty` true beside items; for a consumer that has popped the error is at most
  what others have claimed since (`ConsumerSizeBounded`).
* `ThreadPool.h:50`: if starting a worker fails, `~ThreadPool` does not run, the workers
  that sleep are never notified, and the constructor does not return (`SpawnFails`,
  `UnwindWorker`).
* `tune-benchmark-host.sh:210`: whether step 5 is due is read from `/etc/default/grub`, so
  that after a failed `update-grub` it is never called again.
* `tune-benchmark-host.sh:315`: `sed` changes nothing when the value is in single quotes,
  and the script reports success; not modelled.
* `tune-benchmark-host.sh:166`: undo sets the RT runtime and the C-states to the kernel's
  defaults, whatever they were before; in the model a boot sets them to these.
* `SPMCLockFreeQueue.h:223`: the comment says "seq > t"; a full slot has `seq < t` there.
* `SPMCOverwriteQueue.h:137`: `Empty` is also returned when the slot is being
  written for a position one or more laps ahead; `EmptyIsFinal` says what is true.
* `SPMCOverwriteQueue.h:230-245`: "no failure mode", but `T`'s constructor may throw and leave
  the slot marked for a whole lap.  Modelled (`ConstructThrows`).
* `SPMCBroadcastQueue.h:223`: the minimum of cursors is taken by value and would be
  wrong after 2^64 items; not modelled, the counters of that module are unbounded.

## 6. Not modelled

* *Memory order of `SPMCQueue` and `ThreadPool`.*  The pool uses a mutex; in the queue every
  access that matters is to `sequence` with acquire/release, or a compare-and-swap, whose
  acquire and release pairs order the accesses to storage.  A sequentially consistent model does not see what weaker
  orders of `head_` and `tail_` allow beyond staleness.  The exception is `size_approx`, which
  is nothing but two such loads.
* `std::bad_alloc` inside `enqueue` (nothing has changed by then).
* `position`, `backlog_approx`, `published_count`, `missed`: they read.
* The values `T`; only whether its construction or move throws.
* `--status` of the script, changes of the settings by anybody else, an edit of
  `/etc/default/grub` that undo would revert along with the script's own.
* `run_benchmark`'s shared count of pops, the thread priorities and cores, `mean_ns`, the layout of
  the tables, `GBenchmark.cpp`.
* Two wraps of the clock while an item is in the queue (`MaxAge`): it would have to stay there for
  6 s.
* Tasks that wait for tasks enqueued after them: with enough of them every worker is occupied,
  and the pool makes no promise.

## 7. What is left

Done: the five headers' protocols, the tuning script, the clock, the recorder, the
capacities and the benchmarks that compose them with the queues; a theorem for every
property of a passing run that is not liveness.

What would extend it:

1. `run_benchmark`, whose consumers share a count of pops, over `WorkQueue`.
2. Stale loads of `head_` in the calls of `SPMCQueue` too, as the other queues have them.
3. Wrapping cursors in `SPMCBroadcastQueue`, for the comparison by value on line 223.
