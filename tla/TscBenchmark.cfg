\* A word of 16, which the product runs over every five or six cycles; no item gets older than three.
SPECIFICATION Spec
CONSTANTS
  WordRange = 16
  NsPerSec = 3
  Consumers = {c1, c2}
  Capacity = 2
  Warmup = 1
  Total = 3
  Rates = {0, 3}
  SpinLimit = 3
  SleepCycles = {2, 4}
  SleepNs = 5
  Epoch = 5
  MaxAge = 3
  Hundred = 100000
  Percents = {50000, 90000, 99990}
INVARIANT ReportedAreQuantiles
PROPERTIES ResyncOnlyAfterWrap SamplesAreTrue BenchmarkEnds
CHECK_DEADLOCK FALSE
