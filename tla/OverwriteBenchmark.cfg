\* A ring of two overwritten twice, loads arbitrarily old, payloads of two words.
SPECIFICATION BenchSpec
CONSTANTS
  Consumers = {c1}
  Words = {lo, hi}
  Capacity = 2
  Items = 5
INVARIANTS NoTornReads EmptyIsFinal LossAddsUp
PROPERTIES LappedAdvances LossIsExactWhenCurrent ImplementsLossyLog EveryoneLeaves
CHECK_DEADLOCK FALSE
