\* emplace_wait against two blocking consumers: notify_one wakes the wrong thread.
SPECIFICATION Spec
CONSTANTS
  Producer = p
  Consumers = {c1, c2}
  Capacity = 2
  SizeRange = 16
  Items = 4
  MaxLag = 4
  ProducerCalls = {"emplace_wait"}
  ConsumerCalls = {"pop_wait"}
SYMMETRY Symmetry
INVARIANTS ProducerNeverStranded
CHECK_DEADLOCK FALSE
