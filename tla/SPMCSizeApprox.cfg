\* size_approx and empty, called by a producer and two consumers with relaxed loads.
SPECIFICATION SizeSpec
CONSTANTS
  Producer = p
  Consumers = {c1, c2}
  Capacity = 2
  SizeRange = 16
  Items = 4
  MaxLag = 4
  ProducerCalls = {"try_emplace"}
  ConsumerCalls = {"try_pop"}
INVARIANTS ProducerSizeBounded ConsumerSizeBounded
CHECK_DEADLOCK FALSE
