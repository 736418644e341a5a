\* emplace_wait against pop_wait while std::size_t runs over.
SPECIFICATION FairSpec
CONSTANTS
  Producer = p
  Consumers = {c1}
  Capacity = 2
  SizeRange = 10
  Items = 11
  MaxLag = 3
  ProducerCalls = {"emplace_wait"}
  ConsumerCalls = {"pop_wait"}
INVARIANTS DestructorDrains
PROPERTIES EmplaceWaitReturns EveryItemDelivered
CHECK_DEADLOCK FALSE
