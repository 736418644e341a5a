\* Every call of both sides, two consumers, a ring of two slots filled twice over.
SPECIFICATION Spec
CONSTANTS
  Producer = p
  Consumers = {c1, c2}
  Capacity = 2
  SizeRange = 16
  Items = 4
  MaxLag = 4
  ProducerCalls = {"try_emplace", "emplace_wait"}
  ConsumerCalls = {"try_pop", "pop_wait"}
SYMMETRY Symmetry
INVARIANTS
  TypeOK NoDataRace LifetimesRespected ExactlyOnce EmptyIsTrue FullIsTrue
  ConsumersNeverStranded DestructorDrains
PROPERTY ImplementsWorkQueue
CHECK_DEADLOCK FALSE
