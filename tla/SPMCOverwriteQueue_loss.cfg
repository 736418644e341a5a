\* lapped_to's comment on what is lost, of items whose construction does not throw.
SPECIFICATION NothrowSpec
CONSTANTS
  Consumers = {c1}
  Words = {lo, hi}
  Capacity = 2
  Items = 4
PROPERTIES LosesOnlyOverwritten
CHECK_DEADLOCK FALSE
