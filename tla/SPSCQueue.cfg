\* A ring of four nearly filled twice over, loads of the other side's index arbitrarily old.
SPECIFICATION FairSpec
CONSTANTS
  Capacity = 4
  Items = 7
INVARIANT ElementsIntact
PROPERTIES ImplementsWorkQueue EveryItemLeaves EmplaceSucceeds
CHECK_DEADLOCK FALSE
