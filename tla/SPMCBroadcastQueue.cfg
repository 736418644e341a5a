\* Two consumers, a ring of two filled three times over, every load arbitrarily old.
SPECIFICATION FairSpec
CONSTANTS
  N = 2
  Capacity = 2
  Items = 6
INVARIANTS OverwriteIsOrdered ReferenceIsStable
PROPERTIES RefusedWhenFull ImplementsBroadcastLog EveryoneSeesEverything
CHECK_DEADLOCK FALSE
