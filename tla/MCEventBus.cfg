CONSTANTS
  main = main
  clone = clone
  s1 = s1
  s2 = s2
  Handles <- MCHandles
  Subs <- MCSubs
  Events <- MCEvents
  Capacity = 2
  MaxEvents = 4
SPECIFICATION FairSpec
INVARIANTS
  NothingLostQuietly
PROPERTIES
  StreamEnds
  CatchesUp
  ImplementsPubSub
CHECK_DEADLOCK FALSE
