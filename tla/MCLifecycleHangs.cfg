CONSTANTS
  r1 = r1
  r2 = r2
  s1 = s1
  Requests <- MCRequests
  Streams <- MCStreams
  NTasks = 3
  Optional <- MCOptional
  Eager <- MCEager
SPECIFICATION FairSpec
PROPERTIES
  ServesUntilShutdown
CHECK_DEADLOCK FALSE
