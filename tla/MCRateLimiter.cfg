CONSTANTS
  r1 = r1
  r2 = r2
  r3 = r3
  r4 = r4
  r5 = r5
  host = host
  Requests <- MCRequests
  Ips <- MCIps
  Ports <- MCTwoPorts
  Max = 2
  Window = 2
  MaxDelay = 1
  MaxTime = 6
SPECIFICATION Spec
SYMMETRY MCSymmetry
INVARIANTS
  SlidingBound
  RefusedForCause
CHECK_DEADLOCK FALSE
