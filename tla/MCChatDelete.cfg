CONSTANTS
  r1 = r1
  r2 = r2
  alice = alice
  bob = bob
  None = None
  Requests <- MCRequests
  Tokens <- MCTokens
  HasDb = TRUE
  MaxDeletes = 1
SPECIFICATION Spec
PROPERTY RefusedDeleteKeepsMessages
CHECK_DEADLOCK FALSE
