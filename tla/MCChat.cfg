CONSTANTS
  r1 = r1
  r2 = r2
  alice = alice
  bob = bob
  None = None
  Requests <- MCRequests
  Tokens <- MCTokens
  HasDb = TRUE
  MaxDeletes = 2
SPECIFICATION FairSpec
INVARIANTS
  AnsweredIsStored
  RepliesFollowQuestions
  MessagesAreTheOwners
PROPERTIES
  EveryRequestEnds
CHECK_DEADLOCK FALSE
