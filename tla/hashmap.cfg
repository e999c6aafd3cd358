SPECIFICATION FairSpec
CONSTANTS
  u = u
  v = v
  Empty = Empty
  Idle = Idle
  Keys <- CollidingKeys
  Values <- TwoValues
  INITIAL_SIZE = 6
  MAX_CHAIN_LENGTH = 2
  TIMEOUT_CHILDREN = 1
  MaxTable = 27
  MaxTime = 3
INVARIANTS
  TypeOK
  Findable
  HalfVacant
PROPERTIES
  ImplementsDictionary
  GetAnswers
  PutReturns
CHECK_DEADLOCK FALSE
