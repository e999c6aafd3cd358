SPECIFICATION Spec
CONSTANTS
  u = u
  v = v
  Empty = Empty
  Idle = Idle
  Keys <- FourKeys
  Values <- OneValue
  INITIAL_SIZE = 4
  MAX_CHAIN_LENGTH = 3
  TIMEOUT_CHILDREN = 0
  MaxTable = 9
  MaxTime = 2
PROPERTIES
  GetFindsPresent
